CONSTANTS
  MaxObjectNumber = 7
  MaxGen = 2
  Plain <- OnePlain
  Streams <- OneStream
  ChunkSize = 2
  Files <- UnseenFiles
  MaxSteps = 1
  MaxChanged = 1
  a = a
  b = b
  s = s
SPECIFICATION Spec
INVARIANTS MaxNumberHighest
