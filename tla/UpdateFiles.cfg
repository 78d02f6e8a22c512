CONSTANTS
  MaxObjectNumber = 6
  MaxGen = 2
  Plain <- OnePlain
  Streams <- OneStream
  ChunkSize = 2
  Files <- AllFiles
  MaxSteps = 3
  MaxChanged = 2
  a = a
  b = b
  s = s
SPECIFICATION Spec
PROPERTIES NumbersFresh SizeCovers ImplementsStore
