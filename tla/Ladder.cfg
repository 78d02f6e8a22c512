SPECIFICATION LadderSpec
CONSTANT Inputs <- AllFiles
INVARIANTS RecoversSame LayersAgree MissingTold
