SPECIFICATION InferenceSpec
CONSTANTS
  ServerTools = {search}
  UserTools = {ask}
  Undefined = undefined
  NoName = NoName
  FileKinds = {"none", "image", "other"}
  Pieces = 3
  MaxSteps = 2
  ThreadLength = 5
INVARIANT NextConsumerCanRead
CHECK_DEADLOCK FALSE
