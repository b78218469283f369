SPECIFICATION RequestsSpec
CONSTANTS
  Handlers = {h1, h2, h3}
  MinSize = 1
  MaxSize = 2
  ServerTools = {search}
  UserTools = {ask}
  Undefined = undefined
  NoName = NoName
  FileKinds = {"none", "image", "other"}
  Pieces = 4
  MaxSteps = 2
  ThreadLength = 5
  MemberId = member
  GuestId = guest
  NoId = noId
  None = None
  MaxOption = 3
  Documents = {1, 2, 3, 4}
  Blocked = {3}
  Personal = {4}
  Found = {{1}, {1, 2}, {2, 3}, {3, 4}}
  Tokens = 4
  MaxSpans = 3
INVARIANTS
  ConnectionsComeBack
  ClientSeesWhatIsStored
  PromptsAreWhole
  WhatPassesWasLookedAt
  OptionsFitTheModel
  CallersAgree
  SpansAndDocumentsAgree
PROPERTIES
  RequestsEnd
CHECK_DEADLOCK FALSE
