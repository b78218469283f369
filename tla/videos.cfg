SPECIFICATION Spec
CONSTANTS
  m1 = m1
  Messages <- OneMessage
  VideosPer <- TwoVideos
  Modes = {"blocking", "queued", "off"}
  MaxRetries = 1
  Workers = 2
  Deaths = 1
  Anonymous = {m1}
  Trusted = {m1}
INVARIANTS
  TypeOK
  OnlyCheckedIsPublic
  UnwantedFilesAreGone
  UnsafeIsMarked
PROPERTIES
  DanglingNamesEnd
CHECK_DEADLOCK FALSE
