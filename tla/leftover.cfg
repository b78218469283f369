SPECIFICATION Spec
CONSTANTS
  m1 = m1
  Messages <- OneMessage
  VideosPer <- TwoVideos
  Modes = {"blocking"}
  MaxRetries = 1
  Workers = 1
  Deaths = 0
  Anonymous = {}
  Trusted = {}
PROPERTIES
  CheckedVideosLeave
CHECK_DEADLOCK FALSE
