SPECIFICATION Spec
CONSTANTS
  alice = alice
  guest = guest
  Requests = {r1, r2}
  Clients = {alice}
  Anonymous = {}
  Inputs <- Conversation
  Answers <- Mixed
  Fragile = {}
  PoliteClients = TRUE
INVARIANTS
  ResponsesAnswerCalls
  StreamIsDurable
SYMMETRY Symmetry
PROPERTIES
  NoReplyOverPendingCalls
CHECK_DEADLOCK FALSE
