SPECIFICATION Spec
CONSTANTS
  alice = alice
  guest = guest
  Requests = {r1, r2}
  Clients = {alice}
  Anonymous = {}
  Inputs <- Conversation
  Answers <- OneCall
  Fragile = {}
  PoliteClients = TRUE
INVARIANTS
  ErrorIsPersisted
SYMMETRY Symmetry
CHECK_DEADLOCK FALSE
