SPECIFICATION Spec
CONSTANTS
  alice = alice
  guest = guest
  Requests = {r1, r2}
  Clients = {alice}
  Anonymous = {}
  Inputs <- Conversation
  Answers <- TwoAndOne
  Fragile = {}
  PoliteClients = TRUE
INVARIANTS
  AnsweredCallsUnblock
SYMMETRY Symmetry
CHECK_DEADLOCK FALSE
