SPECIFICATION Spec
CONSTANTS
  alice = alice
  guest = guest
  Requests = {r1, r2, r3}
  Clients = {alice}
  Anonymous = {}
  Inputs <- Branching
  Answers <- NoCalls
  Fragile = {}
  PoliteClients = TRUE
INVARIANTS
  RepliesHaveParents
SYMMETRY Symmetry
CHECK_DEADLOCK FALSE
