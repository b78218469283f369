SPECIFICATION Spec
CONSTANTS
  alice = alice
  guest = guest
  Requests = {r1, r2, r3}
  Clients = {alice, guest}
  Anonymous = {guest}
  Inputs <- TwoCallers
  Answers <- NoCalls
  Fragile = {}
  PoliteClients = FALSE
INVARIANTS
  TypeOK
  ThreadIntegrity
  RolesAlternate
  OneOwnerPerThread
SYMMETRY Symmetry
CHECK_DEADLOCK FALSE
