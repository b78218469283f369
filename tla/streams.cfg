SPECIFICATION Spec
CONSTANTS
  alice = alice
  guest = guest
  Requests = {r1, r2}
  Clients = {alice}
  Anonymous = {}
  Inputs <- Anything
  Answers <- OneCall
  Fragile = {r1}
  PoliteClients = FALSE
INVARIANTS
  StreamIsDurable
  CompletionsExist
PROPERTIES
  EveryRequestEnds
  StreamsFollowProtocol
CHECK_DEADLOCK FALSE
