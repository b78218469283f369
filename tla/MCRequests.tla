----------------------------- MODULE MCRequests -----------------------------
(***************************************************************************)
(* The way of a request for TLC: the tests it has to pass, what goes to    *)
(* and comes from the provider of its model, the connections it takes, and *)
(* the documents its reply is traced to.  These parts share no state.  One *)
(* of them moves in a behaviour, the others have nothing to do.            *)
(***************************************************************************)
EXTENDS ConnectionPool, Inference, RequestGate, Attribution, TLC

VARIABLE focus

requestsVars == <<poolVars, inferenceVars, gateVars, attributionVars, focus>>

NoExchange ==
  /\ host = "queue" /\ chain = <<>> /\ unread = {} /\ prompt = <<>> /\ exchange = "ended"
  /\ turn = 0 /\ sent = 0 /\ parts = <<>> /\ chunks = <<>> /\ mixed = FALSE

NoRequest ==
  /\ caller = Signed /\ request = Plain /\ above = SomeParent /\ config = PlainModel /\ settings = PlainSettings
  /\ step = "answered" /\ status = None /\ options = None
  /\ verdict = [text |-> "safe", images |-> "safe", seen |-> 0, videos |-> TRUE]

NoInquiry ==
  /\ inquiry = [prompt |-> "fine", model |-> "indexed"]
  /\ received = <<>> /\ ranked = <<>> /\ current = 0 /\ nested = {} /\ flattened = <<>>
  /\ mapped = 0 /\ shown = <<>> /\ listed = <<>> /\ reply = 0

RequestsInit ==
  /\ focus \in {"pool", "inference", "gate", "attribution"}
  /\ PoolInit
  /\ IF focus = "inference" THEN InferenceInit ELSE NoExchange
  /\ IF focus = "gate" THEN GateInit ELSE NoRequest
  /\ IF focus = "attribution" THEN AttributionInit ELSE NoInquiry

RequestsNext ==
  /\ UNCHANGED focus
  /\ \/ focus = "pool" /\ PoolNext /\ UNCHANGED <<inferenceVars, gateVars, attributionVars>>
     \/ focus = "inference" /\ InferenceNext /\ UNCHANGED <<poolVars, gateVars, attributionVars>>
     \/ focus = "gate" /\ GateNext /\ UNCHANGED <<poolVars, inferenceVars, attributionVars>>
     \/ focus = "attribution" /\ AttributionNext /\ UNCHANGED <<poolVars, inferenceVars, gateVars>>

RequestsSpec == RequestsInit /\ [][RequestsNext]_requestsVars /\ PoolFairness
=============================================================================
