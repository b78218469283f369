--------------------------- MODULE StreamProtocol ---------------------------
(***************************************************************************)
(* What a client may rely on when it reads the items of a stream, the      *)
(* abstract specification of the generator stream_new_message.             *)
(*                                                                         *)
(* A stream opens with the identity of the thread.  It is then a series of *)
(* turns; a turn shows the thread with a new, empty reply, and ends with   *)
(* the thread again.  There are at most as many turns as the budget of the *)
(* request, another turn begins only when no call of the last one is left  *)
(* unanswered, and a stream that runs out of its budget says so before its *)
(* last item.  A stream can break off anywhere.                            *)
(***************************************************************************)
EXTENDS Integers

CONSTANT Requests

VARIABLES
  phase,   \* how far the stream is
  budget,  \* max_steps of the request, while turns can begin
  turns,   \* the turns begun so far
  asked    \* the calls of the newest turn that nobody has answered

pvars == <<phase, budget, turns, asked>>

Phases == {"idle", "open", "turn", "between", "limit", "closing", "closed"}

To(r, p) == phase' = [phase EXCEPT ![r] = p]

Settle(r) == /\ budget' = [budget EXCEPT ![r] = 0]
             /\ turns' = [turns EXCEPT ![r] = 0]
             /\ asked' = [asked EXCEPT ![r] = 0]

Init == /\ phase = [r \in Requests |-> "idle"]
        /\ budget = [r \in Requests |-> 0]
        /\ turns = [r \in Requests |-> 0]
        /\ asked = [r \in Requests |-> 0]

\* The stream starts, or starts only to show that calls are pending.
Open(r) == /\ phase[r] = "idle"
           /\ To(r, "open")
           /\ budget'[r] \in Int
           /\ budget' = [budget EXCEPT ![r] = budget'[r]]
           /\ UNCHANGED <<turns, asked>>

ShowPending(r) == phase[r] = "idle" /\ To(r, "closing") /\ Settle(r)

Turn(r) == /\ phase[r] \in {"open", "between"}
           /\ asked[r] = 0
           /\ turns[r] < budget[r]
           /\ To(r, "turn")
           /\ turns' = [turns EXCEPT ![r] = @ + 1]
           /\ UNCHANGED <<budget, asked>>

\* The reply asks for calls; the server answers them one at a time.
Ask(r) == /\ phase[r] = "turn" /\ asked[r] = 0
          /\ asked'[r] \in Nat \ {0}
          /\ asked' = [asked EXCEPT ![r] = asked'[r]]
          /\ UNCHANGED <<phase, budget, turns>>

Answer(r) == /\ phase[r] = "turn" /\ asked[r] > 0
             /\ asked' = [asked EXCEPT ![r] = @ - 1]
             /\ UNCHANGED <<phase, budget, turns>>

Continue(r) == /\ phase[r] = "turn" /\ asked[r] = 0
               /\ To(r, "between")
               /\ UNCHANGED <<budget, turns, asked>>

Finish(r) == phase[r] = "turn" /\ To(r, "closing") /\ Settle(r)

ExceedBudget(r) == /\ phase[r] \in {"open", "between"}
                   /\ turns[r] = budget[r]
                   /\ To(r, "limit")
                   /\ Settle(r)

\* max_steps is not validated: a negative one ends the stream at once.
NoBudget(r) == /\ phase[r] = "open"
               /\ budget[r] < 0
               /\ To(r, "closing")
               /\ Settle(r)

Report(r) == phase[r] = "limit" /\ To(r, "closing") /\ Settle(r)

Close(r) == phase[r] # "closed" /\ To(r, "closed") /\ Settle(r)

Next == \E r \in Requests :
          \/ Open(r) \/ ShowPending(r) \/ Turn(r) \/ Ask(r) \/ Answer(r)
          \/ Continue(r) \/ Finish(r) \/ ExceedBudget(r) \/ NoBudget(r)
          \/ Report(r) \/ Close(r)

Spec == Init /\ [][Next]_pvars
=============================================================================
