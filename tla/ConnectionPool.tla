--------------------------- MODULE ConnectionPool ---------------------------
(***************************************************************************)
(* One pool of PostgreSQL connections for everything a process does.  The  *)
(* stores ask it for a connection for each statement of theirs; the        *)
(* session of a request takes one with its first statement and gives it    *)
(* back when it commits, and at the latest when the request is torn down.  *)
(* A request whose session holds a connection and which calls a store      *)
(* needs two at once: a stream that stores a completion, and a label that  *)
(* is made for a message just read.                                        *)
(*                                                                         *)
(* A connection is a count: which one a request gets makes no difference.  *)
(***************************************************************************)
EXTENDS Naturals, Sequences, FiniteSets, FiniteSetsExt, SequencesExt

CONSTANTS
  Handlers,    \* requests that are handled at the same time
  MinSize,     \* connections opened in advance (config.min_size)
  MaxSize      \* connections there may be (config.max_size)

ASSUME PoolAssumption ==
  /\ MinSize \in Nat /\ MaxSize \in Nat \ {0} /\ MinSize <= MaxSize

VARIABLES
  opened,      \* connections of the pool, one that is being opened included
  free,        \* connections nobody holds
  growing,     \* the pool is opening one more
  waiting,     \* requests waiting for a connection, first come first served
  session,     \* does the session of the request hold a connection
  store,       \* does a store called by the request hold one
  handler      \* how far the request is

poolVars == <<opened, free, growing, waiting, session, store, handler>>

Ended == {"answered", "failed"}

PoolTypeOK ==
  /\ opened \in 0..MaxSize /\ free \in 0..MaxSize /\ growing \in BOOLEAN
  /\ waiting \in Seq(Handlers)
  /\ session \in [Handlers -> BOOLEAN] /\ store \in [Handlers -> BOOLEAN]
  /\ handler \in [Handlers -> {"new", "running", "forSession", "forStore"} \cup Ended]

PoolInit ==
  /\ opened = MinSize /\ free = MinSize /\ growing = FALSE /\ waiting = <<>>
  /\ session = [h \in Handlers |-> FALSE] /\ store = [h \in Handlers |-> FALSE]
  /\ handler = [h \in Handlers |-> "new"]

-----------------------------------------------------------------------------
\* What h holds once it has the connection it asked for.
Handed(h) ==
  /\ session' = [session EXCEPT ![h] = @ \/ handler[h] = "forSession"]
  /\ store' = [store EXCEPT ![h] = @ \/ handler[h] = "forStore"]
  /\ handler' = [handler EXCEPT ![h] = "running"]

\* h asks for a connection: a free one is taken at once, else h waits in line
\* and the pool opens one more if it may.
Acquire(h, where) ==
  IF free > 0
  THEN /\ free' = free - 1
       /\ session' = [session EXCEPT ![h] = @ \/ where = "forSession"]
       /\ store' = [store EXCEPT ![h] = @ \/ where = "forStore"]
       /\ handler' = [handler EXCEPT ![h] = "running"]
       /\ UNCHANGED <<opened, growing, waiting>>
  ELSE /\ waiting' = Append(waiting, h)
       /\ handler' = [handler EXCEPT ![h] = where]
       /\ growing' = (growing \/ opened < MaxSize)
       /\ opened' = IF ~growing /\ opened < MaxSize THEN opened + 1 ELSE opened
       /\ UNCHANGED <<free, session, store>>

\* What becomes of n connections that come back: the first in line get them.
Served(n) == {waiting[i] : i \in 1..IF n < Len(waiting) THEN n ELSE Len(waiting)}

GiveBack(h, sessions, stores, at) ==
  LET n == (IF session[h] /\ sessions THEN 1 ELSE 0) + (IF store[h] /\ stores THEN 1 ELSE 0)
      served == Served(n)
  IN /\ session' = [k \in Handlers |->
           IF k = h THEN session[h] /\ ~sessions
           ELSE session[k] \/ (k \in served /\ handler[k] = "forSession")]
     /\ store' = [k \in Handlers |->
           IF k = h THEN store[h] /\ ~stores
           ELSE store[k] \/ (k \in served /\ handler[k] = "forStore")]
     /\ handler' = [k \in Handlers |->
           IF k = h THEN at ELSE IF k \in served THEN "running" ELSE handler[k]]
     /\ free' = free + n - Cardinality(served)
     /\ waiting' = SubSeq(waiting, Cardinality(served) + 1, Len(waiting))
     /\ UNCHANGED <<opened, growing>>

\* A connection that was being opened is ready; one more is opened while
\* somebody still waits and there may be one.
Grow ==
  /\ growing
  /\ IF waiting = <<>>
     THEN /\ free' = free + 1 /\ growing' = FALSE
          /\ UNCHANGED <<opened, waiting, session, store, handler>>
     ELSE /\ Handed(Head(waiting)) /\ waiting' = Tail(waiting)
          /\ growing' = (Len(waiting) > 1 /\ opened < MaxSize)
          /\ opened' = IF growing' THEN opened + 1 ELSE opened
          /\ UNCHANGED free

-----------------------------------------------------------------------------
Begin(h) ==
  /\ handler[h] = "new"
  /\ handler' = [handler EXCEPT ![h] = "running"]
  /\ UNCHANGED <<opened, free, growing, waiting, session, store>>

\* The first statement of a transaction of the session takes a connection.
OpenTransaction(h) ==
  /\ handler[h] = "running" /\ ~session[h] /\ ~store[h]
  /\ Acquire(h, "forSession")

\* A commit ends the transaction and gives the connection back.
Commit(h) ==
  /\ handler[h] = "running" /\ session[h] /\ ~store[h]
  /\ GiveBack(h, TRUE, FALSE, "running")

\* A method of a store: with pool.connection() as conn.  The session of the
\* request keeps its connection meanwhile.
CallStore(h) ==
  /\ handler[h] = "running" /\ ~store[h]
  /\ Acquire(h, "forStore")

LeaveStore(h) ==
  /\ handler[h] = "running" /\ store[h]
  /\ GiveBack(h, FALSE, TRUE, "running")

\* Wrong on purpose: the session is not removed.
TearDown_KeepsSession(h) ==
  /\ handler[h] = "running" /\ ~store[h]
  /\ \E outcome \in Ended : GiveBack(h, FALSE, TRUE, outcome)

\* The request ends, answered, failed or cut off by its client: the
\* application context is torn down and the session removed.
TearDown(h) ==
  /\ handler[h] = "running" /\ ~store[h]
  /\ \E outcome \in Ended : GiveBack(h, TRUE, TRUE, outcome)

\* Wrong on purpose: there is no limit to a wait.
TimeOut_Never(h) == h \notin Handlers

\* 30 seconds in line: PoolTimeout ends the request, and its session is removed.
TimeOut(h) ==
  /\ handler[h] \in {"forSession", "forStore"}
  /\ \E i \in DOMAIN waiting : waiting[i] = h /\
       LET left == RemoveAt(waiting, i)
           passed == session[h] /\ left # <<>>
           next == Head(left)
       IN /\ session' = [k \in Handlers |->
                 IF k = h THEN FALSE
                 ELSE session[k] \/ (passed /\ k = next /\ handler[k] = "forSession")]
          /\ store' = [k \in Handlers |->
                 store[k] \/ (passed /\ k = next /\ handler[k] = "forStore")]
          /\ handler' = [k \in Handlers |->
                 IF k = h THEN "failed" ELSE IF passed /\ k = next THEN "running" ELSE handler[k]]
          /\ waiting' = IF passed THEN Tail(left) ELSE left
          /\ free' = IF session[h] /\ ~passed THEN free + 1 ELSE free
  /\ UNCHANGED <<opened, growing>>

Handle(h) ==
  \/ Begin(h) \/ OpenTransaction(h) \/ Commit(h) \/ CallStore(h)
  \/ LeaveStore(h) \/ TearDown(h) \/ TimeOut(h)

PoolNext == Grow \/ \E h \in Handlers : Handle(h)

\* A request that is not waiting goes on and returns; a wait ends after its
\* 30 seconds; a connection that is being opened is opened.
PoolFairness ==
  /\ WF_poolVars(Grow)
  /\ \A h \in Handlers :
       /\ SF_poolVars(TearDown(h)) /\ WF_poolVars(LeaveStore(h))
       /\ WF_poolVars(TimeOut(h))

PoolSpec == PoolInit /\ [][PoolNext]_poolVars /\ PoolFairness

-----------------------------------------------------------------------------
\* No connection is lost or lent twice, an ended request keeps none, and
\* nobody waits while one is free.
ConnectionsComeBack ==
  /\ opened = free + Cardinality({h \in Handlers : session[h]})
                   + Cardinality({h \in Handlers : store[h]}) + (IF growing THEN 1 ELSE 0)
  /\ \A h \in Handlers : handler[h] \in Ended => ~session[h] /\ ~store[h]
  /\ waiting # <<>> => free = 0

\* Requests that hold each other's connections do not stand still for ever:
\* every request is answered or fails.
RequestsEnd == \A h \in Handlers : handler[h] = "running" ~> handler[h] \in Ended
=============================================================================
