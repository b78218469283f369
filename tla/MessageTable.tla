--------------------------- MODULE MessageTable ---------------------------
(***************************************************************************)
(* The message table of olmo-api and the unit of work that one request     *)
(* opens on it.                                                            *)
(*                                                                         *)
(* The table is packages/db/src/db/models/message/message.py; the unit of  *)
(* work is the SQLAlchemy session that apps/flask-api/src/dao/             *)
(* flask_sqlalchemy_session.py binds to a request and that                 *)
(* MessageRepository commits.  Rows are never deleted in this module, so   *)
(* the table is a sequence and the identity of a row is its position: the  *)
(* identities that core.object_id draws at random become consecutive, which *)
(* also orders them by "created".                                          *)
(***************************************************************************)
EXTENDS Naturals, Sequences, FiniteSets

CONSTANTS
  Requests,     \* the HTTP requests that are served, one unit of work each
  Clients,      \* the callers
  Anonymous     \* the callers that have not logged in

ASSUME ClientsAssumption == Clients # {} /\ Anonymous \subseteq Clients

VARIABLES
  message,      \* the committed rows
  completions,  \* the rows whose completion record is committed
  writes,       \* per request: parent columns flushed but not committed
  errs,         \* per request: rows whose error columns wait for a commit
  loaded        \* per request: rows whose "children" the session has loaded

storeVars == <<message, completions, writes, errs, loaded>>

-----------------------------------------------------------------------------
MsgId == Nat \ {0}
None  == 0
MsgRef == Nat

Role   == {"system", "user", "assistant", "tool_call_result"}
Source == {"internal", "user_defined"}

(***************************************************************************)
(* A tool call is named by the row that made it and its rank there.        *)
(***************************************************************************)
CallId == MsgRef \X Nat
NoCall == <<None, 0>>

Row == [role       : Role,
        root       : MsgId,
        parent     : MsgRef,
        final      : BOOLEAN,
        private    : BOOLEAN,
        creator    : Clients,
        calls      : Seq(Source),   \* tool_calls of an assistant
        answers    : CallId,        \* the call a tool response answers
        err        : BOOLEAN,       \* error_code, _description, _severity
        completion : BOOLEAN]       \* refers to a completion record

Ids == DOMAIN message
NewId == Len(message) + 1

-----------------------------------------------------------------------------
(***************************************************************************)
(* What a commit of request r makes of the table.                          *)
(***************************************************************************)
ParentIn(W, id, old) ==
  IF \E w \in W : w[1] = id THEN (CHOOSE w \in W : w[1] = id)[2] ELSE old

Committed(r) ==
  [id \in Ids |-> [message[id] EXCEPT
                     !.parent = ParentIn(writes[r], id, @),
                     !.err    = @ \/ id \in errs[r]]]

SessionEmptied(r) ==
  /\ writes' = [writes EXCEPT ![r] = {}]
  /\ errs'   = [errs EXCEPT ![r] = {}]

\* PostgreSQL keeps an updated row locked until its transaction ends.
Locked(r) == {w[1] : w \in writes[r]}
CanWrite(r, rows) == \A q \in Requests \ {r} : rows \cap Locked(q) = {}

\* MessageRepository.add: insert, flush, commit.
Add(r, row) ==
  /\ CanWrite(r, errs[r])
  /\ message' = Append(Committed(r), row)
  /\ SessionEmptied(r)

\* Wrong on purpose: a value the session thinks unchanged is not written.
Update_NotFinal(r, id, calls, completion) ==
  /\ CanWrite(r, errs[r] \cup {id})
  /\ message' = [Committed(r) EXCEPT ![id].calls = calls, ![id].completion = completion]
  /\ SessionEmptied(r)

\* MessageRepository.update: flush, commit.  Every caller makes the row final;
\* for a reply it also stores the calls and the completion.
Update(r, id, calls, completion) ==
  /\ CanWrite(r, errs[r] \cup {id})
  /\ message' = [Committed(r) EXCEPT ![id].final = TRUE,
                                    ![id].calls = calls,
                                    ![id].completion = completion]
  /\ SessionEmptied(r)

\* Wrong on purpose: the session is dropped and its transaction stays open.
Rollback_Leaks(r) ==
  /\ loaded' = [loaded EXCEPT ![r] = {}]
  /\ UNCHANGED <<message, completions, writes, errs>>

\* The teardown of the application context removes the session: roll back.
Rollback(r) ==
  /\ SessionEmptied(r)
  /\ loaded' = [loaded EXCEPT ![r] = {}]
  /\ UNCHANGED <<message, completions>>

-----------------------------------------------------------------------------
(***************************************************************************)
(* Assigning "message.children" (repair_children).  The collection is      *)
(* loaded from the table the first time; a row that was in it and is not   *)
(* any more gets a NULL parent, and the lazy load of the next collection   *)
(* flushes that update, so the row is locked until the next commit.        *)
(***************************************************************************)
StoredChildren(r, m) ==
  {c \in Ids : ParentIn(writes[r], c, message[c].parent) = m}

\* relink is the set of rows whose in-memory parent differs from m.
AssignChildren(r, m, next, relink) ==
  LET dropped == StoredChildren(r, m) \ (next \cup relink)
      updates == {<<c, None>> : c \in dropped} \cup {<<c, m>> : c \in relink}
  IN  /\ CanWrite(r, dropped \cup relink)
      /\ writes' = [writes EXCEPT ![r] = @ \cup updates]
      /\ loaded' = [loaded EXCEPT ![r] = @ \cup {m}]
      /\ UNCHANGED <<message, completions, errs>>

StoreInit ==
  /\ message = <<>>
  /\ completions = {}
  /\ writes = [r \in Requests |-> {}]
  /\ errs = [r \in Requests |-> {}]
  /\ loaded = [r \in Requests |-> {}]

StoreTypeOK ==
  /\ message \in Seq(Row)
  /\ completions \subseteq MsgId
  /\ writes \in [Requests -> SUBSET (MsgId \X MsgRef)]
  /\ errs \in [Requests -> SUBSET MsgId]
  /\ loaded \in [Requests -> SUBSET MsgId]
=============================================================================
