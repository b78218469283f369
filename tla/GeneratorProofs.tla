-------------------------- MODULE GeneratorProofs --------------------------
(***************************************************************************)
(* What holds of the rows that the handlers of CreateMessage make and of   *)
(* the stream they produce, for every instance.                            *)
(*                                                                         *)
(* CreateMessageProofs says that the rows form threads.  Here the          *)
(* invariant says what a row is worth: an empty reply belongs to one       *)
(* request until it is stored, nothing that is stored is taken back, and   *)
(* every place of the generator knows what has been stored before it.      *)
(***************************************************************************)
EXTENDS CreateMessageProofs, FiniteSetTheorems

-----------------------------------------------------------------------------
(***************************************************************************)
(* The invariant of the table.                                             *)
(***************************************************************************)
Alternates(id, p) ==
  p # None => \/ message[p].role = "tool_call_result"
              \/ message[p].role # message[id].role

AnswersCall(id) ==
  LET a == message[id].answers[1] IN
    /\ a \in 1..(id - 1)
    /\ message[a].root = message[id].root
    /\ message[id].answers[2] \in DOMAIN message[a].calls

RowSound(id) ==
  /\ message[id].role = "system" => message[id].root = id
  /\ message[id].role # "assistant" => message[id].calls = <<>> /\ ~message[id].completion
  /\ message[id].completion => id \in completions
  /\ Alternates(id, message[id].parent)
  /\ message[id].role = "tool_call_result" => AnswersCall(id)

TableSound == \A id \in Ids : RowSound(id)

-----------------------------------------------------------------------------
(***************************************************************************)
(* What a request has made of its rows when it is at a place.              *)
(***************************************************************************)
\* The reply is an empty row.
Making == {"showing_reply", "inferring", "saving"}

\* The messages of the request have been finalized.
Settled == {"showing_turn", "looping", "exceeded", "ending"}

Stored(r, id) == id \in open[r] \/ message[id].final

\* The chain ends where the row of the request will be appended.
ReqSound(r) ==
  /\ req[r].parent # None =>
       /\ \/ message[req[r].parent].role = "tool_call_result"
          \/ message[req[r].parent].role # req[r].role
       /\ Stored(r, RootOf(req[r].parent))
  /\ pc[r] = "climbing" => req[r].parent # None /\ Newest(r) = req[r].parent
  /\ pc[r] = "chained" =>
       \/ req[r].parent # None /\ Newest(r) = req[r].parent
       \/ req[r].parent = None /\ (chain[r] = <<>> \/ message[Newest(r)].role = "system")

CreatedSound(r) ==
  /\ open[r] \subseteq Ids
  /\ created[r] # None => created[r] \in Ids
  /\ pc[r] \in {"idle", "posted", "climbing", "chained"} => created[r] = None
  /\ pc[r] \in Streaming \cup {"opening"} =>
       /\ created[r] # None
       /\ message[created[r]].role \in {"user", "tool_call_result"}
       /\ Stored(r, created[r])
       /\ reply[r] = None => Newest(r) = created[r]
  /\ pc[r] = "made" =>
       /\ created[r] # None
       /\ message[created[r]].role = "assistant"
       /\ message[created[r]].calls = <<>>
       /\ ~message[created[r]].completion
  /\ chain[r] # <<>> /\ message[chain[r][1]].role = "system" => Stored(r, chain[r][1])

\* The reply of the turn, and the replies of the turns before it.
HasReply(r, id) ==
  \/ id \in errs[r] \/ message[id].err
  \/ message[id].final /\ (message[id].completion <=> req[r].client \notin Anonymous)
  \/ id = reply[r] /\ pc[r] \in Making

ReplySound(r) ==
  /\ reply[r] # None =>
       /\ pc[r] \in Streaming
       /\ created[r] < reply[r]
       /\ message[reply[r]].role = "assistant"
       /\ \A i \in DOMAIN chain[r] :
            chain[r][i] > reply[r] => message[chain[r][i]].role = "tool_call_result"
  /\ pc[r] \in Making => message[reply[r]].calls = <<>> /\ ~message[reply[r]].completion
  /\ pc[r] = "saving" /\ req[r].client \notin Anonymous => reply[r] \in completions
  /\ created[r] # None =>
       \A i \in DOMAIN chain[r] :
         chain[r][i] > created[r] /\ message[chain[r][i]].role = "assistant"
           => HasReply(r, chain[r][i])

TurnSound(r) ==
  /\ reply[r] = None => step[r] = 0
  /\ pc[r] \in Replying => step[r] < req[r].limit
  /\ pc[r] = "showing_turn" => Uncalled(r) = {}
  /\ pc[r] = "looping" /\ reply[r] # None =>
       /\ step[r] <= req[r].limit
       /\ message[reply[r]].calls # <<>>
       /\ \A k \in DOMAIN message[reply[r]].calls : <<reply[r], k>> \in Answered(r)
  /\ pc[r] \in Settled /\ reply[r] # None =>
       /\ message[created[r]].final
       /\ message[chain[r][1]].role = "system" => message[chain[r][1]].final
  /\ pc[r] \in {"exceeded", "ending"} =>
       message[created[r]].final \/ (reply[r] = None /\ req[r].limit <= 0)

WritesSound(r) ==
  \A w \in writes[r] :
    w[1] \in Ids /\ w[2] # None => message[w[2]].role = "tool_call_result"

GeneratorSound(r) == /\ ReqSound(r)
                     /\ CreatedSound(r)
                     /\ ReplySound(r)
                     /\ TurnSound(r)
                     /\ WritesSound(r)

\* The rows that a request has made are its own to store.
MadeBy(r, id) ==
  created[r] # None /\ (id = created[r] \/ (id > created[r] /\ InChain(r, id)))

OneMaker ==
  \A q, r \in Requests, id \in Ids : MadeBy(q, id) /\ MadeBy(r, id) => q = r

Sound == TableSound /\ OneMaker /\ \A r \in Requests : GeneratorSound(r)
-----------------------------------------------------------------------------
(***************************************************************************)
(* What an action of r may do to the rows: what is stored stays, and only  *)
(* the reply that r is saving gets its calls and its completion.           *)
(***************************************************************************)
Saves(r, id) == pc[r] = "saving" /\ reply[r] = id

\* The columns that never change, and the two that only become true.
ColumnsKept(id) == /\ message'[id].role = message[id].role
                   /\ message'[id].root = message[id].root
                   /\ message'[id].answers = message[id].answers
                   /\ message[id].final => message'[id].final
                   /\ message[id].err => message'[id].err

\* The calls and the completion are stored once, by the maker of the reply.
ReplyKept(r, id) ==
  IF Saves(r, id)
  THEN message'[id].completion => id \in completions
  ELSE /\ message'[id].calls = message[id].calls
       /\ message'[id].completion <=> message[id].completion

LinkKept(r, id) == \/ message'[id].parent = message[id].parent
                   \/ \E w \in writes[r] : w[1] = id /\ message'[id].parent = w[2]

RowsKept(r) == /\ Ids \subseteq Ids'
               /\ completions \subseteq completions'
               /\ \A id \in Ids : ColumnsKept(id) /\ ReplyKept(r, id) /\ LinkKept(r, id)

\* A commit stores what the request has flushed, and nothing else.
LEMMA CommittedRow ==
  ASSUME Inv, NEW r \in Requests, NEW id \in Ids
  PROVE  LET row == Committed(r)[id] IN
           /\ row \in Row
           /\ row.role = message[id].role
           /\ row.root = message[id].root
           /\ row.answers = message[id].answers
           /\ row.calls = message[id].calls
           /\ row.final = message[id].final
           /\ row.completion = message[id].completion
           /\ row.err = (message[id].err \/ id \in errs[r])
           /\ \/ row.parent = message[id].parent
              \/ \E w \in writes[r] : w[1] = id /\ row.parent = w[2]
<1> DEFINE P == ParentIn(writes[r], id, message[id].parent)
           E == message[id].err \/ id \in errs[r]
<1>1. Committed(r)[id] = [message[id] EXCEPT !.parent = P, !.err = E]
  BY DEF Committed
<1>2. message[id] \in Row
  BY IdsAreNumbers DEF Inv, TypeOK
<1>3. Committed(r)[id] \in Row
  BY CommitFits DEF Inv, RequestFits
<1>4. P = message[id].parent \/ \E w \in writes[r] : w[1] = id /\ P = w[2]
  BY ParentInCases
<1> HIDE DEF P, E
<1>5. /\ Committed(r)[id].parent = P /\ Committed(r)[id].err = E
      /\ Committed(r)[id].role = message[id].role
      /\ Committed(r)[id].root = message[id].root
      /\ Committed(r)[id].answers = message[id].answers
      /\ Committed(r)[id].calls = message[id].calls
      /\ Committed(r)[id].final = message[id].final
      /\ Committed(r)[id].completion = message[id].completion
  BY <1>1, <1>2 DEF Row
<1> QED BY <1>3, <1>4, <1>5 DEF E

\* A row as a commit leaves it keeps what it has.
LEMMA CommittedKept ==
  ASSUME Inv, NEW r \in Requests, NEW id \in Ids, message'[id] = Committed(r)[id],
         ~Saves(r, id)
  PROVE  /\ ColumnsKept(id) /\ ReplyKept(r, id) /\ LinkKept(r, id)
         /\ id \in errs[r] => message'[id].err
<1> DEFINE row == Committed(r)[id]
<1>1. /\ row.role = message[id].role /\ row.root = message[id].root
      /\ row.answers = message[id].answers /\ row.calls = message[id].calls
      /\ row.final = message[id].final /\ row.completion = message[id].completion
      /\ row.err = (message[id].err \/ id \in errs[r])
      /\ \/ row.parent = message[id].parent
         \/ \E w \in writes[r] : w[1] = id /\ row.parent = w[2]
  BY CommittedRow
<1>2. message'[id] = row
  OBVIOUS
<1> HIDE DEF row
<1>3. ColumnsKept(id) /\ (id \in errs[r] => message'[id].err)
  BY <1>1, <1>2, Zenon DEF ColumnsKept
<1>4. ReplyKept(r, id)
  BY <1>1, <1>2, Zenon DEF ReplyKept
<1>5. LinkKept(r, id)
  BY <1>1, <1>2, Zenon DEF LinkKept
<1> QED BY <1>3, <1>4, <1>5

\* What is left of the session after a commit, and of the sessions of the others.
Emptied(r) == /\ writes'[r] = {} /\ errs'[r] = {}
              /\ \A q \in Requests \ {r} : writes'[q] = writes[q] /\ errs'[q] = errs[q]

\* An insert keeps the rows, stores the errors that waited and adds its row.
LEMMA AddKept ==
  ASSUME Inv, NEW r \in Requests, NEW row, Add(r, row), pc[r] # "saving",
         completions' = completions
  PROVE  /\ Ids' = Ids \cup {NewId} /\ NewId \notin Ids /\ NewId # None
         /\ \A id \in Ids : id < NewId
         /\ message'[NewId] = row
         /\ RowsKept(r)
         /\ Emptied(r)
         /\ \A id \in Ids : id \in errs[r] => message'[id].err
<1> DEFINE C == Committed(r)
<1>1. /\ Ids = 1..Len(message) /\ Len(message) \in Nat
      /\ \A id \in Ids : message[id] \in Row
  BY IdsAreNumbers DEF Inv, TypeOK
<1>2. C \in Seq(Row) /\ Len(C) = Len(message)
  BY CommitFits DEF Inv, RequestFits
<1>3. message' = Append(C, row)
  BY DEF Add
<1>4. \A id \in Ids : C[id] = Committed(r)[id]
  OBVIOUS
<1> HIDE DEF C
<1>5. /\ Ids' = 1..(Len(message) + 1)
      /\ message'[Len(message) + 1] = row
      /\ \A id \in Ids : message'[id] = C[id]
  BY <1>1, <1>2, <1>3 DEF Ids
<1>6. /\ Ids' = Ids \cup {NewId} /\ NewId \notin Ids /\ NewId # None
      /\ \A id \in Ids : id < NewId
      /\ message'[NewId] = row
  BY <1>1, <1>5 DEF NewId, None
<1>7. ASSUME NEW id \in Ids
      PROVE  /\ ColumnsKept(id) /\ ReplyKept(r, id) /\ LinkKept(r, id)
             /\ id \in errs[r] => message'[id].err
  <2>1. message'[id] = Committed(r)[id] /\ ~Saves(r, id)
    BY <1>4, <1>5 DEF Saves
  <2> QED BY <2>1, CommittedKept
<1>8. Emptied(r)
  BY DEF Add, SessionEmptied, Emptied, Inv, TypeOK, StoreTypeOK
<1> QED BY <1>6, <1>7, <1>8 DEF RowsKept

\* An update keeps the rows, stores the errors that waited and makes its row final.
LEMMA UpdateKept ==
  ASSUME Inv, NEW r \in Requests, NEW id \in Ids, NEW calls, NEW c \in BOOLEAN,
         Update(r, id, calls, c), completions' = completions,
         IF Saves(r, id) THEN c => id \in completions
         ELSE message[id].calls = calls /\ (message[id].completion <=> c),
         \A m \in Ids : Saves(r, m) => m = id
  PROVE  /\ Ids' = Ids
         /\ message'[id].final /\ message'[id].calls = calls
         /\ message'[id].completion <=> c
         /\ RowsKept(r)
         /\ Emptied(r)
         /\ \A m \in Ids : m \in errs[r] => message'[m].err
<1> DEFINE C == Committed(r)
<1>1. Ids = 1..Len(message) /\ Len(message) \in Nat
  BY IdsAreNumbers DEF Inv, TypeOK
<1>2. C \in Seq(Row) /\ Len(C) = Len(message)
  BY CommitFits DEF Inv, RequestFits
<1>3. message' = [C EXCEPT ![id].final = TRUE, ![id].calls = calls,
                           ![id].completion = c]
  BY DEF Update
<1>4. \A m \in Ids : C[m] = Committed(r)[m]
  OBVIOUS
<1>5. \A m \in Ids : C[m] \in Row
  BY CommittedRow
<1> HIDE DEF C
<1>6. DOMAIN C = Ids
  BY <1>1, <1>2
<1>7. Ids' = Ids
  BY <1>3, <1>6 DEF Ids
<1>8. \A m \in Ids \ {id} : message'[m] = C[m]
  BY <1>3, <1>6
<1>9. message'[id] = [C[id] EXCEPT !.final = TRUE, !.calls = calls, !.completion = c]
  BY <1>3, <1>6
<1>10. /\ message'[id].role = C[id].role
       /\ message'[id].root = C[id].root
       /\ message'[id].answers = C[id].answers
       /\ message'[id].parent = C[id].parent
       /\ message'[id].err = C[id].err
       /\ message'[id].final = TRUE
       /\ message'[id].calls = calls
       /\ message'[id].completion = c
  BY <1>5, <1>9 DEF Row
<1>11. ASSUME NEW m \in Ids
       PROVE  /\ ColumnsKept(m) /\ ReplyKept(r, m) /\ LinkKept(r, m)
              /\ m \in errs[r] => message'[m].err
  <2>1. CASE m # id
    <3>1. message'[m] = Committed(r)[m] /\ ~Saves(r, m)
      BY <1>4, <1>8, <2>1
    <3> QED BY <3>1, CommittedKept
  <2>2. CASE m = id
    <3>1. /\ message'[id].role = message[id].role
          /\ message'[id].root = message[id].root
          /\ message'[id].answers = message[id].answers
          /\ LinkKept(r, id)
      BY <1>4, <1>10, CommittedRow DEF LinkKept
    <3>2. message'[id].err = (message[id].err \/ id \in errs[r])
      BY <1>4, <1>10, CommittedRow
    <3>3. message'[id].final
      BY <1>10, Zenon
    <3>4. ColumnsKept(id) /\ (id \in errs[r] => message'[id].err)
      BY <3>1, <3>2, <3>3, Zenon DEF ColumnsKept
    <3>5. ReplyKept(r, id)
      BY <1>10, Zenon DEF ReplyKept
    <3> QED BY <2>2, <3>1, <3>4, <3>5
  <2> QED BY <2>1, <2>2
<1>12. Emptied(r)
  BY DEF Update, SessionEmptied, Emptied, Inv, TypeOK, StoreTypeOK
<1>13. message'[id].final /\ message'[id].calls = calls /\ (message'[id].completion <=> c)
  BY <1>10, Zenon
<1> QED BY <1>7, <1>11, <1>12, <1>13 DEF RowsKept

\* A step that leaves the table alone keeps the rows.
LEMMA IdleKept ==
  ASSUME Sound, NEW r \in Requests, UNCHANGED message, completions \subseteq completions'
  PROVE  RowsKept(r)
<1>1. \A id \in Ids : message[id].completion => id \in completions
  BY Zenon DEF Sound, TableSound, RowSound
<1> QED BY <1>1, Zenon DEF RowsKept, ColumnsKept, ReplyKept, LinkKept, Ids

-----------------------------------------------------------------------------
(***************************************************************************)
(* What stays true of the rows, and of the requests that do not step.      *)
(***************************************************************************)
\* The rows of a chain, the reply among them, are in the table.
LEMMA ChainRows ==
  ASSUME Inv, NEW r \in Requests
  PROVE  /\ \A i \in DOMAIN chain[r] : chain[r][i] \in Ids
         /\ \A id : InChain(r, id) => id \in Ids
         /\ reply[r] # None => InChain(r, reply[r]) /\ reply[r] \in Ids
         /\ pc[r] \in Replying => reply[r] # None
         /\ chain[r] # <<>> => Newest(r) \in Ids /\ 1 \in DOMAIN chain[r]
         /\ req[r].parent # None => req[r].parent \in Ids /\ RootOf(req[r].parent) \in Ids
<1>1. \A i \in DOMAIN chain[r] : chain[r][i] \in Ids
  BY ChainProperties DEF Mine
<1>2. \A id : InChain(r, id) => id \in Ids
  BY <1>1 DEF InChain
<1>3. /\ reply[r] # None => InChain(r, reply[r])
      /\ pc[r] \in Replying => reply[r] # None
  BY DEF Inv, RequestFits, PcFits
<1>4. chain[r] # <<>> => Newest(r) \in Ids /\ 1 \in DOMAIN chain[r]
  <2>1. SUFFICES ASSUME chain[r] # <<>> PROVE Newest(r) \in Ids /\ 1 \in DOMAIN chain[r]
    OBVIOUS
  <2>2. Mine(r, Newest(r)) /\ Len(chain[r]) \in DOMAIN chain[r]
    BY <2>1, ChainProperties
  <2>3. 1 \in DOMAIN chain[r]
    BY <2>2, ChainProperties
  <2> QED BY <2>2, <2>3 DEF Mine
<1>5. req[r].parent # None => req[r].parent \in Ids
  BY DEF Inv, RequestFits, ReqFits, Mine
<1>6. \A id \in Ids : message[id].root \in Ids
  <2>1. \A id \in Ids : message[id].root \in 1..id
    BY DEF Inv, TableFits, RowFits
  <2> QED BY <2>1, IdsAreNumbers DEF Inv, TypeOK
<1> QED BY <1>1, <1>2, <1>3, <1>4, <1>5, <1>6 DEF RootOf

\* The rows stay sound when a request that is sound itself commits.
LEMMA RowsStaySound ==
  ASSUME Inv, Sound, NEW r \in Requests, RowsKept(r)
  PROVE  \A id \in Ids : RowSound(id)'
<1>1. /\ Ids = 1..Len(message) /\ Len(message) \in Nat
      /\ \A id \in Ids : message[id] \in Row
  BY IdsAreNumbers DEF Inv, TypeOK
<1>2. \A id \in Ids :
        Saves(r, id) => message[id].role = "assistant" /\ message[id].calls = <<>>
  BY ChainRows DEF Saves, Sound, GeneratorSound, ReplySound, Making, Replying
<1> SUFFICES ASSUME NEW id \in Ids PROVE RowSound(id)'
  OBVIOUS
<1>3. RowSound(id) /\ ColumnsKept(id) /\ ReplyKept(r, id) /\ LinkKept(r, id)
  BY DEF Sound, TableSound, RowsKept
<1>4. (message[id].role = "system" => message[id].root = id)'
  BY <1>3 DEF RowSound, ColumnsKept
<1>5. (message[id].role # "assistant"
         => message[id].calls = <<>> /\ ~message[id].completion)'
  BY <1>2, <1>3, Zenon DEF RowSound, ColumnsKept, ReplyKept
<1>6. (message[id].completion => id \in completions)'
  BY <1>3, Zenon DEF RowSound, ReplyKept, RowsKept
<1>7. Alternates(id, message[id].parent)'
  <2> DEFINE p == message'[id].parent
  <2>1. SUFFICES ASSUME p # None
                 PROVE  \/ message'[p].role = "tool_call_result"
                        \/ message'[p].role # message'[id].role
    BY DEF Alternates
  <2>2. CASE p = message[id].parent
    <3>1. p \in Ids
      BY <1>1, <2>1, <2>2 DEF Inv, TableFits, RowFits, ParentFits
    <3> QED BY <1>3, <2>1, <2>2, <3>1 DEF RowSound, Alternates, ColumnsKept, RowsKept
  <2>3. ASSUME NEW w \in writes[r], w[1] = id, p = w[2]
        PROVE  message'[p].role = "tool_call_result"
    <3>1. p \in Ids
      BY <1>1, <2>1, <2>3 DEF Inv, RequestFits, WritesFit, ParentFits
    <3>2. message[p].role = "tool_call_result"
      BY <2>1, <2>3 DEF Sound, GeneratorSound, WritesSound
    <3> QED BY <3>1, <3>2 DEF RowsKept, ColumnsKept
  <2> QED BY <1>3, <2>2, <2>3 DEF LinkKept
<1>8. (message[id].role = "tool_call_result" => AnswersCall(id))'
  <2>1. SUFFICES ASSUME message'[id].role = "tool_call_result" PROVE AnswersCall(id)'
    OBVIOUS
  <2> DEFINE a == message[id].answers[1]
             k == message[id].answers[2]
  <2>2. AnswersCall(id) /\ message'[id].answers = message[id].answers
    BY <1>3, <2>1 DEF RowSound, ColumnsKept
  <2>3. a \in 1..(id - 1) /\ k \in DOMAIN message[a].calls /\ a \in Ids
    BY <1>1, <2>2 DEF AnswersCall
  <2>4. message[a].calls # <<>>
    BY <2>3
  <2>5. message'[a].calls = message[a].calls
    BY <1>2, <2>3, <2>4 DEF RowsKept, ReplyKept
  <2>6. message'[a].root = message'[id].root
    BY <1>3, <2>2, <2>3 DEF RowsKept, ColumnsKept, AnswersCall
  <2> QED BY <2>2, <2>3, <2>5, <2>6 DEF AnswersCall
<1> QED BY <1>4, <1>5, <1>6, <1>7, <1>8 DEF RowSound

-----------------------------------------------------------------------------
(***************************************************************************)
(* What a request that has made rows can count on while a step is taken.   *)
(***************************************************************************)
KeptFor(q) ==
  /\ Ids \subseteq Ids'
  /\ completions \subseteq completions'
  /\ \A id \in Ids : ColumnsKept(id)
  /\ \A id \in Ids : MadeBy(q, id) =>
       /\ message'[id].calls = message[id].calls
       /\ message'[id].completion <=> message[id].completion

StoredKept(q) == \A id \in Ids : Stored(q, id) => Stored(q, id)'

ErrsKept(q) == \A id \in Ids : id \in errs[q] => id \in errs'[q] \/ message'[id].err

\* The reply of a request is one of the rows it has made.
LEMMA ReplyIsMade ==
  ASSUME Inv, Sound, NEW r \in Requests, reply[r] # None
  PROVE  MadeBy(r, reply[r]) /\ reply[r] \in Ids /\ created[r] \in Ids
<1>1. InChain(r, reply[r]) /\ reply[r] \in Ids
  BY ChainRows
<1>2. created[r] < reply[r] /\ created[r] # None /\ created[r] \in Ids
  BY DEF Sound, GeneratorSound, ReplySound, CreatedSound
<1>3. created[r] \in Nat /\ reply[r] \in Nat
  BY DEF Inv, TypeOK, MsgRef
<1> QED BY <1>1, <1>2, <1>3 DEF MadeBy

\* Only the maker of a reply stores it: the others keep what they have made.
LEMMA KeptForOthers ==
  ASSUME Inv, Sound, NEW r \in Requests, RowsKept(r), NEW q \in Requests,
         q # r \/ pc[r] # "saving"
  PROVE  KeptFor(q)
<1>1. ASSUME NEW id \in Ids, MadeBy(q, id) PROVE ~Saves(r, id)
  <2>1. SUFFICES ASSUME Saves(r, id) PROVE FALSE
    OBVIOUS
  <2>2. reply[r] # None /\ reply[r] = id
    BY <2>1, ChainRows DEF Saves, Replying
  <2>3. MadeBy(r, id)
    BY <2>2, ReplyIsMade
  <2> QED BY <1>1, <2>1, <2>3 DEF Sound, OneMaker, Saves
<1> QED BY <1>1, Zenon DEF KeptFor, RowsKept, ReplyKept

\* A request that commits nothing keeps what it and the others have made.
LEMMA KeptForAll ==
  ASSUME Inv, Sound, NEW r \in Requests, UNCHANGED message, pc[r] # "saving",
         completions \subseteq completions'
  PROVE  RowsKept(r) /\ \A q \in Requests : KeptFor(q)
BY IdleKept, KeptForOthers

\* A row that is stored in the session or final stays so.
LEMMA SessionKept ==
  ASSUME NEW q \in Requests, KeptFor(q), open[q] \subseteq open'[q]
  PROVE  StoredKept(q)
BY DEF KeptFor, ColumnsKept, StoredKept, Stored

\* What validation has read, and where the chain ends, stays sound.
LEMMA ReqStays ==
  ASSUME Inv, Sound, NEW q \in Requests, KeptFor(q), StoredKept(q), req'[q] = req[q],
         pc'[q] \in {"climbing", "chained"} => pc'[q] = pc[q] /\ chain'[q] = chain[q]
  PROVE  ReqSound(q)'
<1>1. ReqSound(q)
  BY DEF Sound, GeneratorSound
<1>2. req[q].parent # None =>
        /\ \/ message'[req[q].parent].role = "tool_call_result"
           \/ message'[req[q].parent].role # req[q].role
        /\ Stored(q, RootOf(req[q].parent))'
  <2>1. SUFFICES ASSUME req[q].parent # None
                 PROVE  /\ \/ message'[req[q].parent].role = "tool_call_result"
                           \/ message'[req[q].parent].role # req[q].role
                        /\ Stored(q, RootOf(req[q].parent))'
    OBVIOUS
  <2>2. req[q].parent \in Ids /\ RootOf(req[q].parent) \in Ids
    BY <2>1, ChainRows
  <2>3. RootOf(req[q].parent)' = RootOf(req[q].parent)
    BY <2>2 DEF RootOf, KeptFor, ColumnsKept
  <2>4. Stored(q, RootOf(req[q].parent))'
    BY <1>1, <2>1, <2>2, <2>3 DEF ReqSound, StoredKept, Stored
  <2> QED BY <1>1, <2>1, <2>2, <2>4 DEF ReqSound, KeptFor, ColumnsKept
<1>3. pc'[q] = "climbing" => req[q].parent # None /\ Newest(q)' = req[q].parent
  BY <1>1 DEF ReqSound, Newest
<1>4. pc'[q] = "chained" =>
       \/ req[q].parent # None /\ Newest(q)' = req[q].parent
       \/ req[q].parent = None /\ (chain'[q] = <<>> \/ message'[Newest(q)'].role = "system")
  <2>1. SUFFICES ASSUME pc'[q] = "chained"
        PROVE \/ req[q].parent # None /\ Newest(q)' = req[q].parent
              \/ req[q].parent = None
                 /\ (chain'[q] = <<>> \/ message'[Newest(q)'].role = "system")
    OBVIOUS
  <2>2. Newest(q)' = Newest(q) /\ chain'[q] = chain[q] /\ pc[q] = "chained"
    BY <2>1 DEF Newest
  <2>3. chain[q] # <<>> => message'[Newest(q)].role = message[Newest(q)].role
    BY ChainRows DEF KeptFor, ColumnsKept
  <2> QED BY <1>1, <2>2, <2>3 DEF ReqSound
<1> QED BY <1>2, <1>3, <1>4 DEF ReqSound

\* The row of the request, and the head of its chain, stay sound.
LEMMA CreatedStays ==
  ASSUME Inv, Sound, NEW q \in Requests, KeptFor(q), StoredKept(q),
         open'[q] \subseteq Ids', created'[q] = created[q],
         chain'[q] = chain[q] \/ (chain[q] # <<>> /\ chain'[q] = Append(chain[q], NewId)
                                  /\ reply'[q] # None),
         reply'[q] = reply[q] \/ reply'[q] # None,
         \/ pc'[q] = pc[q]
         \/ pc[q] \in Streaming \cup {"opening"} /\ pc'[q] \in Streaming
  PROVE  CreatedSound(q)'
<1>1. CreatedSound(q)
  BY DEF Sound, GeneratorSound
<1>2. created[q] # None => created[q] \in Ids /\ created[q] \in Ids'
  BY <1>1 DEF CreatedSound, KeptFor
<1>3. pc'[q] \in {"idle", "posted", "climbing", "chained"} => created[q] = None
  BY <1>1 DEF CreatedSound, Streaming
<1>4. pc'[q] \in Streaming \cup {"opening"} =>
        /\ created[q] # None
        /\ message'[created[q]].role \in {"user", "tool_call_result"}
        /\ Stored(q, created[q])'
        /\ reply'[q] = None => Newest(q)' = created[q]
  <2>1. SUFFICES ASSUME pc'[q] \in Streaming \cup {"opening"}
        PROVE  /\ created[q] # None
               /\ message'[created[q]].role \in {"user", "tool_call_result"}
               /\ Stored(q, created[q])'
               /\ reply'[q] = None => Newest(q)' = created[q]
    OBVIOUS
  <2>2. /\ created[q] # None /\ created[q] \in Ids
        /\ message[created[q]].role \in {"user", "tool_call_result"}
        /\ Stored(q, created[q])
        /\ reply[q] = None => Newest(q) = created[q]
    BY <1>1, <2>1, Zenon DEF CreatedSound
  <2>3. message'[created[q]].role \in {"user", "tool_call_result"}
    BY <2>2 DEF KeptFor, ColumnsKept
  <2>4. Stored(q, created[q])'
    BY <2>2 DEF StoredKept, Stored
  <2>5. reply'[q] = None => Newest(q)' = created[q]
    BY <2>2 DEF Newest
  <2> QED BY <2>2, <2>3, <2>4, <2>5
<1>5. pc'[q] = "made" =>
        /\ created[q] # None
        /\ message'[created[q]].role = "assistant"
        /\ message'[created[q]].calls = <<>>
        /\ ~message'[created[q]].completion
  <2>1. SUFFICES ASSUME pc'[q] = "made"
        PROVE  /\ created[q] # None
               /\ message'[created[q]].role = "assistant"
               /\ message'[created[q]].calls = <<>>
               /\ ~message'[created[q]].completion
    OBVIOUS
  <2>2. pc[q] = "made" /\ created[q] # None /\ created[q] \in Ids
    BY <1>1, <2>1 DEF CreatedSound, Streaming
  <2>3. MadeBy(q, created[q])
    BY <2>2 DEF MadeBy
  <2> QED BY <1>1, <2>2, <2>3, Zenon DEF CreatedSound, KeptFor, ColumnsKept
<1>6. (chain[q] # <<>> /\ message[chain[q][1]].role = "system"
         => Stored(q, chain[q][1]))'
  <2>1. SUFFICES ASSUME chain'[q] # <<>>, message'[chain'[q][1]].role = "system"
                 PROVE  Stored(q, chain[q][1])'
    OBVIOUS
  <2>2. chain[q] # <<>> /\ chain[q] \in Seq(MsgId)
    BY <2>1, ChainProperties
  <2>3. chain'[q][1] = chain[q][1]
    BY <2>2
  <2>4. chain[q][1] \in Ids
    BY <2>2, ChainRows
  <2>5. message[chain[q][1]].role = "system"
    BY <2>1, <2>3, <2>4 DEF KeptFor, ColumnsKept
  <2> QED BY <1>1, <2>2, <2>3, <2>4, <2>5 DEF CreatedSound, StoredKept, Stored
<1> QED BY <1>2, <1>3, <1>4, <1>5, <1>6 DEF CreatedSound

\* A reply that a request has is still had after the step.
LEMMA HasReplyStays ==
  ASSUME Inv, Sound, NEW q \in Requests, KeptFor(q), ErrsKept(q), NEW id \in Ids,
         req'[q] = req[q], MadeBy(q, id), HasReply(q, id),
         id = reply[q] /\ pc[q] \in Making => reply'[q] = reply[q] /\ pc'[q] \in Making
  PROVE  HasReply(q, id)'
<1>1. CASE id \in errs[q] \/ message[id].err
  BY <1>1 DEF KeptFor, ColumnsKept, ErrsKept, HasReply
<1>2. CASE message[id].final /\ (message[id].completion <=> req[q].client \notin Anonymous)
  BY <1>2, Zenon DEF KeptFor, ColumnsKept, HasReply
<1>3. CASE id = reply[q] /\ pc[q] \in Making
  BY <1>3 DEF HasReply
<1> QED BY <1>1, <1>2, <1>3 DEF HasReply

\* The replies of a request stay sound while it makes no new row.
LEMMA ReplyStays ==
  ASSUME Inv, Sound, NEW q \in Requests, KeptFor(q), ErrsKept(q), req'[q] = req[q],
         created'[q] = created[q], chain'[q] = chain[q], reply'[q] = reply[q],
         pc[q] \in Streaming => pc'[q] \in Streaming,
         pc[q] \in Making => pc'[q] \in Making,
         pc'[q] \in Making => pc[q] \in Making,
         pc'[q] = "saving" =>
           \/ pc[q] = "saving"
           \/ req[q].client \notin Anonymous => reply[q] \in completions'
  PROVE  ReplySound(q)'
<1>1. ReplySound(q) /\ CreatedSound(q)
  BY DEF Sound, GeneratorSound
<1>2. reply[q] # None =>
        /\ pc'[q] \in Streaming
        /\ created[q] < reply[q]
        /\ message'[reply[q]].role = "assistant"
        /\ \A i \in DOMAIN chain[q] :
             chain[q][i] > reply[q] => message'[chain[q][i]].role = "tool_call_result"
  <2>1. SUFFICES ASSUME reply[q] # None
        PROVE  /\ pc'[q] \in Streaming
               /\ created[q] < reply[q]
               /\ message'[reply[q]].role = "assistant"
               /\ \A i \in DOMAIN chain[q] :
                    chain[q][i] > reply[q] => message'[chain[q][i]].role = "tool_call_result"
    OBVIOUS
  <2>2. reply[q] \in Ids /\ \A i \in DOMAIN chain[q] : chain[q][i] \in Ids
    BY <2>1, ChainRows
  <2>3. \A id \in Ids : message'[id].role = message[id].role
    BY DEF KeptFor, ColumnsKept
  <2> QED BY <1>1, <2>1, <2>2, <2>3 DEF ReplySound
<1>3. pc'[q] \in Making => message'[reply[q]].calls = <<>> /\ ~message'[reply[q]].completion
  <2>1. SUFFICES ASSUME pc'[q] \in Making
                 PROVE  message'[reply[q]].calls = <<>> /\ ~message'[reply[q]].completion
    OBVIOUS
  <2>2. pc[q] \in Making /\ reply[q] # None
    BY <2>1, ChainRows DEF Making, Replying
  <2>3. MadeBy(q, reply[q]) /\ reply[q] \in Ids
    BY <2>2, ReplyIsMade
  <2> QED BY <1>1, <2>2, <2>3, Zenon DEF ReplySound, KeptFor
<1>4. pc'[q] = "saving" /\ req[q].client \notin Anonymous => reply[q] \in completions'
  BY <1>1 DEF ReplySound, KeptFor
<1>5. ASSUME created[q] # None, NEW i \in DOMAIN chain[q], chain[q][i] > created[q],
             message'[chain[q][i]].role = "assistant"
      PROVE  HasReply(q, chain[q][i])'
  <2>1. chain[q][i] \in Ids /\ InChain(q, chain[q][i])
    BY ChainRows DEF InChain
  <2>2. MadeBy(q, chain[q][i]) /\ message[chain[q][i]].role = "assistant"
    BY <1>5, <2>1 DEF MadeBy, KeptFor, ColumnsKept
  <2>3. HasReply(q, chain[q][i])
    BY <1>1, <1>5, <2>2 DEF ReplySound
  <2> QED BY <2>1, <2>2, <2>3, HasReplyStays
<1> QED BY <1>2, <1>3, <1>4, <1>5 DEF ReplySound, HasReply

\* The calls of a chain that are answered are the same after the step.
LEMMA AnsweredStays ==
  ASSUME Inv, Sound, NEW q \in Requests, KeptFor(q), chain'[q] = chain[q]
  PROVE  Answered(q)' = Answered(q)
<1>1. \A i \in DOMAIN chain[q] :
        /\ message'[chain[q][i]].role = message[chain[q][i]].role
        /\ message'[chain[q][i]].answers = message[chain[q][i]].answers
  BY ChainRows DEF KeptFor, ColumnsKept
<1> QED BY <1>1 DEF Answered

\* The calls of the reply, and those that are not answered, are the same after it.
LEMMA UncalledStays ==
  ASSUME Inv, Sound, NEW q \in Requests, KeptFor(q), chain'[q] = chain[q],
         reply'[q] = reply[q], reply[q] # None
  PROVE  /\ message'[reply[q]].calls = message[reply[q]].calls
         /\ Uncalled(q)' = Uncalled(q)
<1>1. message'[reply[q]].calls = message[reply[q]].calls
  BY ReplyIsMade DEF KeptFor
<1> QED BY <1>1, AnsweredStays DEF Uncalled

\* What the place of the generator says of the turns stays sound.
LEMMA TurnStays ==
  ASSUME Inv, Sound, NEW q \in Requests, KeptFor(q), req'[q] = req[q],
         created'[q] = created[q], chain'[q] = chain[q], reply'[q] = reply[q],
         pc'[q] = pc[q], step'[q] = step[q]
  PROVE  TurnSound(q)'
<1>1. TurnSound(q) /\ CreatedSound(q)
  BY DEF Sound, GeneratorSound
<1>2. (reply[q] = None => step[q] = 0)' /\ (pc[q] \in Replying => step[q] < req[q].limit)'
  BY <1>1 DEF TurnSound
<1>3. (pc[q] = "showing_turn" => Uncalled(q) = {})'
  BY <1>1, ChainRows, UncalledStays DEF TurnSound, Replying
<1>4. (pc[q] = "looping" /\ reply[q] # None =>
         /\ step[q] <= req[q].limit
         /\ message[reply[q]].calls # <<>>
         /\ \A k \in DOMAIN message[reply[q]].calls : <<reply[q], k>> \in Answered(q))'
  BY <1>1, UncalledStays, AnsweredStays DEF TurnSound
<1>5. (pc[q] \in Settled /\ reply[q] # None =>
         /\ message[created[q]].final
         /\ message[chain[q][1]].role = "system" => message[chain[q][1]].final)'
  <2>1. SUFFICES ASSUME pc[q] \in Settled, reply[q] # None
        PROVE  /\ message'[created[q]].final
               /\ message'[chain[q][1]].role = "system" => message'[chain[q][1]].final
    OBVIOUS
  <2>2. created[q] \in Ids /\ chain[q][1] \in Ids
    BY <2>1, ReplyIsMade, ChainRows DEF InChain
  <2> QED BY <1>1, <2>1, <2>2, Zenon DEF TurnSound, KeptFor, ColumnsKept
<1>6. (pc[q] \in {"exceeded", "ending"} =>
         message[created[q]].final \/ (reply[q] = None /\ req[q].limit <= 0))'
  <2>1. SUFFICES ASSUME pc[q] \in {"exceeded", "ending"}
        PROVE  message'[created[q]].final \/ (reply[q] = None /\ req[q].limit <= 0)
    OBVIOUS
  <2>2. created[q] \in Ids
    BY <1>1, <2>1 DEF CreatedSound, Streaming
  <2>3. message[created[q]].final \/ (reply[q] = None /\ req[q].limit <= 0)
    BY <1>1, <2>1 DEF TurnSound
  <2> QED BY <2>2, <2>3 DEF KeptFor, ColumnsKept
<1> QED BY <1>2, <1>3, <1>4, <1>5, <1>6 DEF TurnSound

\* A row that a relink names as a parent keeps its role.
LEMMA WritesStay ==
  ASSUME Inv, Sound, NEW q \in Requests, KeptFor(q), writes'[q] = writes[q] \/ writes'[q] = {}
  PROVE  WritesSound(q)'
<1>1. SUFFICES ASSUME NEW w \in writes[q]
               PROVE  w[1] \in Ids' /\ w[2] # None => message'[w[2]].role = "tool_call_result"
  BY DEF WritesSound
<1>2. /\ w[1] \in Ids
      /\ w[2] # None => w[2] \in Ids /\ message[w[2]].role = "tool_call_result"
  <2>1. w[1] \in Ids /\ ParentFits(w[1], w[2])
    BY DEF Inv, RequestFits, WritesFit
  <2>2. w[2] # None => w[2] \in Ids
    BY <2>1, IdsAreNumbers DEF Inv, TypeOK, ParentFits
  <2> QED BY <2>1, <2>2 DEF Sound, GeneratorSound, WritesSound
<1> QED BY <1>2 DEF KeptFor, ColumnsKept

\* A step of r leaves the objects of the other requests alone.
OthersAlone(r) ==
  \A q \in Requests \ {r} :
    /\ pc'[q] = pc[q] /\ req'[q] = req[q] /\ chain'[q] = chain[q]
    /\ created'[q] = created[q] /\ open'[q] = open[q] /\ reply'[q] = reply[q]
    /\ step'[q] = step[q] /\ writes'[q] = writes[q] /\ errs'[q] = errs[q]

\* A request that does not step stays sound, whatever row another one commits.
LEMMA OthersSound ==
  ASSUME Inv, Sound, NEW r \in Requests, RowsKept(r), OthersAlone(r),
         NEW q \in Requests \ {r}
  PROVE  GeneratorSound(q)'
<1>1. /\ pc'[q] = pc[q] /\ req'[q] = req[q] /\ chain'[q] = chain[q]
      /\ created'[q] = created[q] /\ open'[q] = open[q] /\ reply'[q] = reply[q]
      /\ step'[q] = step[q] /\ writes'[q] = writes[q] /\ errs'[q] = errs[q]
  BY DEF OthersAlone
<1>2. KeptFor(q)
  BY KeptForOthers
<1>3. StoredKept(q) /\ ErrsKept(q)
  BY <1>1, <1>2, SessionKept DEF ErrsKept
<1>4. open'[q] \subseteq Ids'
  BY <1>1 DEF Sound, GeneratorSound, CreatedSound, RowsKept
<1>5. ReqSound(q)'
  BY <1>1, <1>2, <1>3, ReqStays
<1>6. CreatedSound(q)'
  BY <1>1, <1>2, <1>3, <1>4, CreatedStays
<1>7. ReplySound(q)'
  BY <1>1, <1>2, <1>3, ReplyStays
<1>8. TurnSound(q)'
  BY <1>1, <1>2, TurnStays
<1>9. WritesSound(q)'
  BY <1>1, <1>2, WritesStay
<1> QED BY <1>5, <1>6, <1>7, <1>8, <1>9 DEF GeneratorSound

\* The invariant from its parts, for a step that makes no row.
LEMMA SoundWithoutRow ==
  ASSUME Inv, Sound, NEW r \in Requests, RowsKept(r), Ids' = Ids, OthersAlone(r),
         GeneratorSound(r)', \A id \in Ids : MadeBy(r, id)' => MadeBy(r, id)
  PROVE  Sound'
<1>1. TableSound'
  BY RowsStaySound DEF TableSound
<1>2. \A q \in Requests : GeneratorSound(q)'
  BY OthersSound
<1>3. ASSUME NEW q \in Requests, NEW id \in Ids, MadeBy(q, id)' PROVE MadeBy(q, id)
  <2>1. q # r => chain'[q] = chain[q] /\ created'[q] = created[q]
    BY DEF OthersAlone
  <2> QED BY <1>3, <2>1 DEF MadeBy, InChain
<1>4. OneMaker'
  BY <1>3 DEF Sound, OneMaker
<1> QED BY <1>1, <1>2, <1>4 DEF Sound

\* The invariant from its parts, for a step that makes one row.
LEMMA SoundWithRow ==
  ASSUME Inv, Sound, NEW r \in Requests, RowsKept(r), NEW n, n \notin Ids,
         Ids' = Ids \cup {n}, OthersAlone(r), GeneratorSound(r)', RowSound(n)',
         \A id \in Ids : MadeBy(r, id)' => MadeBy(r, id)
  PROVE  Sound'
<1>1. TableSound'
  BY RowsStaySound DEF TableSound
<1>2. \A q \in Requests : GeneratorSound(q)'
  BY OthersSound
<1>3. ASSUME NEW q \in Requests, NEW id \in Ids, MadeBy(q, id)' PROVE MadeBy(q, id)
  <2>1. q # r => chain'[q] = chain[q] /\ created'[q] = created[q]
    BY DEF OthersAlone
  <2> QED BY <1>3, <2>1 DEF MadeBy, InChain
<1>4. ASSUME NEW q \in Requests, MadeBy(q, n)' PROVE q = r
  <2>1. SUFFICES ASSUME q # r PROVE FALSE
    OBVIOUS
  <2>2. chain'[q] = chain[q] /\ created'[q] = created[q]
    BY <2>1 DEF OthersAlone
  <2>3. created[q] # None /\ (n = created[q] \/ InChain(q, n))
    BY <1>4, <2>2 DEF MadeBy, InChain
  <2> QED BY <2>3, ChainRows DEF Sound, GeneratorSound, CreatedSound
<1>5. OneMaker'
  BY <1>3, <1>4 DEF Sound, OneMaker
<1> QED BY <1>1, <1>2, <1>5 DEF Sound

-----------------------------------------------------------------------------
(***************************************************************************)
(* The steps that end a request.                                           *)
(***************************************************************************)
\* A request whose objects are gone has nothing to keep sound.
LEMMA ForgottenSound ==
  ASSUME Inv, NEW r \in Requests, Forget(r), writes'[r] = {},
         pc'[r] \in {"refused", "failed", "done"}
  PROVE  GeneratorSound(r)' /\ \A id \in Ids : ~MadeBy(r, id)'
<1>1. /\ req'[r] = NoRequest /\ chain'[r] = <<>> /\ created'[r] = None
      /\ open'[r] = {} /\ reply'[r] = None /\ step'[r] = 0
  BY DEF Inv, TypeOK, Forget
<1>2. /\ pc'[r] \notin Streaming \cup {"opening", "made", "climbing", "chained"}
      /\ pc'[r] \notin Making /\ pc'[r] \notin Replying /\ pc'[r] \notin Settled
  BY DEF Streaming, Making, Replying, Settled
<1>3. ReqSound(r)'
  BY <1>1, <1>2 DEF ReqSound, NoRequest
<1>4. CreatedSound(r)'
  BY <1>1, <1>2 DEF CreatedSound
<1>5. ReplySound(r)'
  BY <1>1, <1>2 DEF ReplySound, Making
<1>6. TurnSound(r)'
  BY <1>1, <1>2 DEF TurnSound, Settled, Replying
<1>7. WritesSound(r)'
  BY DEF WritesSound
<1> QED BY <1>1, <1>3, <1>4, <1>5, <1>6, <1>7 DEF GeneratorSound, MadeBy

\* A response that ends by a return or an exception leaves the rows as they are.
LEMMA LeaveSound ==
  ASSUME Inv, Sound, NEW r \in Requests, NEW how \in {"refused", "failed", "done"},
         Leave(r, how)
  PROVE  Sound'
<1>1. UNCHANGED <<message, completions>> /\ Ids' = Ids
  BY DEF Leave, Rollback, Ids
<1>2. RowsKept(r)
  BY <1>1, IdleKept
<1>3. OthersAlone(r)
  BY DEF Inv, TypeOK, StoreTypeOK, Leave, Goto, Rollback, SessionEmptied, Forget,
         OthersAlone
<1>4. GeneratorSound(r)' /\ \A id \in Ids : ~MadeBy(r, id)'
  <2>1. pc'[r] = how /\ writes'[r] = {}
    BY DEF Inv, TypeOK, StoreTypeOK, Leave, Goto, Rollback, SessionEmptied
  <2> QED BY <2>1, ForgottenSound DEF Leave
<1> QED BY <1>1, <1>2, <1>3, <1>4, SoundWithoutRow

\* Every way to end a request but finalizing an assistant message keeps the rows.
LEMMA EndingSound ==
  ASSUME Inv, Sound, NEW r \in Requests,
         \/ Refuse(r) \/ CreateFails(r) \/ InferenceFails(r)
         \/ End(r) \/ Abort(r) \/ Deadlock(r)
  PROVE  Sound'
BY LeaveSound DEF Refuse, CreateFails, InferenceFails, End, Abort, Deadlock

\* The message a client wrote itself is final, and has no calls and no completion.
LEMMA FinalizeAssistantKept ==
  ASSUME Inv, Sound, NEW r \in Requests, FinalizeAssistant(r)
  PROVE  Ids' = Ids /\ RowsKept(r) /\ Emptied(r)
<1>1. /\ created[r] \in Ids /\ pc[r] = "made" /\ message[created[r]].calls = <<>>
      /\ message[created[r]].completion <=> FALSE
  BY Zenon DEF FinalizeAssistant, Sound, GeneratorSound, CreatedSound
<1>2. /\ Update(r, created[r], <<>>, FALSE) /\ completions' = completions
      /\ FALSE \in BOOLEAN
  BY DEF FinalizeAssistant
<1>3. \A id : ~Saves(r, id)
  BY <1>1 DEF Saves
<1> QED BY <1>1, <1>2, <1>3, UpdateKept

\* A request that has stored its assistant message has nothing more to keep.
LEMMA FinalizeAssistantSound ==
  ASSUME Inv, Sound, NEW r \in Requests, FinalizeAssistant(r)
  PROVE  Sound'
<1>2. Ids' = Ids /\ RowsKept(r) /\ Emptied(r)
  BY FinalizeAssistantKept
<1>3. OthersAlone(r)
  BY <1>2 DEF Inv, TypeOK, FinalizeAssistant, Goto, Forget, Emptied, OthersAlone
<1>4. GeneratorSound(r)' /\ \A id \in Ids : ~MadeBy(r, id)'
  <2>1. pc'[r] = "done" /\ writes'[r] = {} /\ Forget(r)
    BY <1>2 DEF Inv, TypeOK, FinalizeAssistant, Goto, Emptied
  <2> QED BY <2>1, ForgottenSound
<1> QED BY <1>2, <1>3, <1>4, SoundWithoutRow

-----------------------------------------------------------------------------
(***************************************************************************)
(* The steps that only move on.                                            *)
(***************************************************************************)
\* A step of the generator that changes no object but the place and the count.
LEMMA MoveSound ==
  ASSUME Inv, Sound, NEW r \in Requests, NEW where \in Streaming \ {"saving"},
         Goto(r, where), NEW n,
         step' = step \/ step' = [step EXCEPT ![r] = n],
         UNCHANGED <<storeVars, req, parents, chain, created, open, reply, heard>>,
         pc[r] \in Streaming \cup {"opening"},
         pc[r] \in Making <=> where \in Making,
         TurnSound(r)'
  PROVE  Sound'
<1>1. /\ UNCHANGED <<message, completions, writes, errs>> /\ Ids' = Ids
      /\ UNCHANGED <<req, chain, created, open, reply>>
  BY DEF storeVars, Ids
<1>2. RowsKept(r)
  BY <1>1, IdleKept
<1>3. pc'[r] = where /\ OthersAlone(r)
  BY <1>1 DEF Inv, TypeOK, Goto, OthersAlone
<1>4. KeptFor(r)
  BY <1>1, Zenon DEF KeptFor, ColumnsKept
<1>5. StoredKept(r) /\ ErrsKept(r)
  BY <1>1 DEF StoredKept, Stored, ErrsKept
<1>6. ReqSound(r)'
  <2>1. where \notin {"climbing", "chained"}
    BY DEF Streaming
  <2> QED BY <1>1, <1>3, <1>4, <1>5, <2>1, ReqStays
<1>7. CreatedSound(r)'
  <2>1. open'[r] \subseteq Ids'
    BY <1>1 DEF Sound, GeneratorSound, CreatedSound
  <2> QED BY <1>1, <1>3, <1>4, <1>5, <2>1, CreatedStays
<1>8. ReplySound(r)'
  BY <1>1, <1>3, <1>4, <1>5, ReplyStays
<1>9. WritesSound(r)'
  BY <1>1, <1>4, WritesStay
<1>10. \A id \in Ids : MadeBy(r, id)' => MadeBy(r, id)
  BY <1>1 DEF MadeBy, InChain
<1> QED BY <1>1, <1>2, <1>3, <1>6, <1>7, <1>8, <1>9, <1>10, SoundWithoutRow
        DEF GeneratorSound

\* Where the generator goes when no object changes but the place and the count.
LEMMA MovesSound ==
  ASSUME Inv, Sound, NEW r \in Requests,
         \/ Start(r) \/ StopLooping(r) \/ ShowPending(r) \/ ShowReply(r)
         \/ ShowTurn(r) \/ FinalizeNothing(r) \/ ExceedLimit(r)
  PROVE  Sound'
<1> DEFINE Same == UNCHANGED <<storeVars, req, parents, chain, created, open, reply, heard>>
<1>1. TurnSound(r) /\ CreatedSound(r) /\ ReplySound(r)
  BY DEF Sound, GeneratorSound
<1>2. /\ step[r] \in Nat /\ req[r].limit \in Int
      /\ pc[r] \in Replying => reply[r] # None
  BY ChainRows DEF Inv, TypeOK, Request
<1>3. CASE Start(r)
  <2>1. /\ pc[r] = "opening" /\ Same /\ step' = step
        /\ Goto(r, "looping") \/ Goto(r, "showing_pending")
    BY <1>3 DEF Start, local
  <2>2. reply[r] = None /\ reply'[r] = None /\ step'[r] = 0
    BY <1>1, <2>1 DEF ReplySound, TurnSound, Streaming
  <2>3. pc'[r] \in {"looping", "showing_pending"}
    BY <2>1 DEF Goto, Inv, TypeOK
  <2>4. TurnSound(r)'
    BY <2>2, <2>3 DEF TurnSound, Replying
  <2>5. \A where \in {"looping", "showing_pending"} :
          where \in Streaming \ {"saving"} /\ (pc[r] \in Making <=> where \in Making)
    BY <2>1 DEF Streaming, Making
  <2> QED BY <2>1, <2>4, <2>5, MoveSound
<1>4. CASE StopLooping(r)
  <2>1. /\ pc[r] = "looping" /\ Same /\ step' = step /\ ~MayTurn(r)
        /\ Goto(r, "exceeded") \/ Goto(r, "ending")
    BY <1>4 DEF StopLooping, local
  <2>2. pc'[r] \in {"exceeded", "ending"} /\ pc'[r] \notin Replying
    BY <2>1 DEF Goto, Inv, TypeOK, Replying
  <2>3. reply[r] = None => req[r].limit <= 0
    BY <1>1, <1>2, <2>1 DEF TurnSound, MayTurn
  <2>4. reply[r] # None => /\ message[created[r]].final
                           /\ message[chain[r][1]].role = "system" => message[chain[r][1]].final
    BY <1>1, <2>1 DEF TurnSound, Settled
  <2>5. TurnSound(r)'
    BY <1>1, <2>1, <2>2, <2>3, <2>4 DEF TurnSound, storeVars
  <2>6. \A where \in {"exceeded", "ending"} :
          where \in Streaming \ {"saving"} /\ (pc[r] \in Making <=> where \in Making)
    BY <2>1 DEF Streaming, Making
  <2>7. pc[r] \in Streaming
    BY <2>1 DEF Streaming
  <2> QED BY <2>1, <2>5, <2>6, <2>7, MoveSound
<1>5. CASE ShowPending(r)
  <2>1. pc[r] = "showing_pending" /\ Same /\ step' = step /\ Goto(r, "closing_pending")
    BY <1>5 DEF ShowPending, Shown, local
  <2>2. pc'[r] = "closing_pending"
    BY <2>1 DEF Goto, Inv, TypeOK
  <2>3. TurnSound(r)'
    BY <1>1, <2>1, <2>2 DEF TurnSound, Replying, Settled
  <2> QED BY <2>1, <2>3, MoveSound DEF Streaming, Making
<1>6. CASE ShowReply(r)
  <2>1. pc[r] = "showing_reply" /\ Same /\ step' = step /\ Goto(r, "inferring")
    BY <1>6 DEF ShowReply, Shown, local
  <2>2. pc'[r] = "inferring"
    BY <2>1 DEF Goto, Inv, TypeOK
  <2>3. TurnSound(r)'
    BY <1>1, <2>1, <2>2 DEF TurnSound, Replying, Settled
  <2> QED BY <2>1, <2>3, MoveSound DEF Streaming, Making
<1>7. CASE ExceedLimit(r)
  <2>1. pc[r] = "exceeded" /\ Same /\ step' = step /\ Goto(r, "ending")
    BY <1>7 DEF ExceedLimit, local
  <2>2. pc'[r] = "ending"
    BY <2>1 DEF Goto, Inv, TypeOK
  <2>3. TurnSound(r)'
    BY <1>1, <2>1, <2>2 DEF TurnSound, Replying, Settled, storeVars
  <2> QED BY <2>1, <2>3, MoveSound DEF Streaming, Making
<1>8. CASE FinalizeNothing(r)
  <2>1. /\ Finalizing(r) /\ ~OpenSystem(r) /\ created[r] \notin open[r]
        /\ Same /\ step' = step /\ Goto(r, AfterFinalize(r))
    BY <1>8 DEF FinalizeNothing, local
  <2>2. \/ /\ pc[r] = "calling" /\ Uncalled(r) = {} /\ pc'[r] = "showing_turn"
           /\ Goto(r, "showing_turn")
        \/ pc[r] = "closing_pending" /\ pc'[r] = "ending" /\ Goto(r, "ending")
    BY <2>1 DEF Finalizing, AfterFinalize, Goto, Inv, TypeOK
  <2>3. message[created[r]].final
    BY <1>1, <2>1, <2>2 DEF CreatedSound, Stored, Streaming
  <2>4. message[chain[r][1]].role = "system" => message[chain[r][1]].final
    <3>1. chain[r] # <<>>
      BY <2>2 DEF Inv, RequestFits, PcFits, Streaming
    <3> QED BY <1>1, <2>1, <3>1 DEF CreatedSound, Stored, OpenSystem
  <2>5. TurnSound(r)'
    <3>1. Uncalled(r)' = Uncalled(r)
      BY <2>1 DEF Uncalled, Answered, storeVars
    <3> QED BY <1>1, <2>1, <2>2, <2>3, <2>4, <3>1 DEF TurnSound, Replying, Settled, storeVars
  <2>6. \A where \in {"showing_turn", "ending"} : where \in Streaming \ {"saving"}
    BY DEF Streaming
  <2>7. /\ pc[r] \in Streaming /\ pc[r] \notin Making
        /\ "showing_turn" \notin Making /\ "ending" \notin Making
    BY <2>2 DEF Streaming, Making
  <2> QED BY <2>1, <2>2, <2>5, <2>6, <2>7, MoveSound
<1>9. CASE ShowTurn(r)
  <2> DEFINE calls == message[reply[r]].calls
  <2>1. pc[r] = "showing_turn" /\ Same
    BY <1>9 DEF ShowTurn, Shown
  <2>2. /\ reply[r] # None /\ Uncalled(r) = {} /\ step[r] < req[r].limit
        /\ message[created[r]].final
        /\ message[chain[r][1]].role = "system" => message[chain[r][1]].final
    BY <1>1, <1>2, <2>1 DEF TurnSound, Replying, Settled
  <2>3. CASE calls = <<>> \/ \E k \in DOMAIN calls : calls[k] = "user_defined"
    <3>1. Goto(r, "ending") /\ step' = step
      BY <1>9, <2>3 DEF ShowTurn
    <3>2. pc'[r] = "ending"
      BY <3>1 DEF Goto, Inv, TypeOK
    <3>3. TurnSound(r)'
      BY <1>1, <2>1, <2>2, <3>1, <3>2 DEF TurnSound, Replying, storeVars
    <3> QED BY <2>1, <3>1, <3>3, MoveSound DEF Streaming, Making
  <2>4. CASE calls # <<>> /\ \A k \in DOMAIN calls : calls[k] # "user_defined"
    <3>1. Goto(r, "looping") /\ step' = [step EXCEPT ![r] = step[r] + 1]
      BY <1>9, <2>4 DEF ShowTurn
    <3>2. pc'[r] = "looping" /\ step'[r] = step[r] + 1
      BY <3>1 DEF Goto, Inv, TypeOK
    <3>3. \A k \in DOMAIN calls : <<reply[r], k>> \in Answered(r)
      BY <2>2, <2>4 DEF Uncalled
    <3>4. Answered(r)' = Answered(r)
      BY <2>1 DEF Answered, storeVars
    <3>5. step'[r] <= req[r].limit
      BY <1>2, <2>2, <3>2
    <3>6. TurnSound(r)'
      BY <2>1, <2>2, <2>4, <3>2, <3>3, <3>4, <3>5 DEF TurnSound, Replying, storeVars
    <3>7. /\ "looping" \in Streaming \ {"saving"} /\ pc[r] \in Streaming
          /\ pc[r] \notin Making /\ "looping" \notin Making
      BY <2>1 DEF Streaming, Making
    <3> QED BY <2>1, <3>1, <3>6, <3>7, MoveSound
  <2> QED BY <2>3, <2>4
<1> QED BY <1>3, <1>4, <1>5, <1>6, <1>7, <1>8, <1>9

-----------------------------------------------------------------------------
(***************************************************************************)
(* Validation and the chain.                                               *)
(***************************************************************************)
\* A request that passes validation has a parent it may answer, and its session
\* has the root of the thread as it is.
LEMMA PostSound ==
  ASSUME Inv, Sound, NEW r \in Requests, Post(r)
  PROVE  Sound'
<1> PICK in \in Inputs, parent \in {None} \cup Ids, call \in {NoCall} \cup StoredCalls :
      /\ Valid(in, parent, call)
      /\ req' = [req EXCEPT ![r] =
                   [client |-> in.client, role |-> in.role, parent |-> parent,
                    up |-> IF parent = None THEN None ELSE message[parent].parent,
                    private |-> PrivateOf(in), call |-> call,
                    limit |-> in.limit, prompt |-> in.prompt /\ parent = None]]
      /\ open' = [open EXCEPT ![r] =
                    IF parent = None THEN {}
                    ELSE {m \in {RootOf(parent)} : ~message[m].final}]
  BY DEF Post
<1>1. /\ pc[r] = "idle" /\ pc' = [pc EXCEPT ![r] = "posted"]
      /\ UNCHANGED <<message, completions, writes, errs, chain, created, reply, step>>
  BY DEF Post, Goto, storeVars
<1>2. Ids' = Ids /\ RowsKept(r)
  BY <1>1, IdleKept DEF Ids
<1>3. OthersAlone(r)
  BY <1>1 DEF Inv, TypeOK, OthersAlone
<1>4. /\ pc'[r] = "posted" /\ req'[r].parent = parent /\ req'[r].role = in.role
      /\ open'[r] = IF parent = None THEN {}
                    ELSE {m \in {RootOf(parent)} : ~message[m].final}
  BY <1>1 DEF Inv, TypeOK
<1>5. chain'[r] = <<>> /\ reply'[r] = None /\ created'[r] = None /\ step'[r] = 0
  BY <1>1 DEF Inv, RequestFits, PcFits, Sound, GeneratorSound, CreatedSound, TurnSound
<1>6. parent # None => RootOf(parent) \in Ids
  <2>1. ASSUME NEW p \in Ids PROVE message[p].root \in Ids
    BY IdsAreNumbers DEF Inv, TypeOK, TableFits, RowFits
  <2> QED BY <2>1 DEF RootOf
<1>7. ReqSound(r)'
  <2>1. parent # None => \/ message[parent].role = "tool_call_result"
                         \/ message[parent].role # in.role
    BY DEF Valid
  <2>2. parent # None => Stored(r, RootOf(parent))'
    BY <1>1, <1>4 DEF Stored, RootOf
  <2>3. RootOf(req[r].parent)' = RootOf(parent)
    BY <1>1, <1>4 DEF RootOf
  <2> QED BY <1>1, <1>4, <2>1, <2>2, <2>3 DEF ReqSound, Stored
<1>8. CreatedSound(r)'
  <2>1. open'[r] \subseteq Ids'
    BY <1>2, <1>4, <1>6
  <2> QED BY <1>4, <1>5, <2>1 DEF CreatedSound, Streaming
<1>9. ReplySound(r)' /\ TurnSound(r)'
  BY <1>4, <1>5 DEF ReplySound, TurnSound, Making, Replying, Settled
<1>10. WritesSound(r)'
  BY <1>2, KeptForOthers, <1>1, WritesStay
<1>11. \A id \in Ids : MadeBy(r, id)' => MadeBy(r, id)
  BY <1>5 DEF MadeBy
<1> QED BY <1>2, <1>3, <1>7, <1>8, <1>9, <1>10, <1>11, SoundWithoutRow DEF GeneratorSound

\* A step of setup_msg_thread that stores nothing: the request has no row yet.
LEMMA SetupSound ==
  ASSUME Inv, Sound, NEW r \in Requests,
         UNCHANGED <<storeVars, req, created, open, reply, heard, step>>,
         pc[r] \in {"posted", "climbing"}, NEW where \in {"climbing", "chained"},
         pc' = [pc EXCEPT ![r] = where],
         \A q \in Requests \ {r} : chain'[q] = chain[q],
         where = "climbing" => req[r].parent # None /\ Newest(r)' = req[r].parent,
         where = "chained" =>
           \/ req[r].parent # None /\ Newest(r)' = req[r].parent
           \/ req[r].parent = None /\ chain'[r] = <<>>,
         chain'[r] # <<>> /\ message[chain'[r][1]].role = "system"
           => Stored(r, chain'[r][1])
  PROVE  Sound'
<1>1. /\ UNCHANGED <<message, completions, writes, errs>> /\ Ids' = Ids
      /\ UNCHANGED <<req, created, open, reply, step>>
  BY DEF storeVars, Ids
<1>2. RowsKept(r)
  BY <1>1, IdleKept
<1>3. pc'[r] = where /\ OthersAlone(r)
  BY <1>1 DEF Inv, TypeOK, OthersAlone
<1>4. ReqSound(r)'
  <2>1. RootOf(req[r].parent)' = RootOf(req[r].parent)
    BY <1>1 DEF RootOf
  <2> QED BY <1>1, <1>3, <2>1 DEF Sound, GeneratorSound, ReqSound, Stored
<1>5. created[r] = None /\ open[r] \subseteq Ids
  BY DEF Sound, GeneratorSound, CreatedSound
<1>6. CreatedSound(r)'
  BY <1>1, <1>3, <1>5 DEF CreatedSound, Streaming, Stored
<1>7. reply[r] = None /\ step[r] = 0
  BY DEF Sound, GeneratorSound, ReplySound, TurnSound, Streaming
<1>8. ReplySound(r)' /\ TurnSound(r)'
  BY <1>1, <1>3, <1>5, <1>7 DEF ReplySound, TurnSound, Making, Replying, Settled
<1>9. WritesSound(r)'
  BY <1>1, <1>2, KeptForOthers, WritesStay
<1>10. \A id \in Ids : MadeBy(r, id)' => MadeBy(r, id)
  BY <1>1, <1>5 DEF MadeBy
<1> QED BY <1>1, <1>2, <1>3, <1>4, <1>6, <1>8, <1>9, <1>10, SoundWithoutRow
        DEF GeneratorSound

\* The chain begins at the parent; a system message there is the root of the thread.
LEMMA ReadThreadSound ==
  ASSUME Inv, Sound, NEW r \in Requests, ReadThread(r)
  PROVE  Sound'
<1> DEFINE p == req[r].parent
<1>1. /\ pc[r] = "posted" /\ pc' = [pc EXCEPT ![r] = "climbing"] /\ p # None
      /\ chain' = [chain EXCEPT ![r] = Append(@, p)]
      /\ UNCHANGED <<storeVars, req, created, open, reply, heard, step>>
  BY DEF ReadThread, Goto, Extend
<1>2. p \in Ids
  BY <1>1, ChainRows
<1>3. chain'[r] = <<p>>
  <2>1. chain[r] = <<>> /\ chain'[r] = Append(chain[r], p)
    BY <1>1 DEF Inv, TypeOK, RequestFits, PcFits
  <2> QED BY <2>1
<1>4. chain'[r] # <<>> /\ chain'[r][1] = p /\ Newest(r)' = p
  BY <1>3 DEF Newest, Last
<1>5. message[p].role = "system" => Stored(r, p)
  BY <1>1, <1>2 DEF Sound, TableSound, RowSound, GeneratorSound, ReqSound, RootOf
<1>6. \A q \in Requests \ {r} : chain'[q] = chain[q]
  BY <1>1 DEF Inv, TypeOK
<1> HIDE DEF p
<1> QED BY <1>1, <1>4, <1>5, <1>6, SetupSound DEF p

\* The chain grows at its head, and ends where it ended.
LEMMA ClimbSound ==
  ASSUME Inv, Sound, NEW r \in Requests, Climb(r)
  PROVE  Sound'
<1> DEFINE up == parents[r][chain[r][1]]
<1>1. /\ pc[r] = "climbing"
      /\ UNCHANGED <<storeVars, req, created, open, reply, heard, step>>
  BY DEF Climb
<1>2. req[r].parent # None /\ Newest(r) = req[r].parent
  BY <1>1 DEF Sound, GeneratorSound, ReqSound
<1>3. /\ chain[r] # <<>> /\ chain[r][1] \in DOMAIN parents[r]
      /\ ParentFits(chain[r][1], up)
  <2>1. chain[r] # <<>> /\ chain[r][1] \in DOMAIN parents[r]
    BY <1>1 DEF Inv, RequestFits, PcFits
  <2> QED BY <2>1 DEF Inv, RequestFits, SnapshotFits
<1>4. CASE up # None
  <2>1. /\ chain' = [chain EXCEPT ![r] = <<up>> \o @]
        /\ pc' = pc
    BY <1>4 DEF Climb
  <2>2. chain'[r] = <<up>> \o chain[r] /\ \A q \in Requests \ {r} : chain'[q] = chain[q]
    BY <2>1 DEF Inv, TypeOK
  <2>3. chain[r] \in Seq(MsgId) /\ Len(chain[r]) \in Nat \ {0} /\ 1 \in DOMAIN chain[r]
    BY <1>3, ChainProperties
  <2>4. chain'[r] # <<>> /\ chain'[r][1] = up /\ Newest(r)' = Newest(r)
    <3>1. /\ Len(chain'[r]) = Len(chain[r]) + 1 /\ chain'[r][1] = up
          /\ chain'[r][Len(chain[r]) + 1] = chain[r][Len(chain[r])]
      BY <2>2, <2>3
    <3>2. chain'[r] # <<>>
      BY <2>2, <2>3
    <3> QED BY <1>3, <3>1, <3>2 DEF Newest, Last
  <2>5. message[up].role = "system" => Stored(r, up)
    <3>1. chain[r][1] \in Ids /\ message[chain[r][1]].root = message[Newest(r)].root
      BY <2>3, ChainProperties, ChainRows
    <3>2. up \in Ids /\ message[up].root = RootOf(req[r].parent)
      BY <1>2, <1>3, <1>4, <3>1, IdsAreNumbers DEF Inv, TypeOK, ParentFits, RootOf
    <3>3. Stored(r, RootOf(req[r].parent))
      BY <1>2 DEF Sound, GeneratorSound, ReqSound
    <3> QED BY <3>2, <3>3 DEF Sound, TableSound, RowSound
  <2>6. pc' = [pc EXCEPT ![r] = "climbing"]
    BY <1>1, <2>1 DEF Inv, TypeOK
  <2> HIDE DEF up
  <2> QED BY <1>1, <1>2, <2>2, <2>4, <2>5, <2>6, SetupSound
<1>5. CASE up = None
  <2>1. pc' = [pc EXCEPT ![r] = "chained"] /\ chain' = chain
    BY <1>5 DEF Climb, Goto
  <2>2. Newest(r)' = Newest(r)
    BY <2>1 DEF Newest
  <2>3. chain[r] # <<>> /\ message[chain[r][1]].role = "system" => Stored(r, chain[r][1])
    BY DEF Sound, GeneratorSound, CreatedSound
  <2> HIDE DEF up
  <2> QED BY <1>1, <1>2, <2>1, <2>2, <2>3, SetupSound
<1> QED BY <1>4, <1>5

-----------------------------------------------------------------------------
(***************************************************************************)
(* The steps that make a row.                                              *)
(***************************************************************************)
\* A chain that a new row is appended to: its rows are older, its head stays.
LEMMA AppendedChain ==
  ASSUME Inv, NEW r \in Requests, NEW n, n = NewId, chain'[r] = Append(chain[r], n)
  PROVE  /\ chain'[r] # <<>> /\ Newest(r)' = n
         /\ chain'[r][1] = IF chain[r] = <<>> THEN n ELSE chain[r][1]
         /\ \A i \in DOMAIN chain[r] : i \in DOMAIN chain'[r] /\ chain'[r][i] = chain[r][i]
         /\ \A i \in DOMAIN chain'[r] :
              \/ i \in DOMAIN chain[r] /\ chain'[r][i] = chain[r][i] /\ chain[r][i] < n
              \/ chain'[r][i] = n
         /\ \A id : InChain(r, id)' <=> InChain(r, id) \/ id = n
<1> DEFINE m == Len(chain[r])
<1>1. /\ chain[r] \in Seq(MsgId) /\ m \in Nat /\ DOMAIN chain[r] = 1..m
      /\ \A i \in DOMAIN chain[r] : chain[r][i] \in Ids
  BY ChainProperties, ChainRows
<1>2. \A id \in Ids : id < n
  BY IdsAreNumbers DEF Inv, TypeOK, NewId
<1>3. n \in MsgId
  BY IdsAreNumbers DEF Inv, TypeOK
<1>4. /\ DOMAIN chain'[r] = 1..(m + 1) /\ Len(chain'[r]) = m + 1
      /\ \A i \in 1..m : chain'[r][i] = chain[r][i]
      /\ chain'[r][m + 1] = n
  BY <1>1, <1>3
<1>5. chain'[r] # <<>> /\ Newest(r)' = n
  BY <1>1, <1>4 DEF Newest, Last
<1>6. chain'[r][1] = IF chain[r] = <<>> THEN n ELSE chain[r][1]
  BY <1>1, <1>4
<1>7. \A i \in DOMAIN chain'[r] :
        \/ i \in DOMAIN chain[r] /\ chain'[r][i] = chain[r][i] /\ chain[r][i] < n
        \/ chain'[r][i] = n
  BY <1>1, <1>2, <1>4
<1>8. \A i \in DOMAIN chain[r] : i \in DOMAIN chain'[r] /\ chain'[r][i] = chain[r][i]
  BY <1>1, <1>4
<1>9. \A id : InChain(r, id)' <=> InChain(r, id) \/ id = n
  <2>1. m + 1 \in DOMAIN chain'[r]
    BY <1>1, <1>4
  <2> QED BY <1>4, <1>7, <1>8, <2>1 DEF InChain
<1> QED BY <1>5, <1>6, <1>7, <1>8, <1>9

\* The facts that every insert of the handlers starts from.
LEMMA InsertFacts ==
  ASSUME Inv, Sound, NEW r \in Requests, NEW row, Add(r, row), pc[r] # "saving",
         completions' = completions, NEW n, n = NewId
  PROVE  /\ Ids' = Ids \cup {n} /\ n \notin Ids /\ n # None
         /\ \A id \in Ids : id < n
         /\ message'[n] = row
         /\ RowsKept(r) /\ KeptFor(r) /\ ErrsKept(r)
         /\ writes'[r] = {}
         /\ \A q \in Requests \ {r} : writes'[q] = writes[q] /\ errs'[q] = errs[q]
<1>1. /\ Ids' = Ids \cup {n} /\ n \notin Ids /\ n # None
      /\ \A id \in Ids : id < n
      /\ message'[n] = row
      /\ RowsKept(r) /\ Emptied(r)
      /\ \A id \in Ids : id \in errs[r] => message'[id].err
  BY AddKept
<1>2. KeptFor(r)
  BY <1>1, KeptForOthers
<1> QED BY <1>1, <1>2 DEF Emptied, ErrsKept

\* The message of the request, appended to the chain, begins a stream.
LEMMA CreatedRowSound ==
  ASSUME Inv, Sound, NEW r \in Requests, NEW row, pc[r] = "chained", Add(r, row),
         NEW n, n = NewId, chain' = [chain EXCEPT ![r] = Append(@, n)],
         created' = [created EXCEPT ![r] = n],
         open' = open \/ open' = [open EXCEPT ![r] = @ \cup {n}],
         pc' = [pc EXCEPT ![r] = "opening"],
         UNCHANGED <<completions, req, reply, step>>,
         row.role \in {"user", "tool_call_result"},
         row.final \/ open' = [open EXCEPT ![r] = @ \cup {n}],
         RowSound(n)'
  PROVE  Sound'
<1>1. /\ Ids' = Ids \cup {n} /\ n \notin Ids /\ n # None
      /\ \A id \in Ids : id < n
      /\ message'[n] = row
      /\ RowsKept(r) /\ KeptFor(r) /\ ErrsKept(r)
      /\ writes'[r] = {}
      /\ \A q \in Requests \ {r} : writes'[q] = writes[q] /\ errs'[q] = errs[q]
  BY InsertFacts
<1>2. OthersAlone(r)
  BY <1>1 DEF Inv, TypeOK, OthersAlone
<1>3. /\ chain'[r] = Append(chain[r], n) /\ created'[r] = n /\ pc'[r] = "opening"
      /\ open[r] \subseteq open'[r] /\ open'[r] \subseteq open[r] \cup {n}
      /\ row.final \/ n \in open'[r]
  BY DEF Inv, TypeOK
<1>4. reply'[r] = None /\ step'[r] = 0
  BY DEF Sound, GeneratorSound, ReplySound, TurnSound, Streaming
<1>5. /\ chain'[r] # <<>> /\ Newest(r)' = n
      /\ chain'[r][1] = IF chain[r] = <<>> THEN n ELSE chain[r][1]
      /\ \A i \in DOMAIN chain'[r] :
           \/ i \in DOMAIN chain[r] /\ chain'[r][i] = chain[r][i] /\ chain[r][i] < n
           \/ chain'[r][i] = n
      /\ \A id : InChain(r, id)' <=> InChain(r, id) \/ id = n
  BY <1>3, AppendedChain
<1>6. StoredKept(r)
  BY <1>1, <1>3, SessionKept
<1>7. ReqSound(r)'
  BY <1>1, <1>3, <1>6, ReqStays
<1>8. n \in MsgId /\ \A i \in DOMAIN chain[r] : chain[r][i] \in Ids /\ chain[r][i] \in MsgId
  BY IdsAreNumbers, ChainRows DEF Inv, TypeOK
<1>9. CreatedSound(r)'
  <2>1. open'[r] \subseteq Ids'
    BY <1>1, <1>3 DEF Sound, GeneratorSound, CreatedSound
  <2>2. Stored(r, created[r])'
    BY <1>1, <1>3 DEF Stored
  <2>3. chain'[r] # <<>> /\ message'[chain'[r][1]].role = "system" => Stored(r, chain[r][1])'
    <3>1. CASE chain[r] = <<>>
      BY <1>1, <1>5, <3>1
    <3>2. CASE chain[r] # <<>>
      <4>1. chain[r][1] \in Ids /\ chain'[r][1] = chain[r][1]
        BY <1>5, <3>2, ChainRows
      <4>2. message'[chain[r][1]].role = message[chain[r][1]].role
        BY <1>1, <4>1 DEF KeptFor, ColumnsKept
      <4> QED BY <1>6, <3>2, <4>1, <4>2
              DEF Sound, GeneratorSound, CreatedSound, StoredKept, Stored
    <3> QED BY <3>1, <3>2
  <2> QED BY <1>1, <1>3, <1>4, <1>5, <2>1, <2>2, <2>3 DEF CreatedSound
<1>10. \A i \in DOMAIN chain'[r] : ~(chain'[r][i] > n)
  BY <1>5, <1>8 DEF MsgId
<1>11. ReplySound(r)' /\ TurnSound(r)'
  BY <1>3, <1>4, <1>10 DEF ReplySound, TurnSound, Making, Replying, Settled
<1>12. WritesSound(r)'
  BY <1>1 DEF WritesSound
<1>13. ASSUME NEW id \in Ids, MadeBy(r, id)' PROVE MadeBy(r, id)
  <2>1. id = n \/ id > n
    BY <1>3, <1>13 DEF MadeBy
  <2>2. id < n /\ id \in Nat /\ n \in Nat
    BY <1>1, <1>8, IdsAreNumbers DEF Inv, TypeOK, MsgId
  <2> QED BY <2>1, <2>2
<1> QED BY <1>1, <1>2, <1>7, <1>9, <1>11, <1>12, <1>13, SoundWithRow DEF GeneratorSound

\* A set of positions of a sequence has a greatest one.
LEMMA GreatestExists ==
  ASSUME NEW m \in Nat, NEW S, S \subseteq 1..m, S # {}
  PROVE  \E i \in S : \A j \in S : j <= i
<1> DEFINE T == {m - i : i \in S}
<1>1. T \subseteq Nat /\ T # {}
  <2>1. \A i \in S : m - i \in Nat
    OBVIOUS
  <2>2. PICK i \in S : TRUE
    OBVIOUS
  <2>3. m - i \in T
    OBVIOUS
  <2> QED BY <2>1, <2>3
<1>2. PICK t \in T : \A u \in T : t <= u
  BY <1>1, LeastExists
<1>3. PICK i \in S : t = m - i
  BY <1>2
<1>4. ASSUME NEW j \in S PROVE j <= i
  <2>1. m - j \in T /\ t <= m - j
    BY <1>2
  <2> QED BY <1>3, <2>1
<1> QED BY <1>4

\* A row is sound when it is added, if it fits the rows that are there.
LEMMA AddedRowSound ==
  ASSUME Inv, Sound, NEW r \in Requests, RowsKept(r), pc[r] # "saving",
         NEW n, n = NewId, NEW row, message'[n] = row,
         row.role = "system" => row.root = n,
         row.calls = <<>>, row.completion <=> FALSE,
         row.parent # None =>
           /\ row.parent \in Ids
           /\ \/ message[row.parent].role = "tool_call_result"
              \/ message[row.parent].role # row.role,
         row.role = "tool_call_result" =>
           /\ row.answers[1] \in Ids
           /\ message[row.answers[1]].root = row.root
           /\ row.answers[2] \in DOMAIN message[row.answers[1]].calls
  PROVE  RowSound(n)'
<1>1. \A id \in Ids : id \in 1..(n - 1)
  BY IdsAreNumbers DEF Inv, TypeOK, NewId
<1>2. \A id \in Ids : /\ message'[id].role = message[id].role
                      /\ message'[id].root = message[id].root
                      /\ message'[id].calls = message[id].calls
  BY DEF RowsKept, ColumnsKept, ReplyKept, Saves
<1>3. Alternates(n, message[n].parent)'
  BY <1>2 DEF Alternates
<1>4. (message[n].role = "tool_call_result" => AnswersCall(n))'
  <2>1. SUFFICES ASSUME row.role = "tool_call_result" PROVE AnswersCall(n)'
    OBVIOUS
  <2> DEFINE a == row.answers[1]
  <2>2. a \in 1..(n - 1) /\ a \in Ids
    BY <1>1, <2>1
  <2> QED BY <1>2, <2>1, <2>2 DEF AnswersCall
<1>5. ~message'[n].completion
  BY Zenon
<1>6. (message[n].role = "system" => message[n].root = n)' /\ message'[n].calls = <<>>
  OBVIOUS
<1> QED BY <1>3, <1>4, <1>5, <1>6, Zenon DEF RowSound

\* A user message follows the message it was validated against, or a system message.
LEMMA CreateUserSound ==
  ASSUME Inv, Sound, NEW r \in Requests, CreateUser(r)
  PROVE  Sound'
<1> DEFINE p == Newest(r)
           row == NewRow(r, "user", p, req[r].private)
<1>1. PICK n : n = NewId
  OBVIOUS
<1>2. /\ pc[r] = "chained" /\ req[r].role = "user" /\ Add(r, row)
      /\ chain' = [chain EXCEPT ![r] = Append(@, n)]
      /\ created' = [created EXCEPT ![r] = n]
      /\ open' = [open EXCEPT ![r] = @ \cup {n}]
      /\ pc' = [pc EXCEPT ![r] = "opening"]
      /\ UNCHANGED <<completions, req, reply, step>>
  BY <1>1 DEF CreateUser, Extend, Goto
<1>3. /\ row.role = "user" /\ row.parent = p /\ row.calls = <<>>
      /\ row.completion = FALSE
  <2> HIDE DEF p
  <2> QED BY DEF NewRow
<1>4. p # None => /\ p \in Ids
                  /\ \/ message[p].role = "tool_call_result"
                     \/ message[p].role # "user"
  <2>1. SUFFICES ASSUME p # None PROVE /\ p \in Ids
                                       /\ \/ message[p].role = "tool_call_result"
                                          \/ message[p].role # "user"
    OBVIOUS
  <2>2. chain[r] # <<>> /\ p \in Ids
    BY <2>1, ChainRows DEF Newest
  <2> QED BY <1>2, <2>2 DEF Sound, GeneratorSound, ReqSound
<1> HIDE DEF row, p
<1>5. RowsKept(r) /\ message'[n] = row
  BY <1>1, <1>2, InsertFacts
<1>6. RowSound(n)'
  BY <1>1, <1>2, <1>3, <1>4, <1>5, AddedRowSound
<1> QED BY <1>1, <1>2, <1>3, <1>6, CreatedRowSound

\* The tool response of a client answers a call of the last reply of its chain.
LEMMA CreateToolResponseSound ==
  ASSUME Inv, Sound, NEW r \in Requests, CreateToolResponse(r)
  PROVE  Sound'
<1> DEFINE p == Newest(r)
           a == LastAssistant(r)
           row == [NewRow(r, "tool_call_result", p, message[p].private)
                     EXCEPT !.final = TRUE, !.answers = req[r].call,
                            !.err = message[p].err]
<1>1. PICK n : n = NewId
  OBVIOUS
<1>2. /\ pc[r] = "chained" /\ req[r].role = "tool_call_result" /\ Add(r, row)
      /\ chain' = [chain EXCEPT ![r] = Append(@, n)]
      /\ created' = [created EXCEPT ![r] = n]
      /\ open' = open
      /\ pc' = [pc EXCEPT ![r] = "opening"]
      /\ UNCHANGED <<completions, req, reply, step>>
  BY <1>1 DEF CreateToolResponse, Extend, Goto
<1>3. /\ row.role = "tool_call_result" /\ row.parent = p /\ row.calls = <<>>
      /\ row.root = IF p = None THEN NewId ELSE message[p].root
      /\ row.answers = req[r].call
      /\ row.completion = FALSE /\ row.final = TRUE
  <2> HIDE DEF p
  <2> QED BY DEF NewRow
<1>4. a # None /\ req[r].call[1] = a /\ req[r].call[2] \in DOMAIN message[a].calls
  BY DEF CreateToolResponse, Answerable
<1>5. PICK i \in DOMAIN chain[r] : message[chain[r][i]].role = "assistant" /\ a = chain[r][i]
  <2> DEFINE at == {i \in DOMAIN chain[r] : message[chain[r][i]].role = "assistant"}
  <2>1. at # {} /\ a = chain[r][CHOOSE i \in at : \A j \in at : j <= i]
    BY <1>4 DEF LastAssistant
  <2>2. at \subseteq 1..Len(chain[r]) /\ Len(chain[r]) \in Nat
    BY ChainProperties
  <2>3. \E i \in at : \A j \in at : j <= i
    BY <2>1, <2>2, GreatestExists
  <2> QED BY <2>1, <2>3
<1>6. a \in Ids /\ message[a].root = message[p].root /\ p \in Ids /\ p # None
  <2>1. chain[r] # <<>>
    BY <1>5
  <2> QED BY <1>5, <2>1, ChainRows, ChainProperties
<1>7. message[p].role = "tool_call_result" \/ message[p].role # "tool_call_result"
  OBVIOUS
<1> HIDE DEF row, p, a
<1>8. RowsKept(r) /\ message'[n] = row
  BY <1>1, <1>2, InsertFacts
<1>9. /\ row.completion <=> FALSE
      /\ row.final
  BY <1>3, Zenon
<1>10. RowSound(n)'
  <2>1. /\ row.answers[1] \in Ids
        /\ message[row.answers[1]].root = row.root
        /\ row.answers[2] \in DOMAIN message[row.answers[1]].calls
    BY <1>3, <1>4, <1>6
  <2>2. /\ row.parent \in Ids
        /\ \/ message[row.parent].role = "tool_call_result"
           \/ message[row.parent].role # row.role
    BY <1>3, <1>6
  <2>3. pc[r] # "saving" /\ row.role # "system" /\ row.calls = <<>>
    BY <1>2, <1>3
  <2> QED BY <1>1, <1>8, <1>9, <2>1, <2>2, <2>3, AddedRowSound
<1> QED BY <1>1, <1>2, <1>3, <1>9, <1>10, CreatedRowSound

\* The system message of a new thread is its root, and is open until it is finalized.
LEMMA SetupSystemMessageSound ==
  ASSUME Inv, Sound, NEW r \in Requests, SetupSystemMessage(r)
  PROVE  Sound'
<1>1. /\ pc[r] = "posted" /\ pc' = [pc EXCEPT ![r] = "chained"] /\ req[r].parent = None
      /\ UNCHANGED <<completions, req, parents, created, reply, heard, step>>
  BY DEF SetupSystemMessage, Goto
<1>2. chain[r] = <<>> /\ reply[r] = None /\ created[r] = None /\ step[r] = 0
  BY <1>1 DEF Inv, RequestFits, PcFits, Sound, GeneratorSound, CreatedSound, TurnSound
<1>3. CASE ~req[r].prompt
  <2>1. UNCHANGED <<storeVars, req, created, open, reply, heard, step>> /\ chain' = chain
    BY <1>3 DEF SetupSystemMessage, storeVars
  <2>2. chain'[r] = <<>>
    BY <1>2, <2>1
  <2> QED BY <1>1, <2>1, <2>2, SetupSound
<1>4. CASE req[r].prompt
  <2> DEFINE row == NewRow(r, "system", None, req[r].private)
  <2>1. PICK n : n = NewId
    OBVIOUS
  <2>2. /\ Add(r, row) /\ chain' = [chain EXCEPT ![r] = Append(@, n)]
        /\ open' = [open EXCEPT ![r] = @ \cup {n}]
    BY <1>4, <2>1 DEF SetupSystemMessage, Extend
  <2>3. /\ row.role = "system" /\ row.parent = None /\ row.calls = <<>>
        /\ row.root = NewId /\ row.completion = FALSE
    BY DEF NewRow
  <2>4. row.completion <=> FALSE
    BY <2>3, Zenon
  <2> HIDE DEF row
  <2>5. /\ Ids' = Ids \cup {n} /\ n \notin Ids /\ n # None
        /\ message'[n] = row
        /\ RowsKept(r) /\ KeptFor(r) /\ ErrsKept(r)
        /\ writes'[r] = {}
        /\ \A q \in Requests \ {r} : writes'[q] = writes[q] /\ errs'[q] = errs[q]
    BY <1>1, <2>1, <2>2, InsertFacts
  <2>6. OthersAlone(r)
    BY <1>1, <2>2, <2>5 DEF Inv, TypeOK, OthersAlone
  <2>7. pc'[r] = "chained" /\ n \in open'[r] /\ open'[r] \subseteq open[r] \cup {n}
    BY <1>1, <2>2 DEF Inv, TypeOK
  <2>8. chain'[r] # <<>> /\ Newest(r)' = n /\ chain'[r][1] = n
    <3>1. chain'[r] = Append(chain[r], n)
      BY <2>2 DEF Inv, TypeOK
    <3> QED BY <1>2, <2>1, <3>1, AppendedChain
  <2>9. ReqSound(r)'
    BY <1>1, <2>3, <2>5, <2>7, <2>8 DEF ReqSound
  <2>10. CreatedSound(r)'
    <3>1. open'[r] \subseteq Ids'
      BY <2>5, <2>7 DEF Sound, GeneratorSound, CreatedSound
    <3> QED BY <1>1, <1>2, <2>7, <2>8, <3>1 DEF CreatedSound, Stored, Streaming
  <2>11. ReplySound(r)' /\ TurnSound(r)'
    BY <1>1, <1>2, <2>7 DEF ReplySound, TurnSound, Making, Replying, Settled
  <2>12. WritesSound(r)'
    BY <2>5 DEF WritesSound
  <2>13. \A id \in Ids : MadeBy(r, id)' => MadeBy(r, id)
    BY <1>1, <1>2 DEF MadeBy
  <2>14. RowSound(n)'
    BY <1>1, <2>1, <2>3, <2>4, <2>5, AddedRowSound
  <2> QED BY <2>5, <2>6, <2>9, <2>10, <2>11, <2>12, <2>13, <2>14, SoundWithRow
          DEF GeneratorSound
<1> QED BY <1>3, <1>4

\* The message a client writes for the model answers its parent, and has no calls.
LEMMA CreateAssistantSound ==
  ASSUME Inv, Sound, NEW r \in Requests, CreateAssistant(r)
  PROVE  Sound'
<1> DEFINE p == req[r].parent
           row == NewRow(r, "assistant", p, message[p].private)
<1>1. PICK n : n = NewId
  OBVIOUS
<1>2. /\ pc[r] = "chained" /\ pc' = [pc EXCEPT ![r] = "made"] /\ Add(r, row)
      /\ created' = [created EXCEPT ![r] = n] /\ req[r].role = "assistant"
      /\ UNCHANGED <<completions, req, parents, chain, open, reply, heard, step>>
  BY <1>1 DEF CreateAssistant, Goto
<1>3. p # None /\ p \in Ids
  <2>1. p # None
    BY <1>2 DEF Inv, RequestFits, ReqFits
  <2> QED BY <2>1, ChainRows
<1>4. \/ message[p].role = "tool_call_result"
      \/ message[p].role # "assistant"
  BY <1>2, <1>3 DEF Sound, GeneratorSound, ReqSound
<1>5. /\ row.role = "assistant" /\ row.parent = p /\ row.calls = <<>>
      /\ row.completion = FALSE
  <2> HIDE DEF p
  <2> QED BY DEF NewRow
<1>6. row.completion <=> FALSE
  BY <1>5, Zenon
<1> HIDE DEF row, p
<1>7. /\ Ids' = Ids \cup {n} /\ n \notin Ids /\ n # None
      /\ \A id \in Ids : id < n
      /\ message'[n] = row
      /\ RowsKept(r) /\ KeptFor(r) /\ ErrsKept(r)
      /\ writes'[r] = {}
      /\ \A q \in Requests \ {r} : writes'[q] = writes[q] /\ errs'[q] = errs[q]
  BY <1>1, <1>2, InsertFacts
<1>8. OthersAlone(r)
  BY <1>2, <1>7 DEF Inv, TypeOK, OthersAlone
<1>9. pc'[r] = "made" /\ created'[r] = n
  BY <1>2 DEF Inv, TypeOK
<1>10. reply[r] = None /\ step[r] = 0
  BY <1>2 DEF Sound, GeneratorSound, ReplySound, TurnSound, Streaming
<1>11. StoredKept(r)
  BY <1>2, <1>7, SessionKept
<1>12. ReqSound(r)'
  BY <1>2, <1>7, <1>9, <1>11, ReqStays
<1>13. CreatedSound(r)'
  <2>1. open'[r] \subseteq Ids'
    BY <1>2, <1>7 DEF Sound, GeneratorSound, CreatedSound
  <2>2. chain[r] # <<>> /\ message'[chain[r][1]].role = "system" => Stored(r, chain[r][1])'
    <3>1. SUFFICES ASSUME chain[r] # <<>>, message'[chain[r][1]].role = "system"
                   PROVE  Stored(r, chain[r][1])'
      OBVIOUS
    <3>2. chain[r][1] \in Ids
      BY <3>1, ChainRows
    <3>3. message'[chain[r][1]].role = message[chain[r][1]].role
      BY <1>7, <3>2 DEF KeptFor, ColumnsKept
    <3> QED BY <1>2, <1>11, <3>1, <3>2, <3>3
            DEF Sound, GeneratorSound, CreatedSound, StoredKept, Stored
  <2>3. /\ message'[n].role = "assistant"
        /\ message'[n].calls = <<>>
        /\ ~message'[n].completion
    <3>1. message'[n].role = "assistant" /\ message'[n].calls = <<>>
      BY <1>5, <1>7
    <3> QED BY <1>6, <1>7, <3>1, Zenon
  <2>4. pc'[r] \notin Streaming \cup {"opening", "idle", "posted", "climbing", "chained"}
    BY <1>9 DEF Streaming
  <2>5. (created[r] # None => created[r] \in Ids)'
    BY <1>7, <1>9
  <2>6. (pc[r] = "made" => /\ created[r] # None
                           /\ message[created[r]].role = "assistant"
                           /\ message[created[r]].calls = <<>>
                           /\ ~message[created[r]].completion)'
    BY <1>7, <1>9, <2>3, Zenon
  <2> QED BY <1>2, <2>1, <2>2, <2>4, <2>5, <2>6, Zenon DEF CreatedSound
<1>14. ReplySound(r)' /\ TurnSound(r)'
  <2>1. ASSUME NEW i \in DOMAIN chain'[r] PROVE ~(chain'[r][i] > n)
    <3>1. chain[r][i] \in Ids /\ chain'[r][i] = chain[r][i] /\ n \in Nat
      BY <1>1, <1>2, ChainRows, IdsAreNumbers DEF Inv, TypeOK, MsgId
    <3> QED BY <1>7, <3>1, IdsAreNumbers DEF Inv, TypeOK
  <2> QED BY <1>2, <1>9, <1>10, <2>1 DEF ReplySound, TurnSound, Making, Replying, Settled
<1>15. WritesSound(r)'
  BY <1>7 DEF WritesSound
<1>16. ASSUME NEW id \in Ids, MadeBy(r, id)' PROVE MadeBy(r, id)
  <2>1. id = n \/ id > n
    BY <1>9, <1>16 DEF MadeBy
  <2>2. id < n /\ id \in Nat /\ n \in Nat
    BY <1>1, <1>7, IdsAreNumbers DEF Inv, TypeOK, MsgId
  <2> QED BY <2>1, <2>2
<1>17. RowSound(n)'
  BY <1>1, <1>2, <1>3, <1>4, <1>5, <1>6, <1>7, AddedRowSound
<1> QED BY <1>7, <1>8, <1>12, <1>13, <1>14, <1>15, <1>16, <1>17, SoundWithRow
        DEF GeneratorSound

\* A turn begins under a message that is not an assistant's: the calls of the
\* turn before are answered, and their answers are younger than its reply.
LEMMA TurnFollowsAnswer ==
  ASSUME Inv, Sound, NEW r \in Requests, pc[r] = "looping"
  PROVE  /\ Newest(r) \in Ids /\ Newest(r) # None
         /\ message[Newest(r)].role # "assistant"
<1>1. chain[r] # <<>>
  BY DEF Inv, RequestFits, PcFits, Streaming
<1>2. Newest(r) \in Ids /\ Newest(r) # None
  BY <1>1, ChainRows, ChainProperties
<1>3. CASE reply[r] = None
  <2>1. Newest(r) = created[r] /\ message[created[r]].role \in {"user", "tool_call_result"}
    BY <1>3 DEF Sound, GeneratorSound, CreatedSound, Streaming
  <2> QED BY <1>2, <2>1
<1>4. CASE reply[r] # None
  <2> DEFINE a == reply[r]
  <2>1. /\ message[a].calls # <<>>
        /\ \A k \in DOMAIN message[a].calls : <<a, k>> \in Answered(r)
    BY <1>4 DEF Sound, GeneratorSound, TurnSound
  <2>2. a \in Ids /\ message[a].calls \in Seq(Source)
    <3>1. a \in Ids
      BY <1>4, ChainRows
    <3> QED BY <3>1, IdsAreNumbers DEF Inv, TypeOK, Row
  <2>3. 1 \in DOMAIN message[a].calls
    BY <2>1, <2>2
  <2>4. PICK i \in DOMAIN chain[r] : /\ message[chain[r][i]].role = "tool_call_result"
                                     /\ message[chain[r][i]].answers = <<a, 1>>
    BY <2>1, <2>3 DEF Answered
  <2>5. chain[r][i] \in Ids /\ chain[r][i] \in Nat /\ a \in Nat
    BY <2>2, ChainRows, IdsAreNumbers DEF Inv, TypeOK, MsgId
  <2>6. a < chain[r][i]
    <3>1. AnswersCall(chain[r][i])
      BY <2>4, <2>5 DEF Sound, TableSound, RowSound
    <3>2. a \in 1..(chain[r][i] - 1)
      BY <2>4, <3>1 DEF AnswersCall
    <3> QED BY <2>5, <3>2
  <2>7. /\ Len(chain[r]) \in DOMAIN chain[r] /\ Newest(r) = chain[r][Len(chain[r])]
        /\ i = Len(chain[r]) \/ i < Len(chain[r])
        /\ Newest(r) \in Nat
    BY <1>1, <1>2, ChainProperties, IdsAreNumbers DEF Inv, TypeOK, MsgId
  <2>8. chain[r][i] <= Newest(r)
    BY <2>5, <2>7 DEF Inv, RequestFits, ChainFits
  <2>9. a < Newest(r)
    BY <2>5, <2>6, <2>7, <2>8
  <2>10. message[Newest(r)].role = "tool_call_result"
    BY <1>4, <2>7, <2>9 DEF Sound, GeneratorSound, ReplySound
  <2> QED BY <1>2, <2>10
<1> QED BY <1>2, <1>3, <1>4

\* An empty reply under the newest message: the request is its only maker.
LEMMA AddReplySound ==
  ASSUME Inv, Sound, NEW r \in Requests, AddReply(r)
  PROVE  Sound'
<1> DEFINE p == Newest(r)
           row == NewRow(r, "assistant", p, message[p].private)
<1>1. PICK n : n = NewId
  OBVIOUS
<1>2. /\ pc[r] = "looping" /\ pc' = [pc EXCEPT ![r] = "showing_reply"] /\ Add(r, row)
      /\ MayTurn(r)
      /\ chain' = [chain EXCEPT ![r] = Append(@, n)]
      /\ reply' = [reply EXCEPT ![r] = n]
      /\ UNCHANGED <<completions, req, parents, created, open, heard, step>>
  BY <1>1 DEF AddReply, Extend, Goto
<1>3. p \in Ids /\ p # None /\ message[p].role # "assistant"
  BY <1>2, TurnFollowsAnswer
<1>4. /\ row.role = "assistant" /\ row.parent = p /\ row.calls = <<>>
      /\ row.completion = FALSE
  <2> HIDE DEF p
  <2> QED BY DEF NewRow
<1>5. row.completion <=> FALSE
  BY <1>4, Zenon
<1> HIDE DEF row, p
<1>6. /\ Ids' = Ids \cup {n} /\ n \notin Ids /\ n # None
      /\ \A id \in Ids : id < n
      /\ message'[n] = row
      /\ RowsKept(r) /\ KeptFor(r) /\ ErrsKept(r)
      /\ writes'[r] = {}
      /\ \A q \in Requests \ {r} : writes'[q] = writes[q] /\ errs'[q] = errs[q]
  BY <1>1, <1>2, InsertFacts
<1>7. OthersAlone(r)
  BY <1>2, <1>6 DEF Inv, TypeOK, OthersAlone
<1>8. /\ pc'[r] = "showing_reply" /\ chain'[r] = Append(chain[r], n) /\ reply'[r] = n
      /\ pc'[r] \in Making /\ pc'[r] \in Streaming /\ pc[r] \notin Making
  BY <1>2 DEF Inv, TypeOK, Making, Streaming
<1>9. chain[r] # <<>>
  BY <1>2 DEF Inv, RequestFits, PcFits, Streaming
<1>10. /\ \A i \in DOMAIN chain'[r] :
            \/ i \in DOMAIN chain[r] /\ chain'[r][i] = chain[r][i] /\ chain[r][i] < n
            \/ chain'[r][i] = n
       /\ \A id : InChain(r, id)' <=> InChain(r, id) \/ id = n
  BY <1>1, <1>8, AppendedChain
<1>11. StoredKept(r)
  BY <1>2, <1>6, SessionKept
<1>12. ReqSound(r)'
  BY <1>2, <1>6, <1>8, <1>11, ReqStays
<1>13. created[r] # None /\ created[r] \in Ids /\ created[r] < n
  BY <1>2, <1>6 DEF Sound, GeneratorSound, CreatedSound, Streaming
<1>14. CreatedSound(r)'
  <2>1. open'[r] \subseteq Ids'
    BY <1>2, <1>6 DEF Sound, GeneratorSound, CreatedSound
  <2>2. pc[r] \in Streaming \cup {"opening"}
    BY <1>2 DEF Streaming
  <2>3. created'[r] = created[r] /\ reply'[r] # None /\ chain'[r] = Append(chain[r], NewId)
    BY <1>1, <1>2, <1>6, <1>8
  <2> QED BY <1>6, <1>8, <1>9, <1>11, <2>1, <2>2, <2>3, CreatedStays
<1>15. ReplySound(r)'
  <2>1. n \in Nat /\ \A i \in DOMAIN chain[r] : chain[r][i] \in Ids /\ chain[r][i] \in Nat
    BY <1>1, ChainRows, IdsAreNumbers DEF Inv, TypeOK, MsgId
  <2>2. \A i \in DOMAIN chain'[r] : ~(chain'[r][i] > n)
    BY <1>10, <2>1
  <2>3. message'[n].role = "assistant" /\ message'[n].calls = <<>>
    BY <1>4, <1>6
  <2>4. ~message'[n].completion
    BY <1>5, <1>6, Zenon
  <2>5. ASSUME NEW i \in DOMAIN chain'[r], chain'[r][i] > created[r],
               message'[chain'[r][i]].role = "assistant"
        PROVE  HasReply(r, chain[r][i])'
    <3>1. CASE chain'[r][i] = n
      BY <1>8, <3>1 DEF HasReply
    <3>2. CASE i \in DOMAIN chain[r] /\ chain'[r][i] = chain[r][i]
      <4>0. PICK id : id = chain[r][i]
        OBVIOUS
      <4>1. id \in Ids /\ InChain(r, id) /\ message[id].role = "assistant"
        BY <1>6, <2>1, <2>5, <3>2, <4>0 DEF KeptFor, ColumnsKept, InChain
      <4>2. MadeBy(r, id) /\ HasReply(r, id)
        BY <1>13, <2>5, <3>2, <4>0, <4>1 DEF MadeBy, Sound, GeneratorSound, ReplySound
      <4>3. HasReply(r, id)'
        BY <1>2, <1>6, <1>8, <4>1, <4>2, HasReplyStays
      <4> QED BY <3>2, <4>0, <4>3 DEF HasReply
    <3> QED BY <1>10, <3>1, <3>2
  <2>6. /\ pc'[r] \in Streaming /\ created'[r] = created[r] /\ pc'[r] # "saving"
        /\ created[r] < n
    BY <1>2, <1>8, <1>13
  <2>7. \A i \in DOMAIN chain'[r] :
          chain'[r][i] > created'[r] /\ message'[chain'[r][i]].role = "assistant"
            => HasReply(r, chain[r][i])'
    BY <2>5, <2>6
  <2> QED BY <1>8, <2>2, <2>3, <2>4, <2>6, <2>7, Zenon DEF ReplySound
<1>16. TurnSound(r)'
  <2>1. step'[r] < req'[r].limit
    BY <1>2 DEF MayTurn
  <2> QED BY <1>6, <1>8, <2>1 DEF TurnSound, Settled
<1>17. WritesSound(r)'
  BY <1>6 DEF WritesSound
<1>18. ASSUME NEW id \in Ids, MadeBy(r, id)' PROVE MadeBy(r, id)
  BY <1>2, <1>6, <1>10, <1>18 DEF MadeBy
<1>19. RowSound(n)'
  BY <1>1, <1>2, <1>3, <1>4, <1>5, <1>6, AddedRowSound
<1> QED BY <1>6, <1>7, <1>12, <1>14, <1>15, <1>16, <1>17, <1>18, <1>19, SoundWithRow
        DEF GeneratorSound

\* The response to a server tool answers a call of the reply that has not been answered.
LEMMA CallToolSound ==
  ASSUME Inv, Sound, NEW r \in Requests, CallTool(r)
  PROVE  Sound'
<1> DEFINE p == reply[r]
           k == NextCall(r)
           row == [NewRow(r, "tool_call_result", p, message[p].private)
                     EXCEPT !.final = TRUE, !.answers = <<p, k>>, !.err = message[p].err]
<1>1. PICK n : n = NewId
  OBVIOUS
<1>2. /\ pc[r] = "calling" /\ Add(r, row)
      /\ chain' = [chain EXCEPT ![r] = Append(@, n)]
      /\ UNCHANGED <<completions, pc, req, parents, created, open, reply, heard, step>>
  BY <1>1 DEF CallTool, ResponseTo, Extend
<1>3. p # None /\ p \in Ids /\ message[p].role = "assistant" /\ message[p] \in Row
  <2>1. p # None /\ p \in Ids
    BY <1>2, ChainRows DEF Replying
  <2> QED BY <2>1, IdsAreNumbers DEF Inv, TypeOK, Sound, GeneratorSound, ReplySound
<1>4. k \in DOMAIN message[p].calls
  <2>1. Uncalled(r) \subseteq DOMAIN message[p].calls /\ Uncalled(r) # {}
    BY DEF Uncalled, CallTool
  <2>2. DOMAIN message[p].calls \subseteq Nat
    BY <1>3 DEF Row
  <2>3. k \in Uncalled(r)
    BY <2>1, <2>2, LeastExists DEF NextCall
  <2> QED BY <2>1, <2>3
<1>5. /\ row.role = "tool_call_result" /\ row.parent = p /\ row.calls = <<>>
      /\ row.root = IF p = None THEN NewId ELSE message[p].root
      /\ row.answers = <<p, k>> /\ row.completion = FALSE
  <2> HIDE DEF p, k
  <2> QED BY DEF NewRow
<1>6. row.completion <=> FALSE
  BY <1>5, Zenon
<1> HIDE DEF row, p, k
<1>7. /\ Ids' = Ids \cup {n} /\ n \notin Ids /\ n # None
      /\ \A id \in Ids : id < n
      /\ message'[n] = row
      /\ RowsKept(r) /\ KeptFor(r) /\ ErrsKept(r)
      /\ writes'[r] = {}
      /\ \A q \in Requests \ {r} : writes'[q] = writes[q] /\ errs'[q] = errs[q]
  BY <1>1, <1>2, InsertFacts
<1>8. OthersAlone(r)
  BY <1>2, <1>7 DEF Inv, TypeOK, OthersAlone
<1>9. /\ pc'[r] = "calling" /\ chain'[r] = Append(chain[r], n) /\ reply'[r] = reply[r]
      /\ pc[r] \notin Making /\ pc[r] \in Streaming
  BY <1>2 DEF Inv, TypeOK, Making, Streaming
<1>10. chain[r] # <<>> /\ reply[r] # None
  BY <1>3, <1>9 DEF Inv, RequestFits, PcFits, p
<1>11. /\ \A i \in DOMAIN chain'[r] :
            \/ i \in DOMAIN chain[r] /\ chain'[r][i] = chain[r][i] /\ chain[r][i] < n
            \/ chain'[r][i] = n
       /\ \A id : InChain(r, id)' <=> InChain(r, id) \/ id = n
  BY <1>1, <1>9, AppendedChain
<1>12. StoredKept(r)
  BY <1>2, <1>7, SessionKept
<1>13. ReqSound(r)'
  BY <1>2, <1>7, <1>9, <1>12, ReqStays
<1>14. created[r] # None /\ created[r] \in Ids
  BY <1>9 DEF Sound, GeneratorSound, CreatedSound
<1>15. CreatedSound(r)'
  <2>1. open'[r] \subseteq Ids'
    BY <1>2, <1>7 DEF Sound, GeneratorSound, CreatedSound
  <2>2. created'[r] = created[r] /\ reply'[r] # None /\ chain'[r] = Append(chain[r], NewId)
    BY <1>1, <1>2, <1>9, <1>10
  <2> QED BY <1>2, <1>7, <1>9, <1>10, <1>12, <2>1, <2>2, CreatedStays
<1>16. ReplySound(r)'
  <2>1. \A i \in DOMAIN chain[r] : chain[r][i] \in Ids
    BY ChainRows
  <2>2. message'[n].role = "tool_call_result"
    BY <1>5, <1>7
  <2>3. \A id \in Ids : message'[id].role = message[id].role
    BY <1>7 DEF KeptFor, ColumnsKept
  <2>4. /\ created[r] < reply[r]
        /\ \A i \in DOMAIN chain[r] :
             chain[r][i] > reply[r] => message[chain[r][i]].role = "tool_call_result"
        /\ \A i \in DOMAIN chain[r] :
             chain[r][i] > created[r] /\ message[chain[r][i]].role = "assistant"
               => HasReply(r, chain[r][i])
    BY <1>10, <1>14 DEF Sound, GeneratorSound, ReplySound
  <2>5. message'[reply[r]].role = "assistant"
    BY <1>3, <2>3 DEF p
  <2>6. \A i \in DOMAIN chain'[r] :
          chain'[r][i] > reply[r] => message'[chain'[r][i]].role = "tool_call_result"
    BY <1>11, <2>1, <2>2, <2>3, <2>4
  <2>7. ASSUME NEW i \in DOMAIN chain'[r], chain'[r][i] > created[r],
               message'[chain'[r][i]].role = "assistant"
        PROVE  HasReply(r, chain[r][i])'
    <3>1. i \in DOMAIN chain[r] /\ chain'[r][i] = chain[r][i]
      BY <1>11, <2>2, <2>7
    <3>0. PICK id : id = chain[r][i]
      OBVIOUS
    <3>2. id \in Ids /\ InChain(r, id) /\ message[id].role = "assistant"
      BY <2>1, <2>3, <2>7, <3>0, <3>1 DEF InChain
    <3>3. MadeBy(r, id) /\ HasReply(r, id)
      BY <1>14, <2>4, <2>7, <3>0, <3>1, <3>2 DEF MadeBy
    <3>4. HasReply(r, id)'
      BY <1>2, <1>7, <1>9, <3>2, <3>3, HasReplyStays
    <3> QED BY <3>0, <3>1, <3>4 DEF HasReply
  <2>8. pc'[r] \notin Making /\ pc'[r] # "saving" /\ created'[r] = created[r]
    BY <1>2, <1>9
  <2> QED BY <1>2, <1>9, <2>4, <2>5, <2>6, <2>7, <2>8, Zenon DEF ReplySound
<1>17. TurnSound(r)'
  <2>1. step[r] < req[r].limit
    BY <1>2 DEF Sound, GeneratorSound, TurnSound, Replying
  <2> QED BY <1>2, <1>9, <1>10, <2>1 DEF TurnSound, Settled
<1>18. WritesSound(r)'
  BY <1>7 DEF WritesSound
<1>19. ASSUME NEW id \in Ids, MadeBy(r, id)' PROVE MadeBy(r, id)
  BY <1>2, <1>7, <1>11, <1>19 DEF MadeBy
<1>20. RowSound(n)'
  <2>1. /\ row.parent \in Ids
        /\ message[row.parent].role # row.role
    BY <1>3, <1>5
  <2>2. /\ row.answers[1] \in Ids
        /\ message[row.answers[1]].root = row.root
        /\ row.answers[2] \in DOMAIN message[row.answers[1]].calls
    BY <1>3, <1>4, <1>5
  <2>3. row.role # "system" /\ row.calls = <<>> /\ pc[r] # "saving"
    BY <1>2, <1>5
  <2> QED BY <1>1, <1>6, <1>7, <2>1, <2>2, <2>3, AddedRowSound
<1> QED BY <1>7, <1>8, <1>13, <1>15, <1>16, <1>17, <1>18, <1>19, <1>20, SoundWithRow
        DEF GeneratorSound

-----------------------------------------------------------------------------
(***************************************************************************)
(* The steps that store what the request has made.                         *)
(***************************************************************************)
\* Storing the reply turns the empty row into the reply that was promised.
LEMMA SaveReplyKept ==
  ASSUME Inv, Sound, NEW r \in Requests, SaveReply(r)
  PROVE  /\ Ids' = Ids
         /\ message'[reply[r]].final
         /\ message'[reply[r]].completion <=> req[r].client \notin Anonymous
         /\ RowsKept(r)
         /\ Emptied(r)
         /\ \A m \in Ids : m \in errs[r] => message'[m].err
<1>1. PICK a : a = reply[r]
  OBVIOUS
<1>2. PICK c \in BOOLEAN : c <=> req[r].client \notin Anonymous
  OBVIOUS
<1>3. /\ pc[r] = "saving" /\ pc' = [pc EXCEPT ![r] = "calling"]
      /\ UNCHANGED <<completions, loaded, req, parents, chain, created, open, reply, step>>
  BY DEF SaveReply, Goto
<1>4. Update(r, a, heard[r], c)
  <2>1. (req[r].client \notin Anonymous) = c
    BY <1>2
  <2> QED BY <1>1, <2>1 DEF SaveReply
<1>5. a # None /\ a \in Ids
  BY <1>1, <1>3, ChainRows DEF Replying
<1>6. /\ Saves(r, a) /\ \A m \in Ids : Saves(r, m) => m = a
      /\ c => a \in completions
  BY <1>1, <1>2, <1>3 DEF Saves, Sound, GeneratorSound, ReplySound
<1>7. /\ Ids' = Ids
      /\ message'[a].final
      /\ message'[a].completion <=> c
      /\ RowsKept(r)
      /\ Emptied(r)
      /\ \A m \in Ids : m \in errs[r] => message'[m].err
  <2>1. IF Saves(r, a) THEN c => a \in completions
        ELSE message[a].calls = heard[r] /\ (message[a].completion <=> c)
    BY <1>6, Zenon
  <2>2. completions' = completions
    BY <1>3
  <2>3. PICK calls : calls = heard[r]
    OBVIOUS
  <2>4. /\ Update(r, a, calls, c)
        /\ IF Saves(r, a) THEN c => a \in completions
           ELSE message[a].calls = calls /\ (message[a].completion <=> c)
    BY <1>4, <2>1, <2>3
  <2> QED BY <1>5, <1>6, <2>2, <2>4, UpdateKept
<1>8. message'[a].completion <=> req[r].client \notin Anonymous
  BY <1>2, <1>7, Zenon
<1> QED BY <1>1, <1>7, <1>8, Zenon

\* The reply that is stored is the one that every place of the stream promises.
LEMMA SaveReplySound ==
  ASSUME Inv, Sound, NEW r \in Requests, SaveReply(r)
  PROVE  Sound'
<1>1. PICK a : a = reply[r]
  OBVIOUS
<1>3. /\ pc[r] = "saving" /\ pc' = [pc EXCEPT ![r] = "calling"]
      /\ UNCHANGED <<completions, loaded, req, parents, chain, created, open, reply, step>>
  BY DEF SaveReply, Goto
<1>5. a # None /\ a \in Ids
  BY <1>1, <1>3, ChainRows DEF Replying
<1>6. \A m \in Ids : Saves(r, m) => m = a
  BY <1>1 DEF Saves
<1>7. /\ Ids' = Ids
      /\ message'[a].final
      /\ message'[a].completion <=> req[r].client \notin Anonymous
      /\ RowsKept(r)
      /\ Emptied(r)
      /\ \A m \in Ids : m \in errs[r] => message'[m].err
  BY <1>1, SaveReplyKept, Zenon
<1>8. OthersAlone(r) /\ writes'[r] = {}
  BY <1>3, <1>7 DEF Emptied, Inv, TypeOK, OthersAlone
<1>9. pc'[r] = "calling" /\ pc'[r] \notin Making /\ pc[r] \in Streaming
  BY <1>3 DEF Inv, TypeOK, Making, Streaming
<1>10. \A id \in Ids : ColumnsKept(id)
  BY <1>7 DEF RowsKept
<1>11. \A id \in Ids : Stored(r, id) => Stored(r, id)'
  BY <1>3, <1>10 DEF ColumnsKept, Stored
<1>12. ReqSound(r)'
  <2>1. req[r].parent # None => req[r].parent \in Ids /\ RootOf(req[r].parent) \in Ids
    BY ChainRows
  <2>2. req[r].parent # None => RootOf(req[r].parent)' = RootOf(req[r].parent)
    BY <1>3, <1>10, <2>1 DEF RootOf, ColumnsKept
  <2>3. req[r].parent # None => Stored(r, RootOf(req[r].parent))'
    BY <1>3, <1>11, <2>1, <2>2 DEF Sound, GeneratorSound, ReqSound, Stored
  <2>4. req[r].parent # None =>
          \/ message'[req[r].parent].role = "tool_call_result"
          \/ message'[req[r].parent].role # req[r].role
    BY <1>10, <2>1 DEF Sound, GeneratorSound, ReqSound, ColumnsKept
  <2> QED BY <1>3, <1>9, <2>3, <2>4 DEF ReqSound
<1>13. /\ created[r] # None /\ created[r] \in Ids /\ created[r] < a
       /\ message[created[r]].role \in {"user", "tool_call_result"}
       /\ Stored(r, created[r])
  BY <1>1, <1>5, <1>9 DEF Sound, GeneratorSound, CreatedSound, ReplySound
<1>14. CreatedSound(r)'
  <2>1. open'[r] \subseteq Ids'
    BY <1>3, <1>7 DEF Sound, GeneratorSound, CreatedSound
  <2>2. message'[created[r]].role \in {"user", "tool_call_result"} /\ Stored(r, created[r])'
    BY <1>3, <1>10, <1>11, <1>13 DEF ColumnsKept, Stored
  <2>3. chain[r] # <<>> /\ message'[chain[r][1]].role = "system" => Stored(r, chain[r][1])'
    <3>1. SUFFICES ASSUME chain[r] # <<>>, message'[chain[r][1]].role = "system"
                   PROVE  Stored(r, chain[r][1])'
      OBVIOUS
    <3>2. chain[r][1] \in Ids
      BY <3>1, ChainRows
    <3>3. message[chain[r][1]].role = "system"
      BY <1>10, <3>1, <3>2 DEF ColumnsKept
    <3> QED BY <1>3, <1>11, <3>1, <3>2, <3>3
            DEF Sound, GeneratorSound, CreatedSound, Stored
  <2>4. reply'[r] # None /\ created'[r] = created[r] /\ chain'[r] = chain[r]
    BY <1>1, <1>3, <1>5
  <2> QED BY <1>7, <1>9, <1>13, <2>1, <2>2, <2>3, <2>4 DEF CreatedSound
<1>15. ReplySound(r)'
  <2>1. \A i \in DOMAIN chain[r] : chain[r][i] \in Ids
    BY ChainRows
  <2>2. \A id \in Ids : message'[id].role = message[id].role
    BY <1>10 DEF ColumnsKept
  <2>3. /\ message[a].role = "assistant"
        /\ \A i \in DOMAIN chain[r] :
             chain[r][i] > a => message[chain[r][i]].role = "tool_call_result"
        /\ \A i \in DOMAIN chain[r] :
             chain[r][i] > created[r] /\ message[chain[r][i]].role = "assistant"
               => HasReply(r, chain[r][i])
    BY <1>1, <1>5, <1>13 DEF Sound, GeneratorSound, ReplySound
  <2>4. message'[a].role = "assistant"
    BY <1>5, <2>2, <2>3
  <2>5. \A i \in DOMAIN chain[r] :
          chain[r][i] > a => message'[chain[r][i]].role = "tool_call_result"
    BY <2>1, <2>2, <2>3
  <2>6. ASSUME NEW i \in DOMAIN chain[r], chain[r][i] > created[r],
               message'[chain[r][i]].role = "assistant"
        PROVE  HasReply(r, chain[r][i])'
    <3>1. PICK id : id = chain[r][i]
      OBVIOUS
    <3>2. id \in Ids /\ HasReply(r, id)
      BY <2>1, <2>2, <2>3, <2>6, <3>1
    <3>3. CASE id = a
      <4>1. message'[a].completion <=> req[r].client \notin Anonymous
        BY <1>7, Zenon
      <4>2. chain'[r][i] = a /\ req'[r] = req[r]
        BY <1>3, <3>1, <3>3
      <4>3. /\ message'[chain'[r][i]].final
            /\ message'[chain'[r][i]].completion <=> req'[r].client \notin Anonymous
        BY <1>7, <4>1, <4>2, Zenon
      <4> QED BY <4>3, Zenon DEF HasReply
    <3>4. CASE id # a
      <4>1. ColumnsKept(id) /\ (message'[id].completion <=> message[id].completion)
        BY <1>6, <1>7, <3>2, <3>4, Zenon DEF RowsKept, ReplyKept
      <4>2. CASE id \in errs[r] \/ message[id].err
        <5>1. message'[id].err /\ chain'[r][i] = id
          BY <1>3, <1>7, <3>1, <3>2, <4>1, <4>2, Zenon DEF ColumnsKept
        <5> QED BY <5>1, Zenon DEF HasReply
      <4>3. CASE message[id].final /\ (message[id].completion <=> req[r].client \notin Anonymous)
        BY <1>3, <3>1, <4>1, <4>3, Zenon DEF ColumnsKept, HasReply
      <4> QED BY <1>1, <3>2, <3>4, <4>2, <4>3 DEF HasReply
    <3> QED BY <3>3, <3>4
  <2>7. /\ chain'[r] = chain[r] /\ reply'[r] = a /\ created'[r] = created[r]
        /\ pc'[r] \in Streaming /\ pc'[r] # "saving"
    BY <1>1, <1>3, <1>9 DEF Streaming
  <2> QED BY <1>9, <1>13, <2>4, <2>5, <2>6, <2>7 DEF ReplySound, HasReply
<1>16. TurnSound(r)'
  <2>1. step[r] < req[r].limit /\ reply'[r] # None
    BY <1>1, <1>3, <1>5 DEF Sound, GeneratorSound, TurnSound, Replying
  <2> QED BY <1>3, <1>9, <2>1 DEF TurnSound, Settled
<1>17. WritesSound(r)'
  BY <1>8 DEF WritesSound
<1>18. \A id \in Ids : MadeBy(r, id)' => MadeBy(r, id)
  BY <1>3 DEF MadeBy, InChain
<1> QED BY <1>7, <1>8, <1>12, <1>14, <1>15, <1>16, <1>17, <1>18, SoundWithoutRow
        DEF GeneratorSound

\* Finalizing a message that is not a reply keeps the rows.
LEMMA FinalizeKept ==
  ASSUME Inv, Sound, NEW r \in Requests, NEW id \in Ids, message[id].role # "assistant",
         Update(r, id, <<>>, FALSE), completions' = completions, pc[r] # "saving"
  PROVE  /\ Ids' = Ids
         /\ message'[id].final
         /\ RowsKept(r)
         /\ Emptied(r)
         /\ \A m \in Ids : m \in errs[r] => message'[m].err
<1>1. message[id].calls = <<>> /\ (message[id].completion <=> FALSE)
  BY Zenon DEF Sound, TableSound, RowSound
<1>2. \A m : ~Saves(r, m)
  BY DEF Saves
<1>3. FALSE \in BOOLEAN
  OBVIOUS
<1> QED BY <1>1, <1>2, <1>3, UpdateKept, Zenon

\* The messages that a stream finalizes are the system message and its own.
LEMMA FinalizeMessageKept ==
  ASSUME Inv, Sound, NEW r \in Requests, FinalizeSystem(r) \/ FinalizeCreated(r)
  PROVE  RowsKept(r) /\ Emptied(r)
<1>1. /\ completions' = completions /\ pc[r] \in {"calling", "closing_pending"}
      /\ pc[r] # "saving"
  BY DEF FinalizeSystem, FinalizeCreated, Finalizing
<1>2. CASE FinalizeSystem(r)
  <2>1. chain[r] # <<>>
    BY <1>1 DEF Inv, RequestFits, PcFits, Streaming
  <2>2. chain[r][1] \in Ids /\ message[chain[r][1]].role # "assistant"
    BY <1>2, <2>1, ChainRows DEF FinalizeSystem, OpenSystem
  <2>3. Update(r, chain[r][1], <<>>, FALSE)
    BY <1>2 DEF FinalizeSystem
  <2> QED BY <1>1, <2>2, <2>3, FinalizeKept
<1>3. CASE FinalizeCreated(r)
  <2>1. created[r] \in Ids /\ message[created[r]].role # "assistant"
    BY <1>1 DEF Sound, GeneratorSound, CreatedSound, Streaming
  <2>2. Update(r, created[r], <<>>, FALSE)
    BY <1>3 DEF FinalizeCreated
  <2> QED BY <1>1, <2>1, <2>2, FinalizeKept
<1> QED BY <1>2, <1>3

\* Finalizing a message of the chain that is not a reply.
LEMMA FinalizeSound ==
  ASSUME Inv, Sound, NEW r \in Requests, NEW id \in Ids, message[id].role # "assistant",
         Update(r, id, <<>>, FALSE), open' = [open EXCEPT ![r] = @ \ {id}],
         pc[r] \in {"calling", "closing_pending"},
         NEW where \in {"calling", "closing_pending", "showing_turn", "ending"},
         pc' = [pc EXCEPT ![r] = where],
         UNCHANGED <<completions, req, chain, created, reply, step>>,
         KeptFor(r) /\ message'[id].final => TurnSound(r)'
  PROVE  Sound'
<1>3. /\ Ids' = Ids
      /\ message'[id].final
      /\ RowsKept(r)
      /\ Emptied(r)
      /\ \A m \in Ids : m \in errs[r] => message'[m].err
  BY FinalizeKept
<1>4. KeptFor(r) /\ ErrsKept(r)
  BY <1>3, KeptForOthers DEF ErrsKept
<1>5. OthersAlone(r) /\ writes'[r] = {} /\ pc'[r] = where
  BY <1>3 DEF Emptied, Inv, TypeOK, OthersAlone
<1>6. open'[r] = open[r] \ {id}
  BY DEF Inv, TypeOK
<1>7. StoredKept(r)
  BY <1>3, <1>4, <1>6 DEF StoredKept, Stored, KeptFor, ColumnsKept
<1>8. /\ pc[r] \in Streaming /\ pc'[r] \in Streaming
      /\ pc[r] \notin Making /\ pc'[r] \notin Making /\ pc'[r] # "saving"
      /\ pc'[r] \notin {"climbing", "chained"}
  BY <1>5 DEF Streaming, Making
<1>9. ReqSound(r)'
  BY <1>4, <1>7, <1>8, ReqStays
<1>10. CreatedSound(r)'
  <2>1. open'[r] \subseteq Ids'
    BY <1>3, <1>6 DEF Sound, GeneratorSound, CreatedSound
  <2> QED BY <1>4, <1>7, <1>8, <2>1, CreatedStays
<1>11. ReplySound(r)'
  BY <1>4, <1>8, ReplyStays
<1>12. TurnSound(r)'
  BY <1>3, <1>4
<1>13. WritesSound(r)'
  BY <1>5 DEF WritesSound
<1>14. \A m \in Ids : MadeBy(r, m)' => MadeBy(r, m)
  BY DEF MadeBy, InChain
<1> QED BY <1>3, <1>5, <1>9, <1>10, <1>11, <1>12, <1>13, <1>14, SoundWithoutRow
        DEF GeneratorSound

\* The system message of the thread is made final, the place stays.
LEMMA FinalizeSystemSound ==
  ASSUME Inv, Sound, NEW r \in Requests, FinalizeSystem(r)
  PROVE  Sound'
<1>1. PICK id : id = chain[r][1]
  OBVIOUS
<1>2. /\ Finalizing(r) /\ OpenSystem(r)
      /\ Update(r, id, <<>>, FALSE) /\ open' = [open EXCEPT ![r] = @ \ {id}]
      /\ UNCHANGED <<completions, pc, req, chain, created, reply, step>>
  BY <1>1 DEF FinalizeSystem
<1>3. pc[r] \in {"calling", "closing_pending"}
  BY <1>2 DEF Finalizing
<1>4. id \in Ids /\ message[id].role # "assistant"
  <2>1. chain[r] # <<>>
    BY <1>3 DEF Inv, RequestFits, PcFits, Streaming
  <2> QED BY <1>1, <1>2, <2>1, ChainRows DEF OpenSystem
<1>5. pc' = [pc EXCEPT ![r] = pc[r]]
  BY <1>2 DEF Inv, TypeOK
<1>6. KeptFor(r) => TurnSound(r)'
  BY <1>2, TurnStays
<1> QED BY <1>2, <1>3, <1>4, <1>5, <1>6, FinalizeSound

\* Then the message of the request is made final, and with it all that was open.
LEMMA FinalizeCreatedSound ==
  ASSUME Inv, Sound, NEW r \in Requests, FinalizeCreated(r)
  PROVE  Sound'
<1>1. PICK id : id = created[r]
  OBVIOUS
<1>2. /\ Finalizing(r) /\ ~OpenSystem(r) /\ id \in open[r]
      /\ Update(r, id, <<>>, FALSE) /\ open' = [open EXCEPT ![r] = @ \ {id}]
      /\ UNCHANGED <<completions, req, chain, created, reply, step>>
  BY <1>1 DEF FinalizeCreated
<1>3. PICK where \in {"calling", "closing_pending", "showing_turn", "ending"} :
        /\ pc' = [pc EXCEPT ![r] = where]
        /\ \/ pc[r] = "calling" /\ Uncalled(r) = {} /\ where = "showing_turn"
           \/ pc[r] = "closing_pending" /\ where = "ending"
  BY DEF FinalizeCreated, Finalizing, AfterFinalize, Goto
<1>4. pc'[r] = where
  BY <1>3 DEF Inv, TypeOK
<1>5. id \in Ids /\ message[id].role # "assistant"
  BY <1>1, <1>2, <1>3 DEF Sound, GeneratorSound, CreatedSound, Streaming
<1>6. ASSUME KeptFor(r), message'[id].final PROVE TurnSound(r)'
  <2>1. message'[created[r]].final
    BY <1>1, <1>6
  <2>2. message'[chain[r][1]].role = "system" => message'[chain[r][1]].final
    <3>1. chain[r] # <<>>
      BY <1>3 DEF Inv, RequestFits, PcFits, Streaming
    <3>2. chain[r][1] \in Ids
      BY <3>1, ChainRows
    <3>3. message[chain[r][1]].role = "system" => message[chain[r][1]].final
      BY <1>2, <3>1 DEF OpenSystem, Sound, GeneratorSound, CreatedSound, Stored
    <3> QED BY <1>6, <3>2, <3>3 DEF KeptFor, ColumnsKept
  <2>3. CASE pc[r] = "calling"
    <3>1. reply[r] # None /\ step[r] < req[r].limit
      BY <2>3, ChainRows DEF Sound, GeneratorSound, TurnSound, Replying
    <3>2. Uncalled(r)' = {}
      BY <1>2, <1>3, <1>6, <2>3, <3>1, UncalledStays
    <3> QED BY <1>2, <1>3, <1>4, <2>1, <2>2, <2>3, <3>1, <3>2 DEF TurnSound
  <2>4. CASE pc[r] = "closing_pending"
    <3>1. reply[r] = None => step[r] = 0
      BY DEF Sound, GeneratorSound, TurnSound
    <3> QED BY <1>2, <1>3, <1>4, <2>1, <2>2, <2>4, <3>1 DEF TurnSound, Replying
  <2> QED BY <1>3, <2>3, <2>4
<1> QED BY <1>2, <1>3, <1>5, <1>6, FinalizeSound

\* An error of the model is kept in the session, and the turn goes on without a reply.
LEMMA StreamErrorChunkSound ==
  ASSUME Inv, Sound, NEW r \in Requests, StreamErrorChunk(r)
  PROVE  Sound'
<1>1. /\ pc[r] = "inferring" /\ pc' = [pc EXCEPT ![r] = "calling"]
      /\ errs' = [errs EXCEPT ![r] = @ \cup {reply[r]}]
      /\ UNCHANGED <<message, completions, writes, req, chain, created, open, reply, step>>
  BY DEF StreamErrorChunk, Goto, local
<1>2. Ids' = Ids /\ RowsKept(r) /\ KeptFor(r)
  BY <1>1, KeptForAll DEF Ids
<1>3. OthersAlone(r)
  BY <1>1 DEF Inv, TypeOK, StoreTypeOK, OthersAlone
<1>4. /\ pc'[r] = "calling" /\ pc[r] \in Streaming /\ pc'[r] \notin Making
      /\ errs'[r] = errs[r] \cup {reply[r]}
  BY <1>1 DEF Inv, TypeOK, StoreTypeOK, Streaming, Making
<1>5. StoredKept(r)
  BY <1>1, <1>2, SessionKept
<1>6. ReqSound(r)'
  BY <1>1, <1>2, <1>4, <1>5, ReqStays
<1>7. CreatedSound(r)'
  <2>1. open'[r] \subseteq Ids' /\ pc'[r] \in Streaming
    BY <1>1, <1>2, <1>4 DEF Sound, GeneratorSound, CreatedSound, Streaming
  <2> QED BY <1>1, <1>2, <1>4, <1>5, <2>1, CreatedStays
<1>8. reply[r] # None
  BY <1>1, ChainRows DEF Replying
<1>9. ReplySound(r)'
  <2>1. ASSUME NEW i \in DOMAIN chain[r], HasReply(r, chain[r][i])
        PROVE  HasReply(r, chain[r][i])'
    BY <1>1, <1>4, <2>1 DEF HasReply
  <2> QED BY <1>1, <1>4, <2>1 DEF Sound, GeneratorSound, ReplySound, Streaming
<1>10. TurnSound(r)'
  BY <1>1, <1>4, <1>8 DEF Sound, GeneratorSound, TurnSound, Replying, Settled
<1>11. WritesSound(r)'
  BY <1>1, <1>2, WritesStay
<1>12. \A id \in Ids : MadeBy(r, id)' => MadeBy(r, id)
  BY <1>1 DEF MadeBy, InChain
<1> QED BY <1>2, <1>3, <1>6, <1>7, <1>9, <1>10, <1>11, <1>12, SoundWithoutRow
        DEF GeneratorSound

\* The completion is committed before the reply that refers to it.
LEMMA RespondSound ==
  ASSUME Inv, Sound, NEW r \in Requests, Respond(r)
  PROVE  Sound'
<1>1. /\ pc[r] = "inferring" /\ pc' = [pc EXCEPT ![r] = "saving"]
      /\ completions' = completions \cup CompletionFor(r)
      /\ UNCHANGED <<message, writes, errs, req, chain, created, open, reply, step>>
  BY DEF Respond, Goto
<1>2. Ids' = Ids /\ RowsKept(r) /\ KeptFor(r)
  BY <1>1, KeptForAll DEF Ids
<1>3. OthersAlone(r)
  BY <1>1 DEF Inv, TypeOK, StoreTypeOK, OthersAlone
<1>4. pc'[r] = "saving" /\ pc[r] \in Streaming /\ pc'[r] \in Streaming
      /\ pc[r] \in Making /\ pc'[r] \in Making
  BY <1>1 DEF Inv, TypeOK, Streaming, Making
<1>5. StoredKept(r) /\ ErrsKept(r)
  BY <1>1, <1>2, SessionKept DEF ErrsKept
<1>6. ReqSound(r)'
  BY <1>1, <1>2, <1>4, <1>5, ReqStays
<1>7. CreatedSound(r)'
  <2>1. open'[r] \subseteq Ids'
    BY <1>1, <1>2 DEF Sound, GeneratorSound, CreatedSound
  <2> QED BY <1>1, <1>2, <1>4, <1>5, <2>1, CreatedStays
<1>8. reply[r] # None
  BY <1>1, ChainRows DEF Replying
<1>9. ReplySound(r)'
  <2>1. req[r].client \notin Anonymous => reply[r] \in completions'
    BY <1>1 DEF CompletionFor
  <2> QED BY <1>1, <1>2, <1>4, <1>5, <2>1, ReplyStays
<1>10. TurnSound(r)'
  BY <1>1, <1>4, <1>8 DEF Sound, GeneratorSound, TurnSound, Replying, Settled
<1>11. WritesSound(r)'
  BY <1>1, <1>2, WritesStay
<1>12. \A id \in Ids : MadeBy(r, id)' => MadeBy(r, id)
  BY <1>1 DEF MadeBy, InChain
<1> QED BY <1>2, <1>3, <1>6, <1>7, <1>9, <1>10, <1>11, <1>12, SoundWithoutRow
        DEF GeneratorSound

\* A repair relinks tool responses under tool responses, or drops a link.
LEMMA RepairChildrenSound ==
  ASSUME Inv, Sound, NEW r \in Requests, RepairChildren(r)
  PROVE  Sound'
<1> DEFINE i == RepairNext(r)
           m == chain[r][i]
           next == Successor(r, i)
           relink == Relinked(r, i)
           dropped == StoredChildren(r, m) \ (next \cup relink)
           updates == {<<c, None>> : c \in dropped} \cup {<<c, m>> : c \in relink}
<1>1. /\ writes' = [writes EXCEPT ![r] = @ \cup updates]
      /\ UNCHANGED <<message, completions, errs, pc, req, chain, created, open, reply, step>>
      /\ pc[r] \in Showing
  BY DEF RepairChildren, AssignChildren, local
<1>2. pc[r] # "saving"
  BY <1>1 DEF Showing
<1>3. Ids' = Ids /\ RowsKept(r) /\ KeptFor(r)
  BY <1>1, <1>2, KeptForAll DEF Ids
<1>4. writes'[r] = writes[r] \cup updates
  BY <1>1 DEF Inv, TypeOK, StoreTypeOK
<1>5. ASSUME NEW w \in updates PROVE w[2] # None => message[w[2]].role = "tool_call_result"
  BY DEF Relinked
<1> HIDE DEF updates
<1>6. OthersAlone(r)
  BY <1>1 DEF Inv, TypeOK, StoreTypeOK, OthersAlone
<1>7. StoredKept(r) /\ ErrsKept(r)
  BY <1>1, <1>3, SessionKept DEF ErrsKept
<1>8. ReqSound(r)'
  BY <1>1, <1>3, <1>7, ReqStays
<1>9. CreatedSound(r)'
  <2>1. open'[r] \subseteq Ids'
    BY <1>1, <1>3 DEF Sound, GeneratorSound, CreatedSound
  <2> QED BY <1>1, <1>3, <1>7, <2>1, CreatedStays
<1>10. ReplySound(r)'
  BY <1>1, <1>2, <1>3, <1>7, ReplyStays
<1>11. TurnSound(r)'
  BY <1>1, <1>3, TurnStays
<1>12. WritesSound(r)'
  BY <1>1, <1>3, <1>4, <1>5 DEF Sound, GeneratorSound, WritesSound
<1>13. \A id \in Ids : MadeBy(r, id)' => MadeBy(r, id)
  BY <1>1 DEF MadeBy, InChain
<1> QED BY <1>3, <1>6, <1>8, <1>9, <1>10, <1>11, <1>12, <1>13, SoundWithoutRow
        DEF GeneratorSound

-----------------------------------------------------------------------------
(***************************************************************************)
(* The theorems.                                                           *)
(***************************************************************************)
\* Nothing has been stored and nobody has asked.
LEMMA InitSound == Init => Sound
<1> SUFFICES ASSUME Init PROVE Sound
  OBVIOUS
<1>1. Ids = {}
  BY DEF Init, StoreInit, Ids
<1>2. ASSUME NEW r \in Requests
      PROVE  /\ pc[r] = "idle" /\ req[r].parent = None /\ chain[r] = <<>> /\ created[r] = None
             /\ open[r] = {} /\ reply[r] = None /\ step[r] = 0 /\ writes[r] = {}
  BY DEF Init, StoreInit, NoRequest
<1>3. ASSUME NEW r \in Requests PROVE GeneratorSound(r)
  <2>1. ReqSound(r)
    BY <1>2 DEF ReqSound
  <2>2. CreatedSound(r)
    BY <1>2 DEF CreatedSound, Streaming
  <2>3. ReplySound(r) /\ TurnSound(r)
    BY <1>2 DEF ReplySound, TurnSound, Making, Replying, Settled
  <2>4. WritesSound(r)
    BY <1>2 DEF WritesSound
  <2> QED BY <2>1, <2>2, <2>3, <2>4 DEF GeneratorSound
<1> QED BY <1>1, <1>3 DEF Sound, TableSound, OneMaker

\* A step in which nothing happens keeps what holds.
LEMMA StutterSound ==
  ASSUME Inv, Sound, UNCHANGED vars
  PROVE  Sound'
<1>1. /\ UNCHANGED <<message, completions, writes, errs, pc, req, chain, created, open,
                     reply, step>>
      /\ Ids' = Ids
  BY DEF vars, storeVars, local, Ids
<1>2. \A q \in Requests : KeptFor(q)
  BY <1>1, Zenon DEF KeptFor, ColumnsKept
<1>3. ASSUME NEW q \in Requests PROVE GeneratorSound(q)'
  <2>1. StoredKept(q) /\ ErrsKept(q)
    BY <1>1, <1>2, SessionKept DEF ErrsKept
  <2>2. open'[q] \subseteq Ids'
    BY <1>1 DEF Sound, GeneratorSound, CreatedSound
  <2>3. ReqSound(q)'
    BY <1>1, <1>2, <2>1, ReqStays
  <2>4. CreatedSound(q)'
    BY <1>1, <1>2, <2>1, <2>2, CreatedStays
  <2>5. ReplySound(q)'
    BY <1>1, <1>2, <2>1, ReplyStays
  <2>6. TurnSound(q)'
    BY <1>1, <1>2, TurnStays
  <2>7. WritesSound(q)'
    BY <1>1, <1>2, WritesStay
  <2> QED BY <2>3, <2>4, <2>5, <2>6, <2>7 DEF GeneratorSound
<1>4. TableSound'
  BY <1>1, Zenon DEF Sound, TableSound, RowSound, Alternates, AnswersCall
<1>5. OneMaker'
  BY <1>1 DEF Sound, OneMaker, MadeBy, InChain
<1> QED BY <1>3, <1>4, <1>5 DEF Sound

\* Every step keeps the rows and the requests sound.
LEMMA NextSound == Inv /\ Sound /\ [Next]_vars => Sound'
<1> SUFFICES ASSUME Inv, Sound, [Next]_vars PROVE Sound'
  OBVIOUS
<1>1. CASE UNCHANGED vars
  BY <1>1, StutterSound
<1>2. ASSUME NEW r \in Requests, Post(r) \/ Refuse(r) \/ Setup(r) PROVE Sound'
  BY <1>2, PostSound, EndingSound, SetupSystemMessageSound, ReadThreadSound, ClimbSound,
     CreateUserSound, CreateToolResponseSound, CreateAssistantSound,
     FinalizeAssistantSound DEF Setup
<1>3. ASSUME NEW r \in Requests, Generator(r) PROVE Sound'
  BY <1>3, MovesSound, AddReplySound, RepairChildrenSound, SaveReplySound, CallToolSound,
     FinalizeSystemSound, FinalizeCreatedSound, EndingSound DEF Generator
<1>4. ASSUME NEW r \in Requests, Inference(r) PROVE Sound'
  BY <1>4, StreamErrorChunkSound, EndingSound, RespondSound DEF Inference
<1>5. ASSUME NEW r \in Requests, Abort(r) \/ Deadlock(r) PROVE Sound'
  BY <1>5, EndingSound
<1> QED BY <1>1, <1>2, <1>3, <1>4, <1>5 DEF Next, Handler

\* The inductive invariant holds in every reachable state.
THEOREM SoundAlways == Spec => []Sound
<1>1. Spec => []Inv
  BY InvAlways
<1> QED BY <1>1, InitSound, NextSound, PTL DEF Spec

\* Every completion that a row names has been committed, in every instance: the
\* completion is stored before the reply, and a row gets one only with its reply.
THEOREM CompletionsAlwaysExist == Spec => []CompletionsExist
<1>1. Sound => CompletionsExist
  BY Zenon DEF Sound, TableSound, RowSound, CompletionsExist
<1> QED BY <1>1, SoundAlways, PTL

\* No message follows one of its own role, tool responses excepted: what
\* validation asks of requests the generator keeps for its replies and relinks.
THEOREM RolesAlwaysAlternate == Spec => []RolesAlternate
<1>1. Sound => RolesAlternate
  BY DEF Sound, TableSound, RowSound, Alternates, RolesAlternate
<1> QED BY <1>1, SoundAlways, PTL

\* Every tool response answers a call that an older message of its thread has made.
THEOREM ResponsesAlwaysAnswer == Spec => []ResponsesAnswerCalls
<1>1. Sound => ResponsesAnswerCalls
  BY DEF Sound, TableSound, RowSound, AnswersCall, ResponsesAnswerCalls
<1> QED BY <1>1, SoundAlways, PTL

\* What a stream has shown when its last item goes out is stored, in every instance:
\* the message of the request, the system message once a turn was made, and every
\* reply that has not failed, with its completion.
THEOREM StreamsAreDurable == Spec => []StreamIsDurable
<1>1. ASSUME Inv, Sound PROVE StreamIsDurable
  <2> SUFFICES ASSUME NEW r \in Requests, pc[r] = "ending"
               PROVE  /\ message[created[r]].final \/ (reply[r] = None /\ req[r].limit <= 0)
                      /\ message[chain[r][1]].role = "system" /\ reply[r] # None
                           => message[chain[r][1]].final
                      /\ \A i \in DOMAIN chain[r] :
                           LET m == chain[r][i] IN
                             m >= created[r] /\ message[m].role = "assistant"
                             /\ m \notin errs[r] /\ ~message[m].err =>
                               /\ message[m].final
                               /\ message[m].completion <=> req[r].client \notin Anonymous
    BY DEF StreamIsDurable
  <2>1. TurnSound(r) /\ CreatedSound(r) /\ ReplySound(r)
    BY <1>1 DEF Sound, GeneratorSound
  <2>2. message[created[r]].final \/ (reply[r] = None /\ req[r].limit <= 0)
    BY <2>1 DEF TurnSound
  <2>3. message[chain[r][1]].role = "system" /\ reply[r] # None
          => message[chain[r][1]].final
    BY <2>1 DEF TurnSound, Settled
  <2>4. ASSUME NEW i \in DOMAIN chain[r], NEW m, m = chain[r][i], m >= created[r],
               message[m].role = "assistant", m \notin errs[r], ~message[m].err
        PROVE  /\ message[m].final
               /\ message[m].completion <=> req[r].client \notin Anonymous
    <3>1. /\ created[r] # None /\ created[r] \in Ids
          /\ message[created[r]].role \in {"user", "tool_call_result"}
      BY <2>1 DEF CreatedSound, Streaming
    <3>2. m \in Nat /\ created[r] \in Nat
      BY <1>1, <2>4, <3>1, ChainRows, IdsAreNumbers DEF Inv, TypeOK, MsgId
    <3>3. m > created[r]
      BY <2>4, <3>1, <3>2
    <3>4. HasReply(r, m) /\ pc[r] \notin Making
      BY <2>1, <2>4, <3>1, <3>3 DEF ReplySound, Making
    <3> QED BY <2>4, <3>4, Zenon DEF HasReply
  <2> QED BY <2>2, <2>3, <2>4
<1> QED BY <1>1, InvAlways, SoundAlways, PTL

-----------------------------------------------------------------------------
(***************************************************************************)
(* The generator implements StreamProtocol: what the variables of the      *)
(* protocol are for one request, and how they step.                        *)
(***************************************************************************)
Same(r) == UNCHANGED <<Phase(r), Budget(r), Turns(r), Asked(r)>>

\* A step of one request is a step of the protocol or leaves it alone.
LEMMA StepMaps ==
  ASSUME NEW r \in Requests, \A q \in Requests \ {r} : Same(q),
         \/ Same(r)
         \/ /\ Phase(r) = "idle" /\ Phase(r)' = "open" /\ Budget(r)' \in Int
            /\ Turns(r)' = Turns(r) /\ Asked(r)' = Asked(r)
         \/ Phase(r) = "idle" /\ Phase(r)' = "closing"
         \/ /\ Phase(r) \in {"open", "between"} /\ Asked(r) = 0 /\ Turns(r) < Budget(r)
            /\ Phase(r)' = "turn" /\ Turns(r)' = Turns(r) + 1
            /\ Budget(r)' = Budget(r) /\ Asked(r)' = Asked(r)
         \/ /\ Phase(r) = "turn" /\ Asked(r) = 0 /\ Asked(r)' \in Nat \ {0}
            /\ Phase(r)' = Phase(r) /\ Budget(r)' = Budget(r) /\ Turns(r)' = Turns(r)
         \/ /\ Phase(r) = "turn" /\ Asked(r) > 0 /\ Asked(r)' = Asked(r) - 1
            /\ Phase(r)' = Phase(r) /\ Budget(r)' = Budget(r) /\ Turns(r)' = Turns(r)
         \/ /\ Phase(r) = "turn" /\ Asked(r) = 0 /\ Phase(r)' = "between"
            /\ Budget(r)' = Budget(r) /\ Turns(r)' = Turns(r) /\ Asked(r)' = Asked(r)
         \/ Phase(r) = "turn" /\ Phase(r)' = "closing"
         \/ Phase(r) \in {"open", "between"} /\ Turns(r) = Budget(r) /\ Phase(r)' = "limit"
         \/ Phase(r) = "open" /\ Budget(r) < 0 /\ Phase(r)' = "closing"
         \/ Phase(r) = "limit" /\ Phase(r)' = "closing"
         \/ Phase(r) # "closed" /\ Phase(r)' = "closed"
  PROVE  [Protocol!Next]_(Protocol!pvars)
<1>1. ASSUME NEW q \in Requests, q # r PROVE Same(q)
  BY <1>1
<1>2. Phase(r)' \in {"limit", "closing", "closed"}
        => Budget(r)' = 0 /\ Turns(r)' = 0 /\ Asked(r)' = 0
  BY DEF Budget, Turns, Asked
<1>3. ASSUME NEW p, NEW b, NEW t, NEW a,
             p = Phase(r)', b = Budget(r)', t = Turns(r)', a = Asked(r)'
      PROVE  /\ [q \in Requests |-> Phase(q)]' = [[q \in Requests |-> Phase(q)] EXCEPT ![r] = p]
             /\ [q \in Requests |-> Budget(q)]' = [[q \in Requests |-> Budget(q)] EXCEPT ![r] = b]
             /\ [q \in Requests |-> Turns(q)]' = [[q \in Requests |-> Turns(q)] EXCEPT ![r] = t]
             /\ [q \in Requests |-> Asked(q)]' = [[q \in Requests |-> Asked(q)] EXCEPT ![r] = a]
  BY <1>1, <1>3 DEF Same
<1>4. CASE Same(r)
  BY <1>1, <1>4 DEF Same, Protocol!pvars
<1>5. CASE /\ Phase(r) = "idle" /\ Phase(r)' = "open" /\ Budget(r)' \in Int
           /\ Turns(r)' = Turns(r) /\ Asked(r)' = Asked(r)
  <2>1. Protocol!Open(r)
    BY <1>3, <1>5 DEF Protocol!Open, Protocol!To
  <2> QED BY <2>1 DEF Protocol!Next
<1>6. CASE Phase(r) = "idle" /\ Phase(r)' = "closing"
  <2>1. Protocol!ShowPending(r)
    BY <1>2, <1>3, <1>6 DEF Protocol!ShowPending, Protocol!To, Protocol!Settle
  <2> QED BY <2>1 DEF Protocol!Next
<1>7. CASE /\ Phase(r) \in {"open", "between"} /\ Asked(r) = 0 /\ Turns(r) < Budget(r)
           /\ Phase(r)' = "turn" /\ Turns(r)' = Turns(r) + 1
           /\ Budget(r)' = Budget(r) /\ Asked(r)' = Asked(r)
  <2>1. Protocol!Turn(r)
    BY <1>1, <1>3, <1>7 DEF Protocol!Turn, Protocol!To, Same
  <2> QED BY <2>1 DEF Protocol!Next
<1>8. CASE /\ Phase(r) = "turn" /\ Asked(r) = 0 /\ Asked(r)' \in Nat \ {0}
           /\ Phase(r)' = Phase(r) /\ Budget(r)' = Budget(r) /\ Turns(r)' = Turns(r)
  <2> DEFINE asked == [q \in Requests |-> Asked(q)]
  <2>1. UNCHANGED <<[q \in Requests |-> Phase(q)], [q \in Requests |-> Budget(q)],
                    [q \in Requests |-> Turns(q)]>>
    BY <1>1, <1>8 DEF Same
  <2>2. asked[r] = 0 /\ asked'[r] \in Nat \ {0} /\ asked' = [asked EXCEPT ![r] = asked'[r]]
    BY <1>3, <1>8
  <2>3. [q \in Requests |-> Phase(q)][r] = "turn"
    BY <1>8
  <2>4. Protocol!Ask(r)
    BY <2>1, <2>2, <2>3 DEF Protocol!Ask
  <2> QED BY <2>4 DEF Protocol!Next
<1>9. CASE /\ Phase(r) = "turn" /\ Asked(r) > 0 /\ Asked(r)' = Asked(r) - 1
           /\ Phase(r)' = Phase(r) /\ Budget(r)' = Budget(r) /\ Turns(r)' = Turns(r)
  <2>1. Protocol!Answer(r)
    BY ZenonT(40), <1>1, <1>3, <1>9 DEF Protocol!Answer, Same
  <2> QED BY <2>1 DEF Protocol!Next
<1>10. CASE /\ Phase(r) = "turn" /\ Asked(r) = 0 /\ Phase(r)' = "between"
           /\ Budget(r)' = Budget(r) /\ Turns(r)' = Turns(r) /\ Asked(r)' = Asked(r)
  <2>1. Protocol!Continue(r)
    BY <1>1, <1>3, <1>10 DEF Protocol!Continue, Protocol!To, Same
  <2> QED BY <2>1 DEF Protocol!Next
<1>11. CASE Phase(r) = "turn" /\ Phase(r)' = "closing"
  <2>1. Protocol!Finish(r)
    BY <1>2, <1>3, <1>11 DEF Protocol!Finish, Protocol!To, Protocol!Settle
  <2> QED BY <2>1 DEF Protocol!Next
<1>12. CASE /\ Phase(r) \in {"open", "between"} /\ Turns(r) = Budget(r)
           /\ Phase(r)' = "limit"
  <2>1. Protocol!ExceedBudget(r)
    BY <1>2, <1>3, <1>12 DEF Protocol!ExceedBudget, Protocol!To, Protocol!Settle
  <2> QED BY <2>1 DEF Protocol!Next
<1>13. CASE Phase(r) = "open" /\ Budget(r) < 0 /\ Phase(r)' = "closing"
  <2>1. Protocol!NoBudget(r)
    BY <1>2, <1>3, <1>13 DEF Protocol!NoBudget, Protocol!To, Protocol!Settle
  <2> QED BY <2>1 DEF Protocol!Next
<1>14. CASE Phase(r) = "limit" /\ Phase(r)' = "closing"
  <2>1. Protocol!Report(r)
    BY <1>2, <1>3, <1>14 DEF Protocol!Report, Protocol!To, Protocol!Settle
  <2> QED BY <2>1 DEF Protocol!Next
<1>15. CASE Phase(r) # "closed" /\ Phase(r)' = "closed"
  <2>1. Protocol!Close(r)
    BY <1>2, <1>3, <1>15 DEF Protocol!Close, Protocol!To, Protocol!Settle
  <2> QED BY <2>1 DEF Protocol!Next
<1> QED BY <1>4, <1>5, <1>6, <1>7, <1>8, <1>9, <1>10, <1>11, <1>12, <1>13, <1>14, <1>15
\* What a request stores of its rows, and what a step leaves to the others.
LEMMA StepKept ==
  ASSUME Inv, Sound, NEW r \in Requests,
         Post(r) \/ Refuse(r) \/ Handler(r) \/ Abort(r) \/ Deadlock(r)
  PROVE  RowsKept(r) /\ OthersAlone(r)
<1> USE DEF Goto, Extend, OthersAlone, local, storeVars
<1>1. /\ pc \in [Requests -> PC] /\ req \in [Requests -> Request]
      /\ chain \in [Requests -> Seq(MsgId)] /\ created \in [Requests -> MsgRef]
      /\ open \in [Requests -> SUBSET MsgId] /\ reply \in [Requests -> MsgRef]
      /\ step \in [Requests -> Nat]
      /\ writes \in [Requests -> SUBSET (MsgId \X MsgRef)]
      /\ errs \in [Requests -> SUBSET MsgId]
  BY DEF Inv, TypeOK, StoreTypeOK
<1>2. ASSUME NEW how, Leave(r, how) PROVE RowsKept(r) /\ OthersAlone(r)
  <2>1. UNCHANGED message /\ completions' = completions
    BY <1>2 DEF Leave, Rollback
  <2>2. OthersAlone(r)
    BY <1>1, <1>2 DEF Leave, Rollback, SessionEmptied, Forget
  <2> QED BY <2>1, <2>2, IdleKept
<1>3. CASE Post(r) \/ ReadThread(r) \/ Climb(r) \/ StreamErrorChunk(r) \/ Respond(r)
  <2>1. UNCHANGED message /\ completions \subseteq completions'
    BY <1>3 DEF Post, ReadThread, Climb, StreamErrorChunk, Respond
  <2>2. CASE Post(r)
    BY <1>1, <2>1, <2>2, IdleKept DEF Post
  <2>3. CASE ReadThread(r) \/ Climb(r)
    BY <1>1, <2>1, <2>3, IdleKept DEF ReadThread, Climb
  <2>4. CASE StreamErrorChunk(r) \/ Respond(r)
    BY <1>1, <2>1, <2>4, IdleKept DEF StreamErrorChunk, Respond
  <2> QED BY <1>3, <2>2, <2>3, <2>4
<1>4. CASE \/ Start(r) \/ StopLooping(r) \/ ShowPending(r) \/ ShowReply(r)
           \/ ShowTurn(r) \/ FinalizeNothing(r) \/ ExceedLimit(r)
  <2>1. /\ UNCHANGED <<message, completions, writes, errs, req, chain, created, open, reply>>
        /\ \A q \in Requests \ {r} : pc'[q] = pc[q] /\ step'[q] = step[q]
    BY <1>1, <1>4 DEF Start, StopLooping, ShowPending, ShowReply, ShowTurn, FinalizeNothing,
       ExceedLimit, Shown
  <2> QED BY <2>1, IdleKept
<1>5. CASE RepairChildren(r)
  <2>1. /\ UNCHANGED <<message, completions, errs, pc, req, chain, created, open, reply, step>>
        /\ \A q \in Requests \ {r} : writes'[q] = writes[q]
    BY <1>1, <1>5 DEF RepairChildren, AssignChildren
  <2> QED BY <2>1, IdleKept
<1>6. ASSUME NEW row, Add(r, row), pc[r] # "saving", completions' = completions,
             \A q \in Requests \ {r} :
               /\ pc'[q] = pc[q] /\ req'[q] = req[q] /\ chain'[q] = chain[q]
               /\ created'[q] = created[q] /\ open'[q] = open[q] /\ reply'[q] = reply[q]
               /\ step'[q] = step[q]
      PROVE  RowsKept(r) /\ OthersAlone(r)
  BY <1>6, AddKept DEF Emptied
<1>7. CASE SetupSystemMessage(r)
  <2>1. CASE req[r].prompt
    BY <1>1, <1>6, <1>7, <2>1 DEF SetupSystemMessage
  <2>2. CASE ~req[r].prompt
    BY <1>1, <1>7, <2>2, IdleKept DEF SetupSystemMessage
  <2> QED BY <2>1, <2>2
<1>8. CASE CreateUser(r)
  BY <1>1, <1>6, <1>8 DEF CreateUser
<1>9. CASE CreateToolResponse(r)
  BY <1>1, <1>6, <1>9 DEF CreateToolResponse
<1>10. CASE CreateAssistant(r)
  BY <1>1, <1>6, <1>10 DEF CreateAssistant
<1>11. CASE AddReply(r)
  BY <1>1, <1>6, <1>11 DEF AddReply
<1>12. CASE CallTool(r)
  BY <1>1, <1>6, <1>12 DEF CallTool
<1>13. CASE FinalizeAssistant(r)
  <2>1. RowsKept(r) /\ Emptied(r)
    BY <1>13, FinalizeAssistantKept
  <2> QED BY <1>1, <1>13, <2>1 DEF FinalizeAssistant, Forget, Emptied
<1>14. CASE SaveReply(r)
  <2>1. RowsKept(r) /\ Emptied(r)
    BY <1>14, SaveReplyKept
  <2> QED BY <1>1, <1>14, <2>1 DEF SaveReply, Emptied
<1>15. CASE FinalizeSystem(r) \/ FinalizeCreated(r)
  <2>1. RowsKept(r) /\ Emptied(r)
    BY <1>15, FinalizeMessageKept
  <2> QED BY <1>1, <1>15, <2>1 DEF FinalizeSystem, FinalizeCreated, Emptied
<1> QED BY <1>2, <1>3, <1>4, <1>5, <1>7, <1>8, <1>9, <1>10, <1>11, <1>12, <1>13, <1>14, <1>15
        DEF Handler, Setup, Generator, Inference, Refuse, CreateFails, InferenceFails, End,
            Abort, Deadlock

\* The calls that are counted are those of a reply that is in the table.
LEMMA AskedCounts ==
  ASSUME Inv, NEW r \in Requests, Phase(r) \in {"turn", "between"}
  PROVE  /\ reply[r] # None /\ reply[r] \in Ids
         /\ Asked(r) = Cardinality(Unanswered(r))
         /\ IsFiniteSet(Unanswered(r))
         /\ Asked(r) \in Nat
<1>1. reply[r] # None
  BY ChainRows DEF Inv, TypeOK, Phase, Replying, PC, Running, Streaming
<1>2. reply[r] \in Ids
  BY <1>1, ChainRows
<1>3. message[reply[r]].calls \in Seq(Source)
  BY <1>2, IdsAreNumbers DEF Inv, TypeOK, Row
<1>4. IsFiniteSet(Unanswered(r))
  <2> DEFINE n == Len(message[reply[r]].calls)
  <2>1. n \in Nat /\ DOMAIN message[reply[r]].calls = 1..n
    BY <1>3
  <2>2. IsFiniteSet(1..n)
    <3>1. 1 \in Int /\ n \in Int
      BY <2>1
    <3> QED BY <3>1, FS_Interval, Zenon
  <2>3. Unanswered(r) \subseteq 1..n
    BY <2>1 DEF Unanswered
  <2> QED BY <2>2, <2>3, FS_Subset
<1>5. Cardinality(Unanswered(r)) \in Nat
  BY <1>4, FS_CardinalityType
<1> QED BY <1>1, <1>2, <1>4, <1>5 DEF Asked

\* The calls that wait are counted by a number, before a step and after it.
AskedFits == \A q \in Requests : Phase(q) \in {"turn", "between"} => Asked(q) \in Nat

\* Every count is a number while the invariant holds.
LEMMA AskedIsNumber == Inv => AskedFits
BY AskedCounts DEF AskedFits

\* And so is every count that a step leaves.
LEMMA AskedStaysNumber == Inv' => AskedFits'
BY AskedIsNumber, PTL

\* Outside the turns and what is between them a stream counts nothing.
LEMMA QuietSame ==
  ASSUME NEW r \in Requests, Phase(r)' = Phase(r), Phase(r) \notin {"open", "turn", "between"}
  PROVE  Same(r)
BY DEF Same, Budget, Turns, Asked

\* A request keeps its place in the protocol while its objects and calls stay.
LEMMA KeptSame ==
  ASSUME Inv, Inv', Sound, NEW q \in Requests, KeptFor(q), Phase(q)' = Phase(q),
         req'[q] = req[q], chain'[q] = chain[q], reply'[q] = reply[q], step'[q] = step[q]
  PROVE  Same(q)
<1>1. Budget(q)' = Budget(q) /\ Turns(q)' = Turns(q)
  BY DEF Budget, Turns
<1>2. CASE Phase(q) \in {"turn", "between"}
  <2>1. reply[q] # None /\ Asked(q) = Cardinality(Unanswered(q))
    BY <1>2, AskedCounts
  <2>2. reply[q] \in Ids /\ reply'[q] \in Ids'
    BY <1>2, <2>1, AskedCounts DEF KeptFor
  <2>3. Asked(q)' = Cardinality(Unanswered(q)')
    BY <1>2, <2>2 DEF Asked
  <2>4. Unanswered(q)' = Unanswered(q)
    BY <2>1, UncalledStays, AnsweredStays DEF Unanswered
  <2> QED BY <1>1, <2>1, <2>3, <2>4 DEF Same
<1>3. CASE Phase(q) \notin {"turn", "between"}
  BY <1>1, <1>3 DEF Same, Asked
<1> QED BY <1>2, <1>3

\* The streams of the other requests show what they showed.
LEMMA OthersSame ==
  ASSUME Inv, Inv', Sound, NEW r \in Requests,
         Post(r) \/ Refuse(r) \/ Handler(r) \/ Abort(r) \/ Deadlock(r)
  PROVE  \A q \in Requests \ {r} : Same(q)
<1> SUFFICES ASSUME NEW q \in Requests \ {r} PROVE Same(q)
  OBVIOUS
<1>1. RowsKept(r) /\ OthersAlone(r)
  BY StepKept
<1>2. KeptFor(q)
  BY <1>1, KeptForOthers
<1>3. /\ pc'[q] = pc[q] /\ req'[q] = req[q] /\ chain'[q] = chain[q]
      /\ reply'[q] = reply[q] /\ step'[q] = step[q]
  BY <1>1 DEF OthersAlone
<1>4. Phase(q)' = Phase(q)
  BY <1>3 DEF Phase
<1> QED BY <1>2, <1>3, <1>4, KeptSame

Quiet == {"idle", "posted", "climbing", "chained", "made", "opening"}
Over == {"refused", "failed", "done"}

\* Nothing is shown before the stream opens.
LEMMA SetupMaps ==
  ASSUME Inv, Inv', Sound, NEW r \in Requests,
         \/ Post(r) \/ SetupSystemMessage(r) \/ ReadThread(r) \/ Climb(r)
         \/ CreateUser(r) \/ CreateToolResponse(r) \/ CreateAssistant(r)
  PROVE  [Protocol!Next]_(Protocol!pvars)
<1>1. pc[r] \in Quiet /\ pc'[r] \in Quiet
  BY DEF Inv, TypeOK, Post, SetupSystemMessage, ReadThread, Climb, CreateUser,
     CreateToolResponse, CreateAssistant, Goto, Quiet
<1>2. Phase(r) = "idle" /\ Phase(r)' = "idle"
  BY <1>1 DEF Phase, Quiet
<1>3. Same(r)
  BY <1>2, QuietSame
<1>4. \A q \in Requests \ {r} : Same(q)
  BY OthersSame DEF Handler, Setup
<1> QED BY <1>3, <1>4, StepMaps

\* A response can end anywhere, and is closed then.
LEMMA OverMaps ==
  ASSUME Inv, Inv', Sound, NEW r \in Requests,
         \/ Refuse(r) \/ CreateFails(r) \/ FinalizeAssistant(r)
         \/ InferenceFails(r) \/ End(r) \/ Abort(r) \/ Deadlock(r)
  PROVE  [Protocol!Next]_(Protocol!pvars)
<1>1. pc'[r] \in Over
  BY DEF Inv, TypeOK, Refuse, CreateFails, FinalizeAssistant, InferenceFails, End, Abort,
     Deadlock, Leave, Goto, Over
<1>2. Phase(r)' = "closed"
  BY <1>1 DEF Phase, Over
<1>3. \A q \in Requests \ {r} : Same(q)
  BY OthersSame DEF Handler, Setup, Generator, Inference
<1>4. CASE Phase(r) = "closed"
  BY <1>2, <1>3, <1>4, QuietSame, StepMaps
<1>5. CASE Phase(r) # "closed"
  BY <1>2, <1>3, <1>5, StepMaps
<1> QED BY <1>4, <1>5

\* The places of a turn that only move on show no item that counts.
LEMMA TurnMovesMap ==
  ASSUME Inv, Inv', Sound, NEW r \in Requests,
         \/ RepairChildren(r) \/ ShowPending(r) \/ ShowReply(r) \/ FinalizeSystem(r)
         \/ FinalizeCreated(r) \/ FinalizeNothing(r) \/ StreamErrorChunk(r) \/ Respond(r)
  PROVE  [Protocol!Next]_(Protocol!pvars)
<1>1. /\ UNCHANGED <<req, chain, reply, step>>
      /\ pc[r] # "saving"
      /\ \/ pc'[r] = pc[r]
         \/ pc[r] \in Replying /\ pc'[r] \in Replying
         \/ pc[r] \in {"showing_pending", "closing_pending"}
            /\ pc'[r] \in {"closing_pending", "ending"}
  BY DEF Inv, TypeOK, RepairChildren, ShowPending, ShowReply, Shown, FinalizeSystem,
     FinalizeCreated, FinalizeNothing, Finalizing, AfterFinalize, StreamErrorChunk, Respond,
     Goto, local, Replying, Showing
<1>2. Phase(r)' = Phase(r)
  BY <1>1 DEF Phase, Replying
<1>3. /\ \A q \in Requests \ {r} : Same(q)
      /\ RowsKept(r)
  BY OthersSame, StepKept DEF Handler, Generator, Inference
<1>4. KeptFor(r)
  BY <1>1, <1>3, KeptForOthers
<1>5. Same(r)
  BY <1>1, <1>2, <1>4, KeptSame
<1> QED BY <1>3, <1>5, StepMaps

\* The first item opens the stream, or says that calls are pending.
LEMMA StartMaps ==
  ASSUME Inv, Inv', Sound, NEW r \in Requests, Start(r)
  PROVE  [Protocol!Next]_(Protocol!pvars)
<1>1. /\ pc[r] = "opening" /\ UNCHANGED <<req, reply, step>>
      /\ pc'[r] \in {"showing_pending", "looping"}
  BY DEF Start, Inv, TypeOK, Goto, local
<1>2. reply[r] = None
  BY <1>1 DEF Sound, GeneratorSound, ReplySound, Streaming
<1>3. Phase(r) = "idle" /\ Turns(r) = 0 /\ Asked(r) = 0
  BY <1>1 DEF Phase, Turns, Asked
<1>4. \A q \in Requests \ {r} : Same(q)
  BY OthersSame DEF Handler, Generator
<1>5. CASE pc'[r] = "showing_pending"
  <2>1. Phase(r)' = "closing"
    BY <1>5 DEF Phase
  <2> QED BY <1>3, <1>4, <2>1, StepMaps
<1>6. CASE pc'[r] = "looping"
  <2>1. Phase(r)' = "open"
    BY <1>1, <1>2, <1>6 DEF Phase
  <2>2. Budget(r)' \in Int /\ Turns(r)' = 0 /\ Asked(r)' = 0
    BY <1>1, <2>1 DEF Budget, Turns, Asked, Inv, TypeOK, Request
  <2> QED BY <1>3, <1>4, <2>1, <2>2, StepMaps
<1> QED BY <1>1, <1>5, <1>6

\* A turn begins within the budget, and no call is waiting.
LEMMA AddReplyMaps ==
  ASSUME Inv, Inv', Sound, NEW r \in Requests, AddReply(r)
  PROVE  [Protocol!Next]_(Protocol!pvars)
<1>1. PICK n : n = NewId
  OBVIOUS
<1>2. /\ pc[r] = "looping" /\ pc'[r] = "showing_reply" /\ reply'[r] = n
      /\ req' = req /\ step' = step /\ step[r] < req[r].limit /\ step[r] \in Nat
  BY <1>1 DEF AddReply, MayTurn, Inv, TypeOK, Goto
<1>3. Phase(r)' = "turn" /\ Phase(r) = IF reply[r] = None THEN "open" ELSE "between"
  BY <1>2 DEF Phase
<1>4. message'[n].calls = <<>> /\ n # None
  <2> DEFINE row == NewRow(r, "assistant", Newest(r), message[Newest(r)].private)
  <2>1. Add(r, row) /\ completions' = completions
    BY DEF AddReply
  <2>2. row.calls = <<>>
    BY DEF NewRow
  <2> HIDE DEF row
  <2> QED BY <1>1, <1>2, <2>1, <2>2, InsertFacts
<1>5. Asked(r)' = 0
  <2>1. Unanswered(r)' = {}
    BY <1>2, <1>4 DEF Unanswered
  <2>2. Asked(r)' = Cardinality(Unanswered(r)') \/ Asked(r)' = 0
    BY DEF Asked
  <2> QED BY <2>1, <2>2, FS_EmptySet
<1>6. Asked(r) = 0
  <2>1. CASE reply[r] = None
    BY <1>3, <2>1 DEF Asked
  <2>2. CASE reply[r] # None
    <3>1. Unanswered(r) = {}
      BY <1>2, <2>2 DEF Sound, GeneratorSound, TurnSound, Unanswered
    <3>2. Asked(r) = Cardinality(Unanswered(r))
      BY <1>3, <2>2, AskedCounts
    <3> QED BY <3>1, <3>2, FS_EmptySet
  <2> QED BY <2>1, <2>2
<1>7. Turns(r) = step[r]
  <2>1. reply[r] = None => step[r] = 0
    BY DEF Sound, GeneratorSound, TurnSound
  <2> QED BY <1>3, <2>1 DEF Turns
<1>8. Budget(r) = req[r].limit /\ Budget(r)' = req[r].limit /\ Turns(r)' = step[r] + 1
  BY <1>2, <1>3 DEF Budget, Turns
<1>9. \A q \in Requests \ {r} : Same(q)
  BY OthersSame DEF Handler, Generator
<1> QED BY <1>2, <1>3, <1>5, <1>6, <1>7, <1>8, <1>9, StepMaps

\* The loop is left when the budget is used up, or when there never was one.
LEMMA StopLoopingMaps ==
  ASSUME Inv, Inv', Sound, NEW r \in Requests, StopLooping(r)
  PROVE  [Protocol!Next]_(Protocol!pvars)
<1>1. /\ pc[r] = "looping" /\ ~(step[r] < req[r].limit)
      /\ pc'[r] = IF step[r] = req[r].limit THEN "exceeded" ELSE "ending"
  BY DEF StopLooping, MayTurn, Inv, TypeOK, Goto
<1>2. /\ step[r] \in Nat /\ req[r].limit \in Int
      /\ reply[r] = None => step[r] = 0
      /\ reply[r] # None => step[r] <= req[r].limit
  BY <1>1 DEF Inv, TypeOK, Request, Sound, GeneratorSound, TurnSound
<1>3. Phase(r) = IF reply[r] = None THEN "open" ELSE "between"
  BY <1>1 DEF Phase
<1>4. Turns(r) = step[r] /\ Budget(r) = req[r].limit
  BY <1>2, <1>3 DEF Turns, Budget
<1>5. \A q \in Requests \ {r} : Same(q)
  BY OthersSame DEF Handler, Generator
<1>6. CASE step[r] = req[r].limit
  <2>1. Phase(r)' = "limit"
    BY <1>1, <1>6 DEF Phase
  <2> QED BY <1>3, <1>4, <1>5, <1>6, <2>1, StepMaps
<1>7. CASE step[r] # req[r].limit
  <2>1. Phase(r)' = "closing"
    BY <1>1, <1>7 DEF Phase
  <2>2. reply[r] = None /\ req[r].limit < 0
    BY <1>1, <1>2, <1>7
  <2> QED BY <1>3, <1>4, <1>5, <2>1, <2>2, StepMaps
<1> QED BY <1>6, <1>7

\* The reply is stored: what it asks for is counted now.
LEMMA SaveReplyMaps ==
  ASSUME Inv, Inv', Sound, NEW r \in Requests, SaveReply(r)
  PROVE  [Protocol!Next]_(Protocol!pvars)
<1>1. /\ pc[r] = "saving" /\ pc'[r] = "calling"
      /\ UNCHANGED <<req, chain, reply, step>>
  BY DEF SaveReply, Inv, TypeOK, Goto
<1>2. Phase(r) = "turn" /\ Phase(r)' = "turn"
  BY <1>1 DEF Phase
<1>3. Budget(r)' = Budget(r) /\ Turns(r)' = Turns(r)
  BY <1>1, <1>2 DEF Budget, Turns
<1>4. Asked(r) = 0
  <2>1. Unanswered(r) = {}
    BY <1>1 DEF Sound, GeneratorSound, ReplySound, Making, Unanswered
  <2> QED BY <1>2, <2>1, AskedCounts, FS_EmptySet
<1>5. Asked(r)' \in Nat
  BY <1>2, AskedStaysNumber DEF AskedFits
<1>6. \A q \in Requests \ {r} : Same(q)
  BY OthersSame DEF Handler, Generator
<1>7. CASE Asked(r)' = 0
  BY <1>2, <1>3, <1>4, <1>6, <1>7, StepMaps DEF Same
<1>8. CASE Asked(r)' # 0
  BY <1>2, <1>3, <1>4, <1>5, <1>6, <1>8, StepMaps
<1> QED BY <1>7, <1>8

\* The server answers one of the calls that are waiting.
LEMMA CallToolMaps ==
  ASSUME Inv, Inv', Sound, NEW r \in Requests, CallTool(r)
  PROVE  [Protocol!Next]_(Protocol!pvars)
<1> DEFINE p == reply[r]
           k == NextCall(r)
           row == [NewRow(r, "tool_call_result", p, message[p].private)
                     EXCEPT !.final = TRUE, !.answers = <<p, k>>, !.err = message[p].err]
<1>1. PICK n : n = NewId
  OBVIOUS
<1>2. /\ pc[r] = "calling" /\ Add(r, row) /\ chain'[r] = Append(chain[r], n)
      /\ UNCHANGED <<completions, pc, req, reply, step>>
  BY <1>1 DEF CallTool, ResponseTo, Extend, Inv, TypeOK
<1>3. Phase(r) = "turn" /\ Phase(r)' = "turn"
  BY <1>2 DEF Phase
<1>4. /\ p # None /\ p \in Ids /\ Asked(r) = Cardinality(Unanswered(r))
      /\ IsFiniteSet(Unanswered(r)) /\ Asked(r) \in Nat
  BY <1>3, AskedCounts
<1>5. k \in Unanswered(r)
  <2>1. DOMAIN message[p].calls \subseteq Nat
    <3>1. message[p].calls \in Seq(Source)
      BY <1>4, IdsAreNumbers DEF Inv, TypeOK, Row
    <3> QED BY <3>1
  <2>2. Uncalled(r) \subseteq Nat /\ Uncalled(r) # {}
    BY <2>1 DEF Uncalled, CallTool
  <2>3. k \in Uncalled(r)
    BY <2>2, LeastExists DEF NextCall
  <2> QED BY <2>3 DEF Uncalled, Unanswered
<1>6. row.role = "tool_call_result" /\ row.answers = <<p, k>>
  <2> HIDE DEF p, k
  <2> QED BY DEF NewRow
<1> HIDE DEF row, k
<1>7. /\ n \notin Ids /\ Ids' = Ids \cup {n} /\ message'[n] = row /\ KeptFor(r)
  BY <1>1, <1>2, InsertFacts
<1>8. /\ \A i \in DOMAIN chain[r] : i \in DOMAIN chain'[r] /\ chain'[r][i] = chain[r][i]
      /\ \A i \in DOMAIN chain'[r] :
           \/ i \in DOMAIN chain[r] /\ chain'[r][i] = chain[r][i]
           \/ chain'[r][i] = n
      /\ \E i \in DOMAIN chain'[r] : chain'[r][i] = n
  BY <1>1, <1>2, AppendedChain DEF InChain
<1>9. \A i \in DOMAIN chain[r] :
        /\ message'[chain[r][i]].role = message[chain[r][i]].role
        /\ message'[chain[r][i]].answers = message[chain[r][i]].answers
  BY <1>7, ChainRows DEF KeptFor, ColumnsKept
<1>10. Answered(r)' = Answered(r) \cup {<<p, k>>}
  <2>1. ASSUME NEW x \in Answered(r) PROVE x \in Answered(r)'
    <3>1. PICK i \in DOMAIN chain[r] : /\ message[chain[r][i]].role = "tool_call_result"
                                       /\ x = message[chain[r][i]].answers
      BY DEF Answered
    <3>2. /\ i \in DOMAIN chain'[r] /\ message'[chain'[r][i]].role = "tool_call_result"
          /\ x = message'[chain'[r][i]].answers
      BY <1>8, <1>9, <3>1
    <3> QED BY <3>2 DEF Answered
  <2>2. <<p, k>> \in Answered(r)'
    <3>1. PICK i \in DOMAIN chain'[r] : chain'[r][i] = n
      BY <1>8
    <3> QED BY <1>6, <1>7, <3>1 DEF Answered
  <2>3. ASSUME NEW x \in Answered(r)' PROVE x \in Answered(r) \/ x = <<p, k>>
    <3>1. PICK i \in DOMAIN chain'[r] : /\ message'[chain'[r][i]].role = "tool_call_result"
                                        /\ x = message'[chain'[r][i]].answers
      BY DEF Answered
    <3>2. CASE chain'[r][i] = n
      BY <1>6, <1>7, <3>1, <3>2
    <3>3. CASE i \in DOMAIN chain[r] /\ chain'[r][i] = chain[r][i]
      <4>1. message[chain[r][i]].role = "tool_call_result" /\ x = message[chain[r][i]].answers
        BY <1>9, <3>1, <3>3
      <4> QED BY <3>3, <4>1 DEF Answered
    <3> QED BY <1>8, <3>2, <3>3
  <2> QED BY <2>1, <2>2, <2>3
<1>11. message'[p].calls = message[p].calls
  BY <1>4, <1>7, ReplyIsMade DEF KeptFor
<1>12. Unanswered(r)' = Unanswered(r) \ {k}
  BY <1>2, <1>10, <1>11 DEF Unanswered
<1>13. Asked(r)' = Cardinality(Unanswered(r)')
  BY <1>2, <1>3, <1>4, <1>7 DEF Asked
<1>14. Asked(r)' = Asked(r) - 1 /\ Asked(r) > 0
  <2>1. Cardinality(Unanswered(r) \ {k}) = Cardinality(Unanswered(r)) - 1
    BY <1>4, <1>5, FS_RemoveElement
  <2>2. IsFiniteSet(Unanswered(r) \ {k})
    BY <1>4, FS_Subset
  <2>3. Cardinality(Unanswered(r) \ {k}) \in Nat
    BY <2>2, FS_CardinalityType
  <2> QED BY <1>4, <1>12, <1>13, <2>1, <2>3
<1>15. Budget(r)' = Budget(r) /\ Turns(r)' = Turns(r)
  BY <1>2, <1>3 DEF Budget, Turns
<1>16. \A q \in Requests \ {r} : Same(q)
  BY OthersSame DEF Handler, Generator
<1> QED BY <1>3, <1>14, <1>15, <1>16, StepMaps

\* A turn that asks for nothing ends the stream; otherwise it is answered.
LEMMA ShowTurnMaps ==
  ASSUME Inv, Inv', Sound, NEW r \in Requests, ShowTurn(r)
  PROVE  [Protocol!Next]_(Protocol!pvars)
<1> DEFINE calls == message[reply[r]].calls
           last == calls = <<>> \/ \E k \in DOMAIN calls : calls[k] = "user_defined"
<1>1. /\ pc[r] = "showing_turn" /\ UNCHANGED <<message, req, reply, chain>>
      /\ last => pc'[r] = "ending"
      /\ ~last => pc'[r] = "looping" /\ step'[r] = step[r] + 1
  BY DEF ShowTurn, Shown, Inv, TypeOK, Goto, storeVars
<1>2. Phase(r) = "turn"
  BY <1>1 DEF Phase
<1>3. \A q \in Requests \ {r} : Same(q)
  BY OthersSame DEF Handler, Generator
<1>4. CASE last
  <2>1. Phase(r)' = "closing"
    BY <1>1, <1>4 DEF Phase
  <2> QED BY <1>2, <1>3, <2>1, StepMaps
<1>5. CASE ~last
  <2>1. reply[r] # None /\ reply[r] \in Ids /\ Asked(r) = Cardinality(Unanswered(r))
    BY <1>2, AskedCounts
  <2>2. Phase(r)' = "between"
    BY <1>1, <1>5, <2>1 DEF Phase
  <2>3. Unanswered(r) = {}
    BY <1>1, <1>5 DEF Sound, GeneratorSound, TurnSound, Uncalled, Unanswered
  <2>4. Asked(r) = 0
    BY <2>1, <2>3, FS_EmptySet
  <2>5. Unanswered(r)' = Unanswered(r)
    BY <1>1 DEF Unanswered, Answered
  <2>6. Asked(r)' = Asked(r)
    BY <1>1, <1>2, <2>2, <2>5 DEF Asked, Ids
  <2>7. Budget(r)' = Budget(r) /\ Turns(r)' = Turns(r)
    BY <1>1, <1>2, <1>5, <2>2 DEF Budget, Turns
  <2> QED BY <1>2, <1>3, <2>2, <2>4, <2>6, <2>7, StepMaps
<1> QED BY <1>4, <1>5

\* A stream that has used up its budget says so and closes.
LEMMA ExceedLimitMaps ==
  ASSUME Inv, Inv', Sound, NEW r \in Requests, ExceedLimit(r)
  PROVE  [Protocol!Next]_(Protocol!pvars)
<1>1. Phase(r) = "limit" /\ Phase(r)' = "closing"
  BY DEF ExceedLimit, Inv, TypeOK, Goto, Phase
<1>2. \A q \in Requests \ {r} : Same(q)
  BY OthersSame DEF Handler, Generator
<1> QED BY <1>1, <1>2, StepMaps

\* Nothing has been shown when the server starts.
LEMMA InitMaps == Init => Protocol!Init
<1> SUFFICES ASSUME Init PROVE Protocol!Init
  OBVIOUS
<1>1. \A r \in Requests : pc[r] = "idle"
  BY DEF Init
<1>2. \A r \in Requests : Phase(r) = "idle"
  BY <1>1 DEF Phase
<1>3. \A r \in Requests : Budget(r) = 0 /\ Turns(r) = 0 /\ Asked(r) = 0
  BY <1>2 DEF Budget, Turns, Asked
<1> QED BY <1>2, <1>3 DEF Protocol!Init

\* A step that changes nothing shows nothing.
LEMMA StutterMaps == UNCHANGED vars => UNCHANGED Protocol!pvars
<1> SUFFICES ASSUME UNCHANGED vars PROVE UNCHANGED Protocol!pvars
  OBVIOUS
<1>1. UNCHANGED <<message, pc, req, reply, chain, step>>
  BY DEF vars, storeVars, local
<1>2. \A r \in Requests : Phase(r)' = Phase(r)
  BY <1>1 DEF Phase
<1>3. \A r \in Requests : Budget(r)' = Budget(r) /\ Turns(r)' = Turns(r)
  BY <1>1, <1>2 DEF Budget, Turns
<1>4. \A r \in Requests : Unanswered(r)' = Unanswered(r)
  BY <1>1 DEF Unanswered, Answered
<1>5. \A r \in Requests : Asked(r)' = Asked(r)
  BY <1>1, <1>2, <1>4 DEF Asked, Ids
<1> QED BY <1>2, <1>3, <1>5 DEF Protocol!pvars

\* Every step of the handlers is a step of the protocol or shows nothing.
LEMMA NextMaps ==
  Inv /\ Inv' /\ Sound /\ [Next]_vars => [Protocol!Next]_(Protocol!pvars)
<1> SUFFICES ASSUME Inv, Inv', Sound, [Next]_vars PROVE [Protocol!Next]_(Protocol!pvars)
  OBVIOUS
<1>1. CASE UNCHANGED vars
  BY <1>1, StutterMaps
<1>2. ASSUME NEW r \in Requests,
             Post(r) \/ Refuse(r) \/ Handler(r) \/ Abort(r) \/ Deadlock(r)
      PROVE  [Protocol!Next]_(Protocol!pvars)
  <2>1. CASE Post(r) \/ SetupSystemMessage(r) \/ ReadThread(r) \/ Climb(r)
             \/ CreateUser(r) \/ CreateToolResponse(r) \/ CreateAssistant(r)
    BY <2>1, SetupMaps
  <2>2. CASE Refuse(r) \/ CreateFails(r) \/ FinalizeAssistant(r)
             \/ InferenceFails(r) \/ End(r) \/ Abort(r) \/ Deadlock(r)
    BY <2>2, OverMaps
  <2>3. CASE RepairChildren(r) \/ ShowPending(r) \/ ShowReply(r) \/ FinalizeSystem(r)
             \/ FinalizeCreated(r) \/ FinalizeNothing(r) \/ StreamErrorChunk(r) \/ Respond(r)
    BY <2>3, TurnMovesMap
  <2>4. CASE Start(r)
    BY <2>4, StartMaps
  <2>5. CASE AddReply(r)
    BY <2>5, AddReplyMaps
  <2>6. CASE StopLooping(r)
    BY <2>6, StopLoopingMaps
  <2>7. CASE SaveReply(r)
    BY <2>7, SaveReplyMaps
  <2>8. CASE CallTool(r)
    BY <2>8, CallToolMaps
  <2>9. CASE ShowTurn(r)
    BY <2>9, ShowTurnMaps
  <2>10. CASE ExceedLimit(r)
    BY <2>10, ExceedLimitMaps
  <2> QED BY <1>2, <2>1, <2>2, <2>3, <2>4, <2>5, <2>6, <2>7, <2>8, <2>9, <2>10
          DEF Handler, Setup, Generator, Inference
<1> QED BY <1>1, <1>2 DEF Next

\* The generator implements the protocol: a client of any number of concurrent
\* streams sees no turn over unanswered calls, no turn past max_steps, and the
\* report of the limit before the last item, in every instance.
THEOREM StreamsImplementProtocol == Spec => StreamsFollowProtocol
<1>1. Spec => Protocol!Init
  BY InitMaps, PTL DEF Spec
<1>2. Spec => [][Protocol!Next]_(Protocol!pvars)
  BY NextMaps, InvAlways, SoundAlways, PTL DEF Spec
<1> QED BY <1>1, <1>2, PTL DEF StreamsFollowProtocol, Protocol!Spec

-----------------------------------------------------------------------------
(***************************************************************************)
(* No reply over pending calls.  Clients that wait for the end of a stream *)
(* cannot name a reply before it is stored, so no other request has it in  *)
(* its chain while its calls are still to come.                            *)
(***************************************************************************)
Knows(p, id) ==
  \/ req[p].parent # None /\ id \in {req[p].parent, req[p].up}
  \/ InChain(p, id)
  \/ \E m \in DOMAIN parents[p] : parents[p][m] = id

\* Only its maker knows the row, and nothing hangs on it.
Lone(q, id) == /\ \A p \in Requests \ {q} : ~Knows(p, id)
               /\ \A c \in Ids : message[c].parent # id

Unread == \A q \in Requests : pc[q] \in Making => Lone(q, reply[q])

NothingPending == \A r \in Requests : pc[r] = "looping" => ~HasPendingToolCalls(r)

Waited == Unread /\ NothingPending

\* What a request knows is in the table, so it does not know the next row.
LEMMA KnownRows ==
  ASSUME Inv, NEW p \in Requests, NEW id, Knows(p, id), id # None
  PROVE  id \in Ids
<1>1. Ids \subseteq Nat /\ Ids = 1..Len(message) /\ Len(message) \in Nat
  BY IdsAreNumbers DEF Inv, TypeOK, MsgId
<1>2. ASSUME NEW m \in Ids, NEW x, ParentFits(m, x), x # None PROVE x \in Ids
  BY <1>1, <1>2 DEF ParentFits
<1>3. CASE req[p].parent # None /\ id = req[p].parent
  BY <1>3, ChainRows
<1>4. CASE req[p].parent # None /\ id = req[p].up
  BY <1>2, <1>4, ChainRows DEF Inv, RequestFits, ReqFits
<1>5. CASE InChain(p, id)
  BY <1>5, ChainRows
<1>6. CASE \E m \in DOMAIN parents[p] : parents[p][m] = id
  BY <1>2, <1>6 DEF Inv, RequestFits, SnapshotFits
<1> QED BY <1>3, <1>4, <1>5, <1>6 DEF Knows

\* What a request knows when its objects stay, and when one row joins its chain.
LEMMA KnowsTheSame ==
  ASSUME NEW r \in Requests, NEW id, ~Knows(r, id), req'[r] = req[r],
         parents'[r] = parents[r], chain'[r] = chain[r]
  PROVE  ~Knows(r, id)'
BY DEF Knows, InChain

LEMMA KnowsOneMore ==
  ASSUME Inv, NEW r \in Requests, NEW id \in Ids, ~Knows(r, id), NEW n, n \notin Ids,
         chain' = [chain EXCEPT ![r] = Append(@, n)], req' = req, parents' = parents
  PROVE  ~Knows(r, id)'
<1>1. \A i \in DOMAIN chain'[r] : \/ i \in DOMAIN chain[r] /\ chain'[r][i] = chain[r][i]
                                  \/ chain'[r][i] = n
  BY DEF Inv, TypeOK
<1> QED BY <1>1 DEF Knows, InChain

\* The row that a request adds hangs on a row that it knows.
NewRowsHangOn(r, id) == \A c \in Ids' \ Ids : message'[c].parent # id

\* A request cannot come to know the reply that another one is making.
LEMMA StepLearns ==
  ASSUME Inv, Sound, PoliteClients, NEW r \in Requests, NEW q \in Requests \ {r},
         pc[q] \in Making, NEW id, id = reply[q], Lone(q, id),
         Post(r) \/ Refuse(r) \/ Handler(r) \/ Abort(r) \/ Deadlock(r)
  PROVE  ~Knows(r, id)' /\ NewRowsHangOn(r, id)
<1>1. /\ id \in Ids /\ id # None /\ ~Knows(r, id)
      /\ \A c \in Ids : message[c].parent # id
  BY ChainRows DEF Lone, Making, Replying
<1>2. /\ req \in [Requests -> Request] /\ chain \in [Requests -> Seq(MsgId)]
      /\ parents \in [Requests -> Seq(MsgRef)]
  BY DEF Inv, TypeOK
<1>3. pc[q] \in Streaming
  BY DEF Making, Streaming
<1>4. chain[r] # <<>> => Newest(r) # id
  <2>1. chain[r] # <<>> => Newest(r) = chain[r][Len(chain[r])] /\ Len(chain[r]) \in DOMAIN chain[r]
    BY <1>2 DEF Newest, Last
  <2> QED BY <1>1, <2>1 DEF Knows, InChain
<1>5. Newest(r) # id
  BY <1>1, <1>4 DEF Newest
<1>6. ASSUME NEW how, Leave(r, how) PROVE ~Knows(r, id)' /\ NewRowsHangOn(r, id)
  <2>1. req'[r] = NoRequest /\ chain'[r] = <<>> /\ parents'[r] = <<>> /\ message' = message
    BY <1>2, <1>6 DEF Leave, Rollback, Forget
  <2> QED BY <2>1 DEF Knows, InChain, NoRequest, NewRowsHangOn, Ids
<1>7. ASSUME NEW row, Add(r, row), row.parent # id, pc[r] # "saving",
             completions' = completions
      PROVE  NewRowsHangOn(r, id)
  BY <1>7, AddKept DEF NewRowsHangOn
<1>9. CASE Post(r)
  <2>1. PICK in \in Inputs, parent \in {None} \cup Ids, call \in {NoCall} \cup StoredCalls :
          /\ Waits(parent)
          /\ req' = [req EXCEPT ![r] =
                    [client |-> in.client, role |-> in.role, parent |-> parent,
                     up |-> IF parent = None THEN None ELSE message[parent].parent,
                     private |-> PrivateOf(in), call |-> call,
                     limit |-> in.limit, prompt |-> in.prompt /\ parent = None]]
    BY <1>9 DEF Post
  <2>2. parent # id
    BY <1>1, <1>3, <2>1 DEF Waits
  <2>3. req'[r].parent = parent /\ (parent # None => req'[r].up = message[parent].parent)
    BY <1>2, <2>1
  <2>4. parent # None => message[parent].parent # id
    BY <1>1, <2>1
  <2>5. UNCHANGED <<message, chain, parents>>
    BY <1>9 DEF Post, storeVars
  <2> QED BY <1>1, <2>2, <2>3, <2>4, <2>5 DEF Knows, InChain, NewRowsHangOn, Ids
<1>10. CASE ReadThread(r)
  <2>1. /\ req[r].parent # None /\ req[r].parent # id /\ req[r].up # id
        /\ UNCHANGED <<message, req>> /\ pc[r] = "posted"
        /\ parents'[r] = [m \in Ids |-> IF m = req[r].parent THEN req[r].up
                                        ELSE message[m].parent]
        /\ chain'[r] = Append(chain[r], req[r].parent)
    BY <1>1, <1>2, <1>10 DEF ReadThread, Knows, Extend, storeVars
  <2>2. \A m \in DOMAIN parents'[r] : parents'[r][m] # id
    BY <1>1, <2>1
  <2>3. \A i \in DOMAIN chain'[r] : chain'[r][i] # id
    <3>1. chain[r] = <<>>
      BY <2>1 DEF Inv, RequestFits, PcFits
    <3>2. chain'[r] = <<req[r].parent>>
      BY <2>1, <3>1
    <3> QED BY <2>1, <3>2
  <2>4. ~Knows(r, id)'
    BY <2>1, <2>2, <2>3 DEF Knows, InChain
  <2> QED BY <2>1, <2>4 DEF NewRowsHangOn, Ids
<1>11. CASE Climb(r)
  <2> DEFINE up == parents[r][chain[r][1]]
  <2>1. UNCHANGED <<message, req>> /\ pc[r] = "climbing"
    BY <1>11 DEF Climb, storeVars
  <2>2. up # id
    <3>1. chain[r][1] \in DOMAIN parents[r]
      BY <2>1 DEF Inv, RequestFits, PcFits
    <3> QED BY <1>1, <3>1 DEF Knows
  <2>3. parents'[r] = parents[r] \/ parents'[r] = <<>>
    BY <1>2, <1>11 DEF Climb
  <2>4. chain'[r] = chain[r] \/ chain'[r] = <<up>> \o chain[r]
    BY <1>2, <1>11 DEF Climb
  <2>5. \A i \in DOMAIN chain'[r] : chain'[r][i] # id
    <3>1. \A i \in DOMAIN chain[r] : chain[r][i] # id
      BY <1>1 DEF Knows, InChain
    <3>2. chain[r] \in Seq(MsgId)
      BY <1>2
    <3>3. up \in MsgRef
      <4>1. chain[r][1] \in DOMAIN parents[r]
        BY <2>1 DEF Inv, RequestFits, PcFits
      <4> QED BY <1>2, <4>1
    <3> HIDE DEF up
    <3>4. CASE chain'[r] = <<up>> \o chain[r]
      <4>1. chain[r] \in Seq(Nat) /\ <<up>> \in Seq(Nat)
        BY <3>2, <3>3 DEF MsgId, MsgRef
      <4>2. \A i \in DOMAIN chain'[r] :
              \/ chain'[r][i] = up
              \/ i - 1 \in DOMAIN chain[r] /\ chain'[r][i] = chain[r][i - 1]
        BY <3>4, <4>1
      <4> QED BY <2>2, <3>1, <4>2
    <3> QED BY <2>4, <3>1, <3>4
  <2>6. ~Knows(r, id)'
    BY <1>1, <2>1, <2>3, <2>5 DEF Knows, InChain
  <2> QED BY <2>1, <2>6 DEF NewRowsHangOn, Ids
<1>12. PICK n : n = NewId
  OBVIOUS
<1>13. n \notin Ids
  BY <1>12, IdsAreNumbers DEF Inv, TypeOK, NewId
<1>14. CASE SetupSystemMessage(r)
  <2>1. CASE req[r].prompt
    <3> DEFINE row == NewRow(r, "system", None, req[r].private)
    <3>1. /\ Add(r, row) /\ Extend(r, n)
          /\ UNCHANGED <<completions, req, parents>> /\ pc[r] = "posted"
      BY <1>12, <1>14, <2>1 DEF SetupSystemMessage
    <3>2. row.parent = None
      BY DEF NewRow
    <3> HIDE DEF row
    <3> QED BY <1>1, <1>7, <1>13, <3>1, <3>2, KnowsOneMore DEF Extend
  <2>2. CASE ~req[r].prompt
    <3>1. UNCHANGED <<message, req, parents, chain>>
      BY <1>14, <2>2 DEF SetupSystemMessage
    <3> QED BY <1>1, <3>1, KnowsTheSame DEF NewRowsHangOn, Ids
  <2> QED BY <2>1, <2>2
<1>15. CASE CreateUser(r)
  <2> DEFINE row == NewRow(r, "user", Newest(r), req[r].private)
  <2>1. /\ Add(r, row) /\ Extend(r, n)
        /\ UNCHANGED <<completions, req, parents>> /\ pc[r] = "chained"
    BY <1>12, <1>15 DEF CreateUser
  <2>2. row.parent = Newest(r)
    BY DEF NewRow
  <2> HIDE DEF row
  <2> QED BY <1>1, <1>5, <1>7, <1>13, <2>1, <2>2, KnowsOneMore DEF Extend
<1>16. CASE CreateToolResponse(r)
  <2> DEFINE row == [NewRow(r, "tool_call_result", Newest(r), message[Newest(r)].private)
                       EXCEPT !.final = TRUE, !.answers = req[r].call,
                              !.err = message[Newest(r)].err]
  <2>1. /\ Add(r, row) /\ Extend(r, n)
        /\ UNCHANGED <<completions, req, parents>> /\ pc[r] = "chained"
    BY <1>12, <1>16 DEF CreateToolResponse
  <2>2. row.parent = Newest(r)
    BY DEF NewRow
  <2> HIDE DEF row
  <2> QED BY <1>1, <1>5, <1>7, <1>13, <2>1, <2>2, KnowsOneMore DEF Extend
<1>17. CASE CreateAssistant(r)
  <2> DEFINE row == NewRow(r, "assistant", req[r].parent, message[req[r].parent].private)
  <2>1. /\ Add(r, row)
        /\ UNCHANGED <<completions, req, parents, chain>> /\ pc[r] = "chained"
    BY <1>17 DEF CreateAssistant
  <2>2. row.parent # id
    <3>1. row.parent = req[r].parent
      BY DEF NewRow
    <3> QED BY <1>1, <3>1 DEF Knows
  <2> HIDE DEF row
  <2> QED BY <1>1, <1>7, <2>1, <2>2, KnowsTheSame
<1>18. CASE AddReply(r)
  <2> DEFINE row == NewRow(r, "assistant", Newest(r), message[Newest(r)].private)
  <2>1. /\ Add(r, row) /\ Extend(r, n)
        /\ UNCHANGED <<completions, req, parents>> /\ pc[r] = "looping"
    BY <1>12, <1>18 DEF AddReply
  <2>2. row.parent = Newest(r)
    BY DEF NewRow
  <2> HIDE DEF row
  <2> QED BY <1>1, <1>5, <1>7, <1>13, <2>1, <2>2, KnowsOneMore DEF Extend
<1>19. CASE CallTool(r)
  <2> DEFINE row == ResponseTo(r, NextCall(r))
  <2>1. /\ Add(r, row) /\ Extend(r, n)
        /\ UNCHANGED <<completions, req, parents>> /\ pc[r] = "calling"
    BY <1>12, <1>19 DEF CallTool
  <2>2. row.parent = reply[r]
    BY DEF ResponseTo, NewRow
  <2>3. reply[r] # id
    <3>1. reply[r] # None
      BY <2>1, ChainRows DEF Replying
    <3>2. InChain(r, reply[r])
      BY <3>1, ChainRows
    <3> QED BY <1>1, <3>2 DEF Knows
  <2> HIDE DEF row
  <2> QED BY <1>1, <1>7, <1>13, <2>1, <2>2, <2>3, KnowsOneMore DEF Extend
<1>20. CASE FinalizeAssistant(r)
  <2>1. Ids' = Ids
    BY <1>20, FinalizeAssistantKept
  <2>2. req'[r] = NoRequest /\ chain'[r] = <<>> /\ parents'[r] = <<>>
    BY <1>2, <1>20 DEF FinalizeAssistant, Forget
  <2> QED BY <2>1, <2>2 DEF Knows, InChain, NoRequest, NewRowsHangOn
<1>21. CASE SaveReply(r) \/ FinalizeSystem(r) \/ FinalizeCreated(r)
  <2>1. Ids' = Ids
    BY <1>21 DEF SaveReply, FinalizeSystem, FinalizeCreated, Update, Committed, Ids
  <2>2. UNCHANGED <<req, chain, parents>>
    BY <1>21 DEF SaveReply, FinalizeSystem, FinalizeCreated
  <2> QED BY <1>1, <2>1, <2>2, KnowsTheSame DEF NewRowsHangOn
<1>22. CASE \/ Start(r) \/ StopLooping(r) \/ RepairChildren(r) \/ ShowPending(r) \/ ShowReply(r)
            \/ ShowTurn(r) \/ FinalizeNothing(r) \/ ExceedLimit(r)
            \/ StreamErrorChunk(r) \/ Respond(r)
  <2>1. UNCHANGED <<message, req, chain, parents>>
    BY <1>22 DEF Start, StopLooping, RepairChildren, AssignChildren, ShowPending, ShowReply,
       ShowTurn, FinalizeNothing, ExceedLimit, StreamErrorChunk, Respond, local, storeVars
  <2> QED BY <1>1, <2>1, KnowsTheSame DEF NewRowsHangOn, Ids
<1> QED BY <1>6, <1>9, <1>10, <1>11, <1>14, <1>15, <1>16, <1>17, <1>18, <1>19, <1>20, <1>21,
        <1>22 DEF Handler, Setup, Generator, Inference, Refuse, CreateFails, InferenceFails, End,
        Abort, Deadlock

\* What belongs to the other requests, parents among it.
LEMMA OthersKnow ==
  ASSUME Inv, Sound, NEW r \in Requests,
         Post(r) \/ Refuse(r) \/ Handler(r) \/ Abort(r) \/ Deadlock(r)
  PROVE  \A q \in Requests \ {r} : parents'[q] = parents[q]
<1>1. parents \in [Requests -> Seq(MsgRef)]
  BY DEF Inv, TypeOK
<1>2. parents' = parents \/ \E x : parents' = [parents EXCEPT ![r] = x]
  BY DEF Handler, Setup, Generator, Inference, Refuse, Abort, Deadlock, Leave, Forget, Post,
     SetupSystemMessage, ReadThread, Climb, CreateUser, CreateToolResponse, CreateFails,
     CreateAssistant, FinalizeAssistant, Start, StopLooping, AddReply, RepairChildren,
     ShowPending, ShowReply, ShowTurn, SaveReply, CallTool, FinalizeSystem, FinalizeCreated,
     FinalizeNothing, ExceedLimit, End, StreamErrorChunk, InferenceFails, Respond, local
<1> QED BY <1>1, <1>2

\* A reply in the making is the newest message of its request, and nobody learns of it.
LEMMA LoneStays ==
  ASSUME Inv, Sound, PoliteClients, NEW r \in Requests, NEW q \in Requests,
         Post(r) \/ Refuse(r) \/ Handler(r) \/ Abort(r) \/ Deadlock(r),
         pc[q] \in Making, NEW id, id = reply[q], Lone(q, id),
         q = r => Ids' = Ids
  PROVE  Lone(q, id)'
<1>1. id \in Ids /\ id # None /\ message[id].role = "assistant"
  BY ChainRows DEF Making, Replying, Sound, GeneratorSound, ReplySound
<1>2. RowsKept(r) /\ OthersAlone(r) /\ \A p \in Requests \ {r} : parents'[p] = parents[p]
  BY StepKept, OthersKnow
<1>3. ASSUME NEW p \in Requests \ {q} PROVE ~Knows(p, id)'
  <2>1. CASE p = r
    BY <2>1, StepLearns
  <2>2. CASE p # r
    <3>1. req'[p] = req[p] /\ chain'[p] = chain[p] /\ parents'[p] = parents[p]
      BY <1>2, <2>2 DEF OthersAlone
    <3> QED BY <3>1, KnowsTheSame DEF Lone
  <2> QED BY <2>1, <2>2
<1>4. ASSUME NEW c \in Ids PROVE message'[c].parent # id
  <2>1. LinkKept(r, c)
    BY <1>2 DEF RowsKept
  <2>2. CASE message'[c].parent = message[c].parent
    BY <2>2 DEF Lone
  <2>3. ASSUME NEW w \in writes[r], w[1] = c, message'[c].parent = w[2]
        PROVE  w[2] # id
    <3>1. w[2] # None => message[w[2]].role = "tool_call_result"
      BY <2>3 DEF Sound, GeneratorSound, WritesSound
    <3> QED BY <1>1, <3>1
  <2> QED BY <2>1, <2>2, <2>3 DEF LinkKept
<1>5. ASSUME NEW c \in Ids' \ Ids PROVE message'[c].parent # id
  BY <1>5, StepLearns DEF NewRowsHangOn
<1> QED BY <1>3, <1>4, <1>5 DEF Lone

\* The reply that starts a turn is new: nobody can know it.
LEMMA NewIsLone ==
  ASSUME Inv, Inv', Sound, NEW r \in Requests, AddReply(r), NEW n, n = NewId
  PROVE  Lone(r, n)' /\ reply'[r] = n
<1>1. /\ Ids = 1..Len(message) /\ Len(message) \in Nat /\ n = Len(message) + 1
      /\ n \notin Ids /\ n # None
  BY IdsAreNumbers DEF Inv, TypeOK, NewId, None
<1>2. /\ UNCHANGED <<req, parents>> /\ chain' = [chain EXCEPT ![r] = Append(@, n)]
      /\ reply' = [reply EXCEPT ![r] = n] /\ pc[r] = "looping"
      /\ chain \in [Requests -> Seq(MsgId)] /\ reply \in [Requests -> MsgRef]
  BY DEF AddReply, Extend, Inv, TypeOK
<1>3. ASSUME NEW p \in Requests \ {r} PROVE ~Knows(p, n)'
  <2>1. ~Knows(p, n)
    BY <1>1, KnownRows
  <2>2. req'[p] = req[p] /\ parents'[p] = parents[p] /\ chain'[p] = chain[p]
    BY <1>2
  <2> QED BY <2>1, <2>2, KnowsTheSame
<1>4. Ids' = Ids \cup {n}
  <2> DEFINE row == NewRow(r, "assistant", Newest(r), message[Newest(r)].private)
  <2>1. Add(r, row) /\ completions' = completions
    BY DEF AddReply
  <2> HIDE DEF row
  <2> QED BY <1>2, <2>1, AddKept
<1>5. ASSUME NEW c \in Ids' PROVE message'[c].parent # n
  <2>1. c \in 1..n
    BY <1>1, <1>4
  <2>2. message'[c].parent # None => message'[c].parent \in 1..(c - 1)
    BY DEF Inv, TableFits, RowFits, ParentFits
  <2> QED BY <1>1, <2>1, <2>2
<1>6. Lone(r, n)'
  BY <1>3, <1>5 DEF Lone
<1> QED BY <1>2, <1>6

\* No step makes a reply in the making known.
LEMMA UnreadStays ==
  ASSUME Inv, Inv', Sound, PoliteClients, Unread, NEW r \in Requests,
         Post(r) \/ Refuse(r) \/ Handler(r) \/ Abort(r) \/ Deadlock(r)
  PROVE  Unread'
<1> SUFFICES ASSUME NEW q \in Requests, pc'[q] \in Making PROVE Lone(q, reply[q])'
  BY DEF Unread, Making
<1>1. CASE q # r
  <2>1. pc'[q] = pc[q] /\ reply'[q] = reply[q]
    BY <1>1, StepKept DEF OthersAlone
  <2>2. PICK id : id = reply[q]
    OBVIOUS
  <2>3. Lone(q, id)
    BY <2>1, <2>2 DEF Unread
  <2>4. Lone(q, id)'
    BY <1>1, <2>1, <2>2, <2>3, LoneStays
  <2> QED BY <2>1, <2>2, <2>4
<1>2. CASE q = r
  <2>1. \/ AddReply(r)
        \/ RepairChildren(r) \/ ShowReply(r) \/ Respond(r)
    BY ZenonT(40), <1>2 DEF Making, Post, Refuse, Handler, Abort, Deadlock, Setup, Generator, Inference,
       Leave, SetupSystemMessage, ReadThread, Climb, CreateUser, CreateToolResponse, CreateFails,
       CreateAssistant, FinalizeAssistant, Start, StopLooping, ShowPending, ShowTurn, SaveReply,
       CallTool, FinalizeSystem, FinalizeCreated, FinalizeNothing, Finalizing, AfterFinalize,
       ExceedLimit, End, StreamErrorChunk, InferenceFails, Goto, Inv, TypeOK
  <2>2. CASE AddReply(r)
    <3>1. PICK n : n = NewId
      OBVIOUS
    <3>2. Lone(r, n)' /\ reply'[r] = n
      BY <2>2, <3>1, NewIsLone
    <3> QED BY <1>2, <3>2
  <2>3. CASE RepairChildren(r) \/ ShowReply(r) \/ Respond(r)
    <3>1. pc[q] \in Making /\ reply'[q] = reply[q] /\ Ids' = Ids
      BY <1>2, <2>3 DEF RepairChildren, AssignChildren, ShowReply, Shown, Respond, Making, Ids,
         local, storeVars
    <3>2. PICK id : id = reply[q]
      OBVIOUS
    <3>3. Lone(q, id)
      BY <3>1, <3>2 DEF Unread
    <3>4. Lone(q, id)'
      BY <3>1, <3>2, <3>3, LoneStays
    <3> QED BY <3>1, <3>2, <3>4
  <2> QED BY <2>1, <2>2, <2>3
<1> QED BY <1>1, <1>2

\* The last assistant message of a chain is a row of it, or there is none.
LEMMA LastAssistantFits ==
  ASSUME Inv, NEW r \in Requests, LastAssistant(r) # None
  PROVE  \E i \in DOMAIN chain[r] :
           /\ LastAssistant(r) = chain[r][i]
           /\ message[chain[r][i]].role = "assistant"
           /\ \A j \in DOMAIN chain[r] : message[chain[r][j]].role = "assistant" => j <= i
<1> DEFINE at == {i \in DOMAIN chain[r] : message[chain[r][i]].role = "assistant"}
<1>1. at # {} /\ LastAssistant(r) = chain[r][CHOOSE i \in at : \A j \in at : j <= i]
  BY DEF LastAssistant
<1>2. chain[r] \in Seq(MsgId)
  BY DEF Inv, TypeOK
<1>3. at \subseteq 1..Len(chain[r]) /\ Len(chain[r]) \in Nat
  BY <1>2
<1>4. \E i \in at : \A j \in at : j <= i
  <2> HIDE DEF at
  <2> QED BY <1>1, <1>3, GreatestExists
<1> QED BY <1>1, <1>4

\* The last assistant message is the same as long as the chain and its roles are.
LEMMA LastAssistantStays ==
  ASSUME NEW r \in Requests, chain'[r] = chain[r],
         \A i \in DOMAIN chain[r] : message'[chain[r][i]].role = message[chain[r][i]].role
  PROVE  LastAssistant(r)' = LastAssistant(r)
<1> DEFINE at == {i \in DOMAIN chain[r] : message[chain[r][i]].role = "assistant"}
<1>1. at' = at
  OBVIOUS
<1>2. LastAssistant(r) = IF at = {} THEN None
                         ELSE chain[r][CHOOSE i \in at : \A j \in at : j <= i]
  BY DEF LastAssistant
<1>3. LastAssistant(r)' = IF at' = {} THEN None
                          ELSE chain'[r][CHOOSE i \in at' : \A j \in at' : j <= i]
  BY DEF LastAssistant
<1> HIDE DEF at
<1> QED BY <1>1, <1>2, <1>3

\* And nothing else is pending while the table and the chain stay.
LEMMA PendingStays ==
  ASSUME NEW r \in Requests, UNCHANGED message, chain'[r] = chain[r]
  PROVE  HasPendingToolCalls(r)' <=> HasPendingToolCalls(r)
<1>1. LastAssistant(r)' = LastAssistant(r)
  BY LastAssistantStays
<1>2. Answered(r)' = Answered(r)
  BY DEF Answered
<1> QED BY <1>1, <1>2 DEF HasPendingToolCalls

\* Between two turns the last assistant message is the reply, and it is answered.
AnsweredBetween ==
  \A r \in Requests : pc[r] = "looping" /\ reply[r] # None => ~HasPendingToolCalls(r)

LEMMA BetweenIsAnswered == Inv /\ Sound => AnsweredBetween
<1> SUFFICES ASSUME Inv, Sound, NEW r \in Requests, pc[r] = "looping", reply[r] # None,
                    HasPendingToolCalls(r)
             PROVE  FALSE
  BY DEF AnsweredBetween
<1> DEFINE a == LastAssistant(r)
<1>1. a # None /\ \E k \in DOMAIN message[a].calls : <<a, k>> \notin Answered(r)
  BY DEF HasPendingToolCalls
<1>2. PICK i \in DOMAIN chain[r] :
        /\ a = chain[r][i]
        /\ message[chain[r][i]].role = "assistant"
        /\ \A j \in DOMAIN chain[r] : message[chain[r][j]].role = "assistant" => j <= i
  BY <1>1, LastAssistantFits
<1> HIDE DEF a
<1>3. PICK j \in DOMAIN chain[r] : chain[r][j] = reply[r]
  BY ChainRows DEF InChain
<1>4. message[reply[r]].role = "assistant" /\ j <= i
  BY <1>2, <1>3 DEF Sound, GeneratorSound, ReplySound
<1>5. ~(chain[r][i] > reply[r])
  BY <1>2 DEF Sound, GeneratorSound, ReplySound
<1>6. a = reply[r]
  <2>1. chain[r] \in Seq(MsgId)
    BY DEF Inv, TypeOK
  <2>2. i \in Nat /\ j \in Nat /\ chain[r][i] \in Nat /\ chain[r][j] \in Nat
    BY <2>1 DEF MsgId
  <2>3. j < i => chain[r][j] < chain[r][i]
    BY DEF Inv, RequestFits, ChainFits
  <2> QED BY <1>2, <1>3, <1>4, <1>5, <2>2, <2>3
<1>7. \A k \in DOMAIN message[a].calls : <<a, k>> \in Answered(r)
  BY <1>6 DEF Sound, GeneratorSound, TurnSound
<1> QED BY <1>1, <1>7

\* The same after a step.
LEMMA BetweenStaysAnswered == Inv' /\ Sound' => AnsweredBetween'
BY BetweenIsAnswered, PTL

\* A loop that may go on has nothing pending, whatever the others store.
LEMMA NothingPendingStays ==
  ASSUME Inv, Inv', Sound, Sound', Unread, NothingPending, NEW r \in Requests,
         Post(r) \/ Refuse(r) \/ Handler(r) \/ Abort(r) \/ Deadlock(r)
  PROVE  NothingPending'
<1> SUFFICES ASSUME NEW q \in Requests, pc'[q] = "looping" PROVE ~HasPendingToolCalls(q)'
  BY DEF NothingPending
<1>1. CASE reply'[q] # None
  BY <1>1, BetweenStaysAnswered DEF AnsweredBetween
<1>2. CASE q # r
  <2>1. RowsKept(r) /\ pc'[q] = pc[q] /\ chain'[q] = chain[q] /\ KeptFor(q)
    BY <1>2, StepKept, KeptForOthers DEF OthersAlone
  <2>2. \A i \in DOMAIN chain[q] : message'[chain[q][i]].role = message[chain[q][i]].role
    BY <2>1, ChainRows DEF RowsKept, ColumnsKept
  <2>3. LastAssistant(q)' = LastAssistant(q)
    BY <2>1, <2>2, LastAssistantStays
  <2>4. Answered(q)' = Answered(q)
    BY <2>1, AnsweredStays
  <2>5. PICK a : a = LastAssistant(q)
    OBVIOUS
  <2>6. CASE a # None
    <3>1. a \in Ids /\ InChain(q, a)
      BY <2>5, <2>6, LastAssistantFits, ChainRows DEF InChain
    <3>2. ~Saves(r, a)
      BY <1>2, <3>1 DEF Saves, Unread, Making, Lone, Knows
    <3>3. message'[a].calls = message[a].calls
      BY <2>1, <3>1, <3>2 DEF RowsKept, ReplyKept
    <3> QED BY <2>1, <2>3, <2>4, <2>5, <3>3 DEF NothingPending, HasPendingToolCalls
  <2>7. CASE a = None
    BY <2>3, <2>5, <2>7 DEF HasPendingToolCalls
  <2> QED BY <2>6, <2>7
<1>3. CASE q = r /\ reply'[q] = None
  <2>1. Start(r) \/ ShowTurn(r)
    BY ZenonT(40), <1>3 DEF Post, Refuse, Handler, Abort, Deadlock, Setup, Generator, Inference,
       Leave, SetupSystemMessage, ReadThread, Climb, CreateUser, CreateToolResponse, CreateFails,
       CreateAssistant, FinalizeAssistant, AddReply, StopLooping, RepairChildren, Showing,
       ShowPending, ShowReply, SaveReply, CallTool, FinalizeSystem, FinalizeCreated,
       FinalizeNothing, Finalizing, AfterFinalize, ExceedLimit, End, StreamErrorChunk,
       InferenceFails, Respond, Goto, Inv, TypeOK
  <2>2. CASE Start(r)
    <3>1. ~HasPendingToolCalls(r) /\ UNCHANGED <<message, chain>>
      BY <1>3, <2>2 DEF Start, Goto, Inv, TypeOK, local, storeVars
    <3> QED BY <1>3, <3>1, PendingStays
  <2>3. CASE ShowTurn(r)
    <3>1. reply'[r] = reply[r] /\ reply[r] # None
      BY <2>3, ChainRows DEF ShowTurn, Shown, Replying
    <3> QED BY <1>3, <3>1
  <2> QED BY <2>1, <2>2, <2>3
<1> QED BY <1>1, <1>2, <1>3

\* Nobody has posted anything when the server starts.
LEMMA InitWaited == Init => Waited
BY DEF Init, Waited, Unread, NothingPending, Making

\* A step that changes nothing leaves every reply with its maker.
LEMMA StutterWaited == Waited /\ UNCHANGED vars => Waited'
<1> SUFFICES ASSUME Waited, UNCHANGED vars PROVE Waited'
  OBVIOUS
<1>1. UNCHANGED <<message, pc, req, parents, reply, chain>>
  BY DEF vars, storeVars, local
<1>2. Unread'
  BY <1>1 DEF Waited, Unread, Lone, Knows, InChain, Ids
<1>3. NothingPending'
  BY <1>1, PendingStays DEF Waited, NothingPending
<1> QED BY <1>2, <1>3 DEF Waited

\* Every step keeps replies in the making unread and loops without pending calls.
LEMMA NextWaited ==
  PoliteClients /\ Inv /\ Inv' /\ Sound /\ Sound' /\ Waited /\ [Next]_vars => Waited'
<1> SUFFICES ASSUME PoliteClients, Inv, Inv', Sound, Sound', Waited, Next PROVE Waited'
  BY StutterWaited
<1>1. PICK r \in Requests : Post(r) \/ Refuse(r) \/ Handler(r) \/ Abort(r) \/ Deadlock(r)
  BY DEF Next
<1>2. Unread'
  BY <1>1, UnreadStays DEF Waited
<1>3. NothingPending'
  BY <1>1, NothingPendingStays DEF Waited
<1> QED BY <1>2, <1>3 DEF Waited

\* Clients that wait for the end of a stream never learn of a reply before its
\* calls are stored, so a loop that may go on has no call to wait for.
THEOREM WaitedAlways == PoliteClients => (Spec => []Waited)
<1> SUFFICES ASSUME PoliteClients PROVE Spec => []Waited
  OBVIOUS
<1>1. Inv /\ Inv' /\ Sound /\ Sound' /\ Waited /\ [Next]_vars => Waited'
  BY NextWaited
<1> QED BY <1>1, InitWaited, InvAlways, SoundAlways, PTL DEF Spec

\* The generator adds no reply over tool calls that nobody has answered, as long
\* as clients wait for a stream to end before they answer it, whatever the other
\* requests of the thread store between the check and the reply.
THEOREM NoReplyOverPending == PoliteClients => (Spec => NoReplyOverPendingCalls)
<1> SUFFICES ASSUME PoliteClients PROVE Spec => NoReplyOverPendingCalls
  OBVIOUS
<1>1. Waited => (\A r \in Requests :
        pc[r] = "looping" /\ pc'[r] = "showing_reply" => ~HasPendingToolCalls(r))
  BY DEF Waited, NothingPending
<1> QED BY <1>1, WaitedAlways, PTL DEF NoReplyOverPendingCalls

=============================================================================
