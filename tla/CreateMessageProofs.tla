------------------------ MODULE CreateMessageProofs ------------------------
(***************************************************************************)
(* What holds of every instance of CreateMessage: any set of requests, any *)
(* callers, any input and any answer of the model.                         *)
(*                                                                         *)
(* The inductive invariant says that everything a request carries along    *)
(* from one step to the next still fits the table when it is used: the     *)
(* parents it has flushed, the parents it has read, the chain it has       *)
(* climbed, and the visibility and the owner it was validated against.     *)
(* Rows are only added, and what a row says of its thread never changes,   *)
(* so a fact a request has learned stays true while others write.          *)
(***************************************************************************)
EXTENDS CreateMessage, WellFoundedInduction, TLAPS

-----------------------------------------------------------------------------
(***************************************************************************)
(* The inductive invariant.                                                *)
(***************************************************************************)
ParentFits(id, p) ==
  p # None => p \in 1..(id - 1) /\ message[p].root = message[id].root

Owned(id, root) == /\ message[id].private = message[root].private
                   /\ message[id].creator = message[root].creator

RowFits(id) ==
  /\ message[id].root \in 1..id
  /\ message[message[id].root].root = message[id].root
  /\ ParentFits(id, message[id].parent)
  /\ Owned(id, message[id].root)

TableFits == \A id \in Ids : RowFits(id)

\* The rows in the thread of a request, as it was validated.
Mine(r, id) == /\ id \in Ids
               /\ message[id].private = req[r].private
               /\ message[id].creator = req[r].client

WritesFit(r) == \A w \in writes[r] : w[1] \in Ids /\ ParentFits(w[1], w[2])

ReqFits(r) ==
  /\ req[r].parent # None => /\ Mine(r, req[r].parent)
                             /\ ParentFits(req[r].parent, req[r].up)
  /\ req[r].role = "assistant" => req[r].parent # None

SnapshotFits(r) ==
  \A m \in DOMAIN parents[r] : m \in Ids /\ ParentFits(m, parents[r][m])

ChainFits(r) ==
  /\ \A i \in DOMAIN chain[r] : Mine(r, chain[r][i])
  /\ \A i, j \in DOMAIN chain[r] :
       i < j => /\ chain[r][i] < chain[r][j]
                /\ message[chain[r][i]].root = message[chain[r][j]].root

Replying == {"showing_reply", "inferring", "saving", "calling", "showing_turn"}

PcFits(r) ==
  /\ pc[r] \in {"idle", "posted"} => chain[r] = <<>> /\ reply[r] = None
  /\ pc[r] = "climbing" => chain[r] # <<>> /\ chain[r][1] \in DOMAIN parents[r]
  /\ pc[r] \in Streaming \cup {"opening"} => chain[r] # <<>>
  /\ pc[r] \in Replying => reply[r] # None
  /\ reply[r] # None => InChain(r, reply[r])

RequestFits(r) == /\ WritesFit(r)
                  /\ ReqFits(r)
                  /\ SnapshotFits(r)
                  /\ ChainFits(r)
                  /\ PcFits(r)

Inv == TypeOK /\ TableFits /\ \A r \in Requests : RequestFits(r)

-----------------------------------------------------------------------------
(***************************************************************************)
(* Rows are only added, and keep their thread, visibility and owner.       *)
(***************************************************************************)
Frozen ==
  /\ Ids \subseteq Ids'
  /\ \A id \in Ids : /\ message'[id].root = message[id].root
                     /\ message'[id].private = message[id].private
                     /\ message'[id].creator = message[id].creator

\* The identities are the positions.
LEMMA IdsAreNumbers ==
  ASSUME StoreTypeOK
  PROVE  /\ Ids = 1..Len(message) /\ Len(message) \in Nat
         /\ NewId \in MsgId /\ Ids \subseteq MsgId
         /\ \A id \in Ids : message[id] \in Row
BY DEF StoreTypeOK, Ids, NewId, MsgId

\* A set of positions has a least one.
LEMMA LeastExists ==
  ASSUME NEW S, S \subseteq Nat, S # {}
  PROVE  \E m \in S : \A n \in S : m <= n
<1> DEFINE Less == OpToRel(<, Nat)
<1>1. Less = {p \in Nat \X Nat : p[1] < p[2]}
  BY Zenon DEF OpToRel
<1>2. IsWellFoundedOn(Less, Nat)
  BY NatLessThanWellFounded, Zenon
<1> HIDE DEF Less
<1>3. PICK m \in S : \A n \in S : ~(<<n, m>> \in Less)
  BY <1>2, WFMin, Zenon
<1>4. ASSUME NEW n \in S PROVE m <= n
  <2>1. <<n, m>> \in Nat \X Nat /\ m \in Nat /\ n \in Nat  OBVIOUS
  <2>2. ~(<<n, m>>[1] < <<n, m>>[2])
    BY <1>1, <1>3, <2>1, Zenon
  <2> QED BY <2>1, <2>2
<1> QED BY <1>4

-----------------------------------------------------------------------------
(***************************************************************************)
(* The table under commits.                                                *)
(***************************************************************************)

\* The parent that a commit stores is the old one or one the request wrote.
LEMMA ParentInCases ==
  ASSUME NEW W, NEW id, NEW old
  PROVE  ParentIn(W, id, old) = old \/ \E w \in W : w[1] = id /\ ParentIn(W, id, old) = w[2]
BY DEF ParentIn

\* A commit changes nothing of a row but its parent and its error, and the
\* parent still fits.
LEMMA CommitFits ==
  ASSUME NEW r \in Requests, TypeOK, TableFits, WritesFit(r)
  PROVE  /\ Committed(r) \in Seq(Row)
         /\ Len(Committed(r)) = Len(message)
         /\ \A id \in Ids :
              /\ Committed(r)[id] \in Row
              /\ Committed(r)[id].root = message[id].root
              /\ Committed(r)[id].private = message[id].private
              /\ Committed(r)[id].creator = message[id].creator
              /\ ParentFits(id, Committed(r)[id].parent)
<1> DEFINE P(id) == ParentIn(writes[r], id, message[id].parent)
           E(id) == message[id].err \/ id \in errs[r]
<1>1. /\ Ids = 1..Len(message) /\ Len(message) \in Nat
      /\ \A id \in Ids : message[id] \in Row
  BY IdsAreNumbers DEF TypeOK
<1>2. ASSUME NEW id \in Ids
      PROVE  P(id) \in MsgRef /\ ParentFits(id, P(id))
  <2>1. message[id].parent \in MsgRef /\ ParentFits(id, message[id].parent)
    BY <1>1 DEF TableFits, RowFits, Row
  <2>2. ASSUME NEW w \in writes[r], w[1] = id, P(id) = w[2]
        PROVE  P(id) \in MsgRef /\ ParentFits(id, P(id))
    <3>1. w \in MsgId \X MsgRef
      BY DEF TypeOK, StoreTypeOK
    <3> QED BY <2>2, <3>1 DEF WritesFit
  <2> QED BY <2>1, <2>2, ParentInCases
<1>3. ASSUME NEW id \in Ids
      PROVE  /\ Committed(r)[id] \in Row
             /\ Committed(r)[id].root = message[id].root
             /\ Committed(r)[id].private = message[id].private
             /\ Committed(r)[id].creator = message[id].creator
             /\ Committed(r)[id].parent = P(id)
  <2>1. Committed(r)[id] = [message[id] EXCEPT !.parent = P(id), !.err = E(id)]
    BY DEF Committed
  <2>2. message[id] \in Row /\ P(id) \in MsgRef
    BY <1>1, <1>2
  <2>3. E(id) \in BOOLEAN
    BY <2>2 DEF Row
  <2> HIDE DEF P, E
  <2> QED BY <2>1, <2>2, <2>3 DEF Row
<1>4. Committed(r) \in [1..Len(message) -> Row]
  <2>1. Committed(r) = [id \in Ids |-> Committed(r)[id]]
    BY DEF Committed
  <2> QED BY <1>1, <1>3, <2>1
<1>5. Committed(r) \in Seq(Row) /\ Len(Committed(r)) = Len(message)
  BY <1>1, <1>4
<1> QED BY <1>2, <1>3, <1>5

\* A new row starts a thread or follows a row of one.
RowJoins(row) ==
  /\ row \in Row
  /\ \/ row.parent = None /\ row.root = NewId
     \/ /\ row.parent \in Ids
        /\ row.root = message[row.parent].root
        /\ row.private = message[row.parent].private
        /\ row.creator = message[row.parent].creator

\* What an action may do to the table.
TableStep == /\ message' \in Seq(Row)
             /\ Frozen
             /\ TableFits'

\* An insert adds a row that joins the table and changes no link of the others.
LEMMA AddFits ==
  ASSUME NEW r \in Requests, NEW row, TypeOK, TableFits, WritesFit(r),
         RowJoins(row), Add(r, row)
  PROVE  /\ TableStep
         /\ Len(message') = Len(message) + 1
         /\ message'[NewId] = row
<1> DEFINE C == Committed(r)
<1>1. /\ Ids = 1..Len(message) /\ Len(message) \in Nat
      /\ \A id \in Ids : message[id] \in Row
  BY IdsAreNumbers DEF TypeOK
<1>2. /\ C \in Seq(Row)
      /\ Len(C) = Len(message)
      /\ \A id \in Ids :
           /\ C[id].root = message[id].root
           /\ C[id].private = message[id].private
           /\ C[id].creator = message[id].creator
           /\ ParentFits(id, C[id].parent)
  BY CommitFits
<1>3. message' = Append(C, row) /\ row \in Row
  BY DEF Add, RowJoins
<1> HIDE DEF C
<1>4. /\ message' \in Seq(Row)
      /\ Len(message') = Len(message) + 1
      /\ message'[NewId] = row
      /\ \A id \in Ids : message'[id] = C[id]
      /\ Ids' = 1..(Len(message) + 1)
  BY <1>1, <1>2, <1>3 DEF NewId, Ids
<1>5. Frozen
  BY <1>1, <1>2, <1>4 DEF Frozen
<1>6. ASSUME NEW id \in Ids' PROVE RowFits(id)'
  <2>1. CASE id \in Ids
    <3>1. RowFits(id)
      BY <2>1 DEF TableFits
    <3>2. ParentFits(id, message'[id].parent)
      BY <1>2, <1>4, <2>1
    <3> DEFINE q == message[id].root
    <3>3. q \in Ids /\ message'[id].root = q /\ message'[q].root = message[q].root
      BY <1>1, <1>5, <2>1, <3>1 DEF RowFits, Frozen
    <3>4. ParentFits(id, message[id].parent)'
      BY <1>1, <1>5, <2>1, <3>2 DEF ParentFits, Frozen
    <3>5. Owned(id, q)'
      BY <1>5, <2>1, <3>1, <3>3 DEF RowFits, Owned, Frozen
    <3> QED BY <3>1, <3>3, <3>4, <3>5 DEF RowFits
  <2>2. CASE id = NewId
    <3>1. CASE row.parent = None /\ row.root = NewId
      BY <1>1, <1>4, <2>2, <3>1 DEF RowFits, ParentFits, Owned, NewId
    <3>2. CASE /\ row.parent \in Ids
               /\ row.root = message[row.parent].root
               /\ row.private = message[row.parent].private
               /\ row.creator = message[row.parent].creator
      <4> DEFINE p == row.parent
                 q == row.root
      <4>1. RowFits(p) /\ p \in 1..Len(message)
        BY <1>1, <3>2 DEF TableFits
      <4>2. q \in 1..p /\ q \in Ids /\ message[q].root = q /\ Owned(p, q)
        BY <1>1, <3>2, <4>1 DEF RowFits
      <4>3. message'[q].root = q /\ message'[p].root = q
        BY <1>5, <3>2, <4>2 DEF Frozen
      <4>4. Owned(id, q)'
        BY <1>4, <1>5, <2>2, <3>2, <4>2 DEF Owned, Frozen
      <4>5. ParentFits(id, p)'
        BY <1>1, <1>4, <2>2, <4>1, <4>3 DEF ParentFits, NewId
      <4> QED BY <1>1, <1>4, <2>2, <4>1, <4>2, <4>3, <4>4, <4>5 DEF RowFits, NewId
    <3> QED BY <3>1, <3>2 DEF RowJoins
  <2> QED BY <1>1, <1>4, <2>1, <2>2 DEF NewId
<1> QED BY <1>4, <1>5, <1>6 DEF TableStep, TableFits

\* An update of a row that is in the table changes none of the links.
LEMMA UpdateFits ==
  ASSUME NEW r \in Requests, NEW id \in Nat, NEW calls \in Seq(Source),
         NEW c \in BOOLEAN, TypeOK, TableFits, WritesFit(r),
         Update(r, id, calls, c)
  PROVE  /\ TableStep
         /\ Len(message') = Len(message)
<1> DEFINE C == Committed(r)
<1>1. /\ Ids = 1..Len(message) /\ Len(message) \in Nat
      /\ \A m \in Ids : message[m] \in Row
  BY IdsAreNumbers DEF TypeOK
<1>2. /\ C \in Seq(Row)
      /\ Len(C) = Len(message)
      /\ \A m \in Ids :
           /\ C[m] \in Row
           /\ C[m].root = message[m].root
           /\ C[m].private = message[m].private
           /\ C[m].creator = message[m].creator
           /\ ParentFits(m, C[m].parent)
  BY CommitFits
<1>3. message' = [C EXCEPT ![id].final = TRUE, ![id].calls = calls,
                           ![id].completion = c]
  BY DEF Update
<1> HIDE DEF C
<1>4. ASSUME NEW m \in Ids
      PROVE  /\ message'[m] \in Row
             /\ message'[m].root = C[m].root
             /\ message'[m].private = C[m].private
             /\ message'[m].creator = C[m].creator
             /\ message'[m].parent = C[m].parent
  <2>1. C[m] \in Row /\ m \in DOMAIN C
    BY <1>1, <1>2
  <2>2. \/ message'[m] = C[m]
        \/ message'[m] = [C[m] EXCEPT !.final = TRUE, !.calls = calls, !.completion = c]
    BY <1>3, <2>1
  <2> QED BY <2>1, <2>2 DEF Row
<1>5. message' \in Seq(Row) /\ Len(message') = Len(message) /\ Ids' = Ids
  <2> DEFINE D1 == [C EXCEPT ![id].final = TRUE]
             D2 == [D1 EXCEPT ![id].calls = calls]
  <2>1. C = [m \in 1..Len(message) |-> C[m]]
    BY <1>1, <1>2
  <2>2. D1 = [m \in 1..Len(message) |-> D1[m]]
    BY <2>1
  <2>3. D2 = [m \in 1..Len(message) |-> D2[m]]
    BY <2>2
  <2>4. message' = [D2 EXCEPT ![id].completion = c]
    BY <1>3
  <2> HIDE DEF D1, D2
  <2>5. message' = [m \in 1..Len(message) |-> message'[m]]
    BY <2>3, <2>4
  <2>6. message' \in [1..Len(message) -> Row]
    BY <1>1, <1>4, <2>5
  <2> QED BY <1>1, <2>6 DEF Ids
<1>6. Frozen
  BY <1>2, <1>4, <1>5 DEF Frozen
<1>7. ASSUME NEW m \in Ids' PROVE RowFits(m)'
  <2>1. m \in Ids /\ RowFits(m) /\ ParentFits(m, C[m].parent)
    BY <1>2, <1>5 DEF TableFits
  <2> DEFINE q == message[m].root
  <2>2. q \in Ids /\ message'[m].root = q /\ message'[q].root = message[q].root
    BY <1>1, <1>6, <2>1 DEF RowFits, Frozen
  <2>3. ParentFits(m, message[m].parent)'
    BY <1>1, <1>4, <1>6, <2>1 DEF ParentFits, Frozen
  <2>4. Owned(m, q)'
    BY <1>6, <2>1, <2>2 DEF RowFits, Owned, Frozen
  <2> QED BY <2>1, <2>2, <2>3, <2>4 DEF RowFits
<1> QED BY <1>5, <1>6, <1>7 DEF TableStep, TableFits

\* A step that leaves the table alone keeps what holds of it.
LEMMA IdleTableFits ==
  ASSUME TypeOK, TableFits, UNCHANGED message
  PROVE  TableStep
BY DEF TableStep, TypeOK, StoreTypeOK, Frozen, TableFits, RowFits, ParentFits, Owned, Ids

-----------------------------------------------------------------------------
(***************************************************************************)
(* What a request knows stays true while others write.                     *)
(***************************************************************************)
\* A link that fits still fits when other rows have been added.
LEMMA ParentFitsStable ==
  ASSUME TypeOK, Frozen, NEW id \in Ids, NEW p, ParentFits(id, p)
  PROVE  ParentFits(id, p)'
<1>1. Ids = 1..Len(message) /\ Len(message) \in Nat
  BY IdsAreNumbers DEF TypeOK
<1> QED BY <1>1 DEF ParentFits, Frozen

\* The parents a request has flushed still fit after a step of another request.
LEMMA WritesStable ==
  ASSUME TypeOK, Frozen, NEW q \in Requests, WritesFit(q), writes'[q] = writes[q]
  PROVE  WritesFit(q)'
<1>1. SUFFICES ASSUME NEW w \in writes[q] PROVE w[1] \in Ids' /\ ParentFits(w[1], w[2])'
  BY DEF WritesFit
<1>2. w[1] \in Ids /\ ParentFits(w[1], w[2])
  BY DEF WritesFit
<1> QED BY <1>2, ParentFitsStable DEF Frozen

\* What validation has read of the thread stays true while others write.
LEMMA ReqStable ==
  ASSUME TypeOK, Frozen, NEW q \in Requests, ReqFits(q), req'[q] = req[q]
  PROVE  ReqFits(q)'
<1>1. req[q].parent # None => ParentFits(req[q].parent, req[q].up)'
  BY ParentFitsStable DEF ReqFits, Mine
<1>2. req[q].parent # None => Mine(q, req[q].parent)'
  BY DEF ReqFits, Mine, Frozen
<1> QED BY <1>1, <1>2 DEF ReqFits, Mine, ParentFits

\* The parents read by setup_msg_thread still fit after a step of another request.
LEMMA SnapshotStable ==
  ASSUME TypeOK, Frozen, NEW q \in Requests, SnapshotFits(q), parents'[q] = parents[q]
  PROVE  SnapshotFits(q)'
<1>1. SUFFICES ASSUME NEW m \in DOMAIN parents[q]
               PROVE  m \in Ids' /\ ParentFits(m, parents[q][m])'
  BY DEF SnapshotFits, ParentFits
<1>2. m \in Ids /\ ParentFits(m, parents[q][m])
  BY DEF SnapshotFits
<1> QED BY <1>2, ParentFitsStable DEF Frozen, ParentFits

\* message_chain stays a chain of one thread while others write.
LEMMA ChainStable ==
  ASSUME Frozen, NEW q \in Requests, ChainFits(q), chain'[q] = chain[q], req'[q] = req[q]
  PROVE  ChainFits(q)'
BY DEF ChainFits, Mine, Frozen

\* Where a handler is says as much of its objects after a step of another.
LEMMA PcStable ==
  ASSUME NEW q \in Requests, PcFits(q), pc'[q] = pc[q], chain'[q] = chain[q],
         parents'[q] = parents[q], reply'[q] = reply[q]
  PROVE  PcFits(q)'
BY DEF PcFits, InChain

\* A step that leaves the objects of a request alone keeps all that it relies on.
LEMMA RequestStable ==
  ASSUME TypeOK, Frozen, NEW q \in Requests, RequestFits(q), writes'[q] = writes[q],
         req'[q] = req[q], parents'[q] = parents[q], chain'[q] = chain[q],
         pc'[q] = pc[q], reply'[q] = reply[q]
  PROVE  RequestFits(q)'
BY WritesStable, ReqStable, SnapshotStable, ChainStable, PcStable DEF RequestFits

-----------------------------------------------------------------------------
(***************************************************************************)
(* The invariant from its parts: a step of r leaves the objects of the     *)
(* other requests alone.                                                   *)
(***************************************************************************)
Others(r) ==
  \A q \in Requests \ {r} :
    /\ writes'[q] = writes[q]
    /\ req'[q] = req[q]
    /\ parents'[q] = parents[q]
    /\ chain'[q] = chain[q]
    /\ pc'[q] = pc[q]
    /\ reply'[q] = reply[q]

\* The invariant holds after a step of r when it holds of the table and of r.
LEMMA StepKeeps ==
  ASSUME Inv, NEW r \in Requests, TableStep, Others(r), TypeOK', RequestFits(r)'
  PROVE  Inv'
<1>1. ASSUME NEW q \in Requests \ {r} PROVE RequestFits(q)'
  BY RequestStable DEF Inv, TableStep, Others
<1> QED BY <1>1 DEF Inv, TableStep

\* The facts about r that most steps start from.
LEMMA ChainProperties ==
  ASSUME Inv, NEW r \in Requests
  PROVE  /\ chain[r] \in Seq(MsgId) /\ Len(chain[r]) \in Nat
         /\ DOMAIN chain[r] = 1..Len(chain[r])
         /\ \A i \in DOMAIN chain[r] : Mine(r, chain[r][i])
         /\ chain[r] # <<>> => /\ Newest(r) = chain[r][Len(chain[r])]
                               /\ Len(chain[r]) \in DOMAIN chain[r]
                               /\ Mine(r, Newest(r))
                               /\ Newest(r) # None
         /\ chain[r] = <<>> => Newest(r) = None
         /\ \A i \in DOMAIN chain[r] :
              message[chain[r][i]].root = message[Newest(r)].root
<1>1. /\ chain[r] \in Seq(MsgId) /\ Len(chain[r]) \in Nat
      /\ DOMAIN chain[r] = 1..Len(chain[r])
  BY DEF Inv, TypeOK
<1>2. \A i \in DOMAIN chain[r] : Mine(r, chain[r][i])
  BY DEF Inv, RequestFits, ChainFits
<1>3. ASSUME chain[r] # <<>>
      PROVE  /\ Newest(r) = chain[r][Len(chain[r])]
             /\ Len(chain[r]) \in DOMAIN chain[r]
             /\ Mine(r, Newest(r))
             /\ Newest(r) # None
  <2>1. Len(chain[r]) \in DOMAIN chain[r] /\ Newest(r) = chain[r][Len(chain[r])]
    BY <1>1, <1>3 DEF Newest, Last
  <2>2. chain[r][Len(chain[r])] \in MsgId
    BY <1>1, <2>1
  <2> QED BY <1>2, <2>1, <2>2 DEF MsgId, None
<1>4. ASSUME NEW i \in DOMAIN chain[r]
      PROVE  message[chain[r][i]].root = message[Newest(r)].root
  <2>1. chain[r] # <<>> /\ i \in 1..Len(chain[r])
    BY <1>1
  <2>2. i = Len(chain[r]) \/ i < Len(chain[r])
    BY <1>1, <2>1
  <2> QED BY <1>3, <2>1, <2>2 DEF Inv, RequestFits, ChainFits
<1> QED BY <1>1, <1>2, <1>3, <1>4 DEF Newest

\* What NewRow makes may be added when its parent is in the thread.
LEMMA NewRowJoins ==
  ASSUME Inv, NEW r \in Requests, NEW role \in Role, NEW p, NEW v \in BOOLEAN,
         p = None \/ (Mine(r, p) /\ p # None /\ v = req[r].private)
  PROVE  LET row == NewRow(r, role, p, v)
         IN  /\ RowJoins(row)
             /\ row.private = v /\ row.creator = req[r].client
             /\ p # None => row.root = message[p].root
<1>1. /\ Ids \subseteq MsgId /\ NewId \in MsgId
      /\ \A id \in Ids : message[id] \in Row
  BY IdsAreNumbers DEF Inv, TypeOK
<1>2. req[r].client \in Clients
  BY DEF Inv, TypeOK, Request
<1>3. p \in MsgRef /\ (p # None => p \in Ids /\ message[p].root \in MsgId)
  <2>1. CASE p = None  BY <2>1 DEF MsgRef, None
  <2>2. CASE Mine(r, p) /\ p # None
    <3>1. p \in Ids /\ message[p] \in Row  BY <1>1, <2>2 DEF Mine
    <3>2. message[p].root \in MsgId  BY <3>1 DEF Row
    <3> QED BY <1>1, <2>2, <3>1, <3>2 DEF MsgId, MsgRef
  <2> QED BY <2>1, <2>2
<1>4. <<>> \in Seq(Source) /\ NoCall \in CallId
  BY DEF NoCall, CallId, None, MsgRef
<1>5. NewRow(r, role, p, v) \in Row
  BY <1>1, <1>2, <1>3, <1>4 DEF NewRow, Row
<1> QED BY <1>3, <1>5 DEF NewRow, RowJoins, Mine

\* A row completed to a tool response joins its thread as before.
LEMMA ResponseJoins ==
  ASSUME NEW row, RowJoins(row), NEW a \in CallId, NEW e \in BOOLEAN
  PROVE  LET res == [row EXCEPT !.final = TRUE, !.answers = a, !.err = e]
         IN  /\ RowJoins(res)
             /\ res.private = row.private /\ res.creator = row.creator
             /\ res.root = row.root
BY DEF RowJoins, Row

\* message_chain stays a chain when the row just added is appended to it.
LEMMA ExtendFits ==
  ASSUME Inv, NEW r \in Requests, NEW row, TableStep, Len(message') = Len(message) + 1,
         message'[NewId] = row, row.private = req[r].private,
         row.creator = req[r].client,
         chain[r] # <<>> => row.root = message[Newest(r)].root,
         chain'[r] = Append(chain[r], NewId), req'[r] = req[r]
  PROVE  ChainFits(r)'
<1> DEFINE n == Len(chain[r])
<1>1. /\ n \in Nat /\ DOMAIN chain[r] = 1..n /\ chain[r] \in Seq(MsgId)
      /\ \A i \in 1..n : Mine(r, chain[r][i])
      /\ n > 0 => chain[r] # <<>>
      /\ \A i \in 1..n : message[chain[r][i]].root = message[Newest(r)].root
  BY ChainProperties
<1>2. /\ DOMAIN chain'[r] = 1..(n + 1)
      /\ \A i \in 1..n : chain'[r][i] = chain[r][i]
      /\ chain'[r][n + 1] = NewId
  BY <1>1
<1>3. Ids = 1..Len(message) /\ Len(message) \in Nat /\ Ids' = 1..(Len(message) + 1)
  BY IdsAreNumbers DEF Inv, TypeOK, TableStep, Ids
<1>4. ASSUME NEW i \in 1..n
      PROVE  /\ Mine(r, chain[r][i])'
             /\ chain[r][i] < NewId
             /\ message'[chain[r][i]].root = message[Newest(r)].root
  <2>1. chain'[r][i] = chain[r][i] /\ Mine(r, chain[r][i])
    BY <1>1, <1>2
  <2>2. chain[r][i] < NewId
    BY <1>3, <2>1 DEF Mine, NewId
  <2>3. Mine(r, chain[r][i])'
    BY <2>1 DEF TableStep, Frozen, Mine
  <2>4. message'[chain[r][i]].root = message[Newest(r)].root
    BY <1>1, <2>1 DEF TableStep, Frozen, Mine
  <2> QED BY <2>2, <2>3, <2>4
<1>5. ASSUME NEW i \in 1..(n + 1) PROVE Mine(r, chain[r][i])'
  <2>1. CASE i \in 1..n  BY <1>4, <2>1
  <2>2. CASE i = n + 1   BY <1>2, <1>3, <2>2 DEF Mine, NewId
  <2> QED BY <1>1, <2>1, <2>2
<1>6. ASSUME NEW i \in 1..(n + 1), NEW j \in 1..(n + 1), i < j
      PROVE  /\ chain'[r][i] < chain'[r][j]
             /\ message'[chain'[r][i]].root = message'[chain'[r][j]].root
  <2>1. CASE j \in 1..n
    <3>1. i \in 1..n  BY <1>1, <1>6, <2>1
    <3>2. chain[r][i] < chain[r][j]
      BY <1>1, <1>6, <2>1, <3>1 DEF Inv, RequestFits, ChainFits
    <3> QED BY <1>2, <1>4, <2>1, <3>1, <3>2
  <2>2. CASE j = n + 1
    <3>1. i \in 1..n /\ chain[r] # <<>>  BY <1>1, <1>6, <2>2
    <3> QED BY <1>2, <1>4, <2>2, <3>1
  <2> QED BY <1>1, <2>1, <2>2
<1> QED BY <1>2, <1>5, <1>6 DEF ChainFits

-----------------------------------------------------------------------------
(***************************************************************************)
(* The steps that end a request.                                           *)
(***************************************************************************)
\* The request of a handler that has not begun is of the type of a request.
LEMMA NoRequestType == NoRequest \in Request
<1>1. (CHOOSE c \in Clients : TRUE) \in Clients
  BY ClientsAssumption
<1>2. None \in MsgRef /\ NoCall \in CallId /\ "system" \in Role /\ 0 \in Int
  BY DEF None, MsgRef, NoCall, CallId, Role
<1> QED BY <1>1, <1>2 DEF NoRequest, Request

\* A request whose objects are gone relies on nothing.
LEMMA ForgottenFits ==
  ASSUME Inv, NEW r \in Requests, Forget(r), WritesFit(r)', pc'[r] \notin Running
  PROVE  RequestFits(r)'
<1>1. /\ req'[r] = NoRequest /\ parents'[r] = <<>> /\ chain'[r] = <<>> /\ reply'[r] = None
  BY DEF Inv, TypeOK, Forget
<1>2. ReqFits(r)'
  BY <1>1 DEF ReqFits, NoRequest
<1>3. SnapshotFits(r)' /\ ChainFits(r)'
  BY <1>1 DEF SnapshotFits, ChainFits
<1>4. PcFits(r)'
  BY <1>1 DEF PcFits, Running, Streaming, Replying
<1> QED BY <1>2, <1>3, <1>4 DEF RequestFits

\* A response that ends by a return or an exception keeps the invariant.
LEMMA LeaveKeeps ==
  ASSUME Inv, NEW r \in Requests, NEW how \in {"refused", "failed", "done"}, Leave(r, how)
  PROVE  Inv'
<1>1. TableStep
  BY IdleTableFits DEF Inv, Leave, Rollback
<1>2. Others(r)
  BY DEF Inv, TypeOK, StoreTypeOK, Leave, Goto, Rollback, SessionEmptied, Forget, Others
<1>3. WritesFit(r)'
  BY DEF Inv, TypeOK, StoreTypeOK, Leave, Rollback, SessionEmptied, WritesFit
<1>4. pc'[r] = how /\ how \in PC \ Running
  BY DEF Inv, TypeOK, Leave, Goto, PC, Running, Streaming
<1>5. TypeOK'
  <2>1. StoreTypeOK'
    BY DEF Inv, TypeOK, StoreTypeOK, Leave, Rollback, SessionEmptied
  <2>2. req' \in [Requests -> Request]
    BY NoRequestType DEF Inv, TypeOK, Leave, Forget
  <2>3. pc' \in [Requests -> PC]
    BY <1>4 DEF Inv, TypeOK, Leave, Goto
  <2>4. /\ parents' \in [Requests -> Seq(MsgRef)]
        /\ chain' \in [Requests -> Seq(MsgId)]
        /\ created' \in [Requests -> MsgRef]
        /\ open' \in [Requests -> SUBSET MsgId]
        /\ reply' \in [Requests -> MsgRef]
        /\ heard' \in [Requests -> Seq(Source)]
        /\ step' \in [Requests -> Nat]
    BY DEF Inv, TypeOK, Leave, Forget, None, MsgRef
  <2> QED BY <2>1, <2>2, <2>3, <2>4 DEF TypeOK
<1> QED BY <1>1, <1>2, <1>3, <1>4, <1>5, ForgottenFits, StepKeeps DEF Leave

\* Every way to end a request but finalizing an assistant message rolls back only.
LEMMA EndingKeeps ==
  ASSUME Inv, NEW r \in Requests,
         \/ Refuse(r) \/ CreateFails(r) \/ InferenceFails(r)
         \/ End(r) \/ Abort(r) \/ Deadlock(r)
  PROVE  Inv'
BY LeaveKeeps DEF Refuse, CreateFails, InferenceFails, End, Abort, Deadlock

\* The second commit of a client-written assistant message keeps the invariant.
LEMMA FinalizeAssistantKeeps ==
  ASSUME Inv, NEW r \in Requests, FinalizeAssistant(r)
  PROVE  Inv'
<1>1. TableStep
  <2>1. created[r] \in Nat /\ <<>> \in Seq(Source) /\ FALSE \in BOOLEAN
    BY DEF Inv, TypeOK, MsgRef
  <2> QED BY <2>1, UpdateFits DEF Inv, RequestFits, FinalizeAssistant
<1>2. Others(r)
  BY DEF Inv, TypeOK, StoreTypeOK, FinalizeAssistant, Update, Goto, SessionEmptied,
         Forget, Others
<1>3. WritesFit(r)'
  BY DEF Inv, TypeOK, StoreTypeOK, FinalizeAssistant, Update, SessionEmptied, WritesFit
<1>4. pc'[r] = "done" /\ pc' \in [Requests -> PC] /\ "done" \notin Running
  BY DEF Inv, TypeOK, FinalizeAssistant, Goto, PC, Running, Streaming
<1>5. TypeOK'
  <2>1. StoreTypeOK'
    BY <1>1 DEF Inv, TypeOK, StoreTypeOK, FinalizeAssistant, Update, SessionEmptied,
                TableStep
  <2>2. req' \in [Requests -> Request]
    BY NoRequestType DEF Inv, TypeOK, FinalizeAssistant, Forget
  <2>3. /\ parents' \in [Requests -> Seq(MsgRef)]
        /\ chain' \in [Requests -> Seq(MsgId)]
        /\ created' \in [Requests -> MsgRef]
        /\ open' \in [Requests -> SUBSET MsgId]
        /\ reply' \in [Requests -> MsgRef]
        /\ heard' \in [Requests -> Seq(Source)]
        /\ step' \in [Requests -> Nat]
    BY DEF Inv, TypeOK, FinalizeAssistant, Forget, None, MsgRef
  <2> QED BY <1>4, <2>1, <2>2, <2>3 DEF TypeOK
<1>6. RequestFits(r)'
  BY <1>3, <1>4, ForgottenFits DEF FinalizeAssistant
<1> QED BY <1>1, <1>2, <1>5, <1>6, StepKeeps

-----------------------------------------------------------------------------
(***************************************************************************)
(* The steps that only move on.                                            *)
(***************************************************************************)

\* Nothing but the place and the count of turns of r changes.
LEMMA MoveKeeps ==
  ASSUME Inv, NEW r \in Requests, NEW where \in PC, NEW n \in Nat,
         Goto(r, where),
         UNCHANGED <<storeVars, req, parents, chain, created, open, reply, heard>>,
         step' = step \/ step' = [step EXCEPT ![r] = n],
         where \notin {"idle", "posted", "climbing"},
         where \in Streaming \cup {"opening"} => chain[r] # <<>>,
         where \in Replying => reply[r] # None
  PROVE  Inv'
<1>1. TableStep
  BY IdleTableFits DEF Inv, storeVars
<1>2. Others(r)
  BY DEF Inv, TypeOK, storeVars, Goto, Others
<1>3. TypeOK'
  BY DEF Inv, TypeOK, StoreTypeOK, storeVars, Goto
<1>4. RequestFits(r)'
  <2>1. WritesFit(r)' /\ ReqFits(r)' /\ SnapshotFits(r)' /\ ChainFits(r)'
    BY <1>1, WritesStable, ReqStable, SnapshotStable, ChainStable
    DEF Inv, RequestFits, TableStep, storeVars
  <2>2. pc'[r] = where
    BY DEF Inv, TypeOK, Goto
  <2>3. PcFits(r)'
    BY <2>2 DEF Inv, RequestFits, PcFits, InChain
  <2> QED BY <2>1, <2>3 DEF RequestFits
<1> QED BY <1>1, <1>2, <1>3, <1>4, StepKeeps

\* The steps of the generator that touch no row keep the invariant.
LEMMA MovesKeep ==
  ASSUME Inv, NEW r \in Requests,
         \/ Start(r) \/ StopLooping(r) \/ ShowPending(r) \/ ShowReply(r)
         \/ ShowTurn(r) \/ FinalizeNothing(r) \/ ExceedLimit(r)
  PROVE  Inv'
<1>1. /\ pc[r] \in Streaming \cup {"opening"} => chain[r] # <<>>
      /\ pc[r] \in Replying => reply[r] # None
      /\ step[r] \in Nat
  BY DEF Inv, TypeOK, RequestFits, PcFits
<1> DEFINE Same == UNCHANGED <<storeVars, req, parents, chain, created, open, reply, heard>>
<1>2. CASE \/ Start(r) \/ StopLooping(r) \/ ShowPending(r) \/ ShowReply(r)
           \/ FinalizeNothing(r) \/ ExceedLimit(r)
  <2>1. Same /\ step' = step
    BY <1>2 DEF Start, StopLooping, ShowPending, ShowReply, FinalizeNothing,
                ExceedLimit, local
  <2>2. PICK where \in PC \ {"idle", "posted", "climbing"} :
          /\ Goto(r, where)
          /\ pc[r] \in Streaming \cup {"opening"}
          /\ where \in Replying => pc[r] \in Replying
    BY <1>2 DEF Start, StopLooping, ShowPending, Shown, ShowReply, FinalizeNothing,
                Finalizing, AfterFinalize, ExceedLimit, PC, Running, Streaming, Replying
  <2> QED BY <1>1, <2>1, <2>2, MoveKeeps
<1>3. CASE ShowTurn(r)
  <2>1. Same /\ (step' = step \/ step' = [step EXCEPT ![r] = step[r] + 1])
    BY <1>3 DEF ShowTurn
  <2>2. PICK where \in {"ending", "looping"} : Goto(r, where)
    BY <1>3 DEF ShowTurn
  <2>3. where \in PC \ ({"idle", "posted", "climbing"} \cup Replying) /\ chain[r] # <<>>
    BY <1>1, <1>3 DEF ShowTurn, Shown, PC, Running, Streaming, Replying
  <2> QED BY <1>1, <2>1, <2>2, <2>3, MoveKeeps
<1> QED BY <1>2, <1>3

-----------------------------------------------------------------------------
(***************************************************************************)
(* Validation and the chain.                                               *)
(***************************************************************************)
\* A request that passes validation fits the thread it names.
LEMMA PostKeeps ==
  ASSUME Inv, NEW r \in Requests, Post(r)
  PROVE  Inv'
<1> PICK in \in Inputs, parent \in {None} \cup Ids, call \in {NoCall} \cup StoredCalls :
      /\ Valid(in, parent, call)
      /\ req' = [req EXCEPT ![r] =
                   [client |-> in.client, role |-> in.role, parent |-> parent,
                    up |-> IF parent = None THEN None ELSE message[parent].parent,
                    private |-> PrivateOf(in), call |-> call,
                    limit |-> in.limit, prompt |-> in.prompt /\ parent = None]]
      /\ open' = [open EXCEPT ![r] =
                    IF parent = None THEN {}
                    ELSE {m \in {RootOf(parent)} : ~message[m].final}]
  BY DEF Post
<1> DEFINE up == IF parent = None THEN None ELSE message[parent].parent
           new == [client |-> in.client, role |-> in.role, parent |-> parent,
                   up |-> up, private |-> PrivateOf(in), call |-> call,
                   limit |-> in.limit, prompt |-> in.prompt /\ parent = None]
<1>1. /\ pc[r] = "idle" /\ pc' = [pc EXCEPT ![r] = "posted"]
      /\ UNCHANGED <<storeVars, parents, chain, created, reply, heard, step>>
  BY DEF Post, Goto
<1>2. TableStep
  BY <1>1, IdleTableFits DEF Inv, storeVars
<1>3. Others(r)
  BY <1>1 DEF Inv, TypeOK, storeVars, Others
<1>4. /\ Ids = 1..Len(message) /\ Len(message) \in Nat /\ Ids \subseteq MsgId
      /\ \A id \in Ids : message[id] \in Row
  BY IdsAreNumbers DEF Inv, TypeOK
<1>5. parent # None => parent \in Ids /\ RowFits(parent) /\ RootOf(parent) \in Ids
  BY <1>4 DEF Inv, TableFits, RowFits, RootOf
<1>6. new \in Request
  <2>1. call \in CallId
    <3>1. ASSUME NEW m \in Ids, NEW k \in DOMAIN message[m].calls PROVE <<m, k>> \in CallId
      <4>1. message[m].calls \in Seq(Source)  BY <1>4 DEF Row
      <4> QED BY <1>4, <4>1 DEF CallId, MsgRef
    <3> QED BY <3>1 DEF StoredCalls, NoCall, CallId, None, MsgRef
  <2>2. up \in MsgRef /\ parent \in MsgRef
    <3>1. parent # None => message[parent].parent \in MsgRef  BY <1>4, <1>5 DEF Row
    <3> QED BY <1>4, <3>1 DEF MsgRef, None
  <2>3. /\ in.client \in Clients /\ in.role \in Role /\ in.private \in BOOLEAN
        /\ in.limit \in Int /\ in.prompt \in BOOLEAN
    BY InputsAssumption
  <2>4. PrivateOf(in) \in BOOLEAN
    BY <2>3 DEF PrivateOf
  <2> HIDE DEF up
  <2> QED BY <2>1, <2>2, <2>3, <2>4 DEF Request
<1>7. TypeOK'
  <2>1. req' \in [Requests -> Request]
    BY <1>6 DEF Inv, TypeOK
  <2>2. open' \in [Requests -> SUBSET MsgId]
    BY <1>4, <1>5 DEF Inv, TypeOK
  <2>3. StoreTypeOK' /\ pc' \in [Requests -> PC]
    BY <1>1 DEF Inv, TypeOK, StoreTypeOK, storeVars, PC, Running
  <2> QED BY <1>1, <2>1, <2>2, <2>3 DEF Inv, TypeOK
<1>8. RequestFits(r)'
  <2>1. req'[r] = new /\ pc'[r] = "posted"
    BY <1>1 DEF Inv, TypeOK
  <2>2. ReqFits(r)'
    <3>1. ASSUME parent # None
          PROVE  /\ message[parent].private = PrivateOf(in)
                 /\ message[parent].creator = in.client
                 /\ ParentFits(parent, message[parent].parent)
      BY <1>5, <3>1 DEF RowFits, Owned, Valid, RootOf
    <3>2. in.role = "assistant" => parent # None
      BY DEF Valid
    <3> QED BY <1>1, <1>5, <2>1, <3>1, <3>2 DEF ReqFits, Mine, ParentFits, Ids, storeVars
  <2>3. WritesFit(r)' /\ SnapshotFits(r)'
    BY <1>1, <1>2, WritesStable, SnapshotStable
    DEF Inv, RequestFits, TableStep, storeVars
  <2>4. chain'[r] = <<>> /\ reply'[r] = None
    BY <1>1 DEF Inv, RequestFits, PcFits
  <2>5. ChainFits(r)' /\ PcFits(r)'
    BY <2>1, <2>4 DEF ChainFits, PcFits, Streaming, Replying
  <2> QED BY <2>2, <2>3, <2>5 DEF RequestFits
<1> QED BY <1>2, <1>3, <1>7, <1>8, StepKeeps

\* The read of the thread in setup_msg_thread gives parents that fit.
LEMMA ReadThreadKeeps ==
  ASSUME Inv, NEW r \in Requests, ReadThread(r)
  PROVE  Inv'
<1> DEFINE p == req[r].parent
           snap == [m \in Ids |-> IF m = p THEN req[r].up ELSE message[m].parent]
<1>1. /\ pc[r] = "posted" /\ pc' = [pc EXCEPT ![r] = "climbing"] /\ p # None
      /\ parents' = [parents EXCEPT ![r] = snap]
      /\ chain' = [chain EXCEPT ![r] = Append(@, p)]
      /\ UNCHANGED <<storeVars, req, created, open, reply, heard, step>>
  BY DEF ReadThread, Goto, Extend
<1>2. TableStep
  BY <1>1, IdleTableFits DEF Inv, storeVars
<1>3. Others(r)
  BY <1>1 DEF Inv, TypeOK, storeVars, Others
<1>4. /\ Ids = 1..Len(message) /\ Len(message) \in Nat /\ Ids \subseteq MsgId
      /\ \A id \in Ids : message[id] \in Row
  BY IdsAreNumbers DEF Inv, TypeOK
<1>5. /\ Mine(r, p) /\ ParentFits(p, req[r].up) /\ p \in Ids
      /\ chain[r] = <<>> /\ reply[r] = None
  BY <1>1 DEF Inv, RequestFits, ReqFits, PcFits, Mine
<1>6. \A m \in Ids : snap[m] \in MsgRef /\ ParentFits(m, snap[m])
  <2>1. \A m \in Ids : message[m].parent \in MsgRef /\ ParentFits(m, message[m].parent)
    BY <1>4 DEF Inv, TableFits, RowFits, Row
  <2>2. req[r].up \in MsgRef
    BY DEF Inv, TypeOK, Request
  <2> QED BY <1>5, <2>1, <2>2
<1>7. snap \in Seq(MsgRef) /\ DOMAIN snap = Ids
  BY <1>4, <1>6
<1> HIDE DEF snap
<1>8. Append(chain[r], p) = <<p>> /\ p \in MsgId
  BY <1>4, <1>5
<1>9. TypeOK'
  <2>1. chain' \in [Requests -> Seq(MsgId)]
    BY <1>1, <1>8 DEF Inv, TypeOK
  <2>2. parents' \in [Requests -> Seq(MsgRef)] /\ pc' \in [Requests -> PC]
    BY <1>1, <1>7 DEF Inv, TypeOK, PC, Running
  <2> QED BY <1>1, <2>1, <2>2 DEF Inv, TypeOK, StoreTypeOK, storeVars
<1>10. RequestFits(r)'
  <2>1. /\ parents'[r] = snap /\ chain'[r] = <<p>> /\ pc'[r] = "climbing"
        /\ reply'[r] = None
    BY <1>1, <1>5, <1>8 DEF Inv, TypeOK
  <2>2. WritesFit(r)' /\ ReqFits(r)'
    BY <1>1, <1>2, WritesStable, ReqStable
    DEF Inv, RequestFits, TableStep, storeVars
  <2>3. SnapshotFits(r)'
    BY <1>1, <1>6, <1>7, <2>1 DEF SnapshotFits, ParentFits, Ids, storeVars
  <2>4. ChainFits(r)'
    <3>1. Mine(r, p)'
      BY <1>1, <1>5 DEF Mine, Ids, storeVars
    <3>2. DOMAIN chain'[r] = {1} /\ chain'[r][1] = p
      BY <2>1
    <3> QED BY <3>1, <3>2, <2>1, <1>1, <1>5 DEF ChainFits, Mine, Ids, storeVars
  <2>5. PcFits(r)'
    BY <1>5, <1>7, <2>1 DEF PcFits, Streaming, Replying
  <2> QED BY <2>2, <2>3, <2>4, <2>5 DEF RequestFits
<1> QED BY <1>2, <1>3, <1>9, <1>10, StepKeeps

\* The chain grows at the root's end by an older row of the same thread.
LEMMA ClimbKeeps ==
  ASSUME Inv, NEW r \in Requests, Climb(r)
  PROVE  Inv'
<1> DEFINE up == parents[r][chain[r][1]]
<1>1. /\ pc[r] = "climbing"
      /\ UNCHANGED <<storeVars, req, created, open, reply, heard, step>>
  BY DEF Climb
<1>2. TableStep
  BY <1>1, IdleTableFits DEF Inv, storeVars
<1>3. /\ chain[r] # <<>> /\ chain[r][1] \in DOMAIN parents[r] /\ chain[r][1] \in Ids
      /\ ParentFits(chain[r][1], up) /\ up \in MsgRef
  <2>1. chain[r] # <<>> /\ chain[r][1] \in DOMAIN parents[r]
    BY <1>1 DEF Inv, RequestFits, PcFits
  <2>2. parents[r] \in Seq(MsgRef)
    BY DEF Inv, TypeOK
  <2>3. up \in MsgRef
    BY <2>1, <2>2
  <2> QED BY <2>1, <2>3 DEF Inv, RequestFits, SnapshotFits
<1>4. Ids = 1..Len(message) /\ Len(message) \in Nat /\ Ids \subseteq MsgId
  BY IdsAreNumbers DEF Inv, TypeOK
<1>5. WritesFit(r)' /\ ReqFits(r)'
  BY <1>1, <1>2, WritesStable, ReqStable DEF Inv, RequestFits, TableStep, storeVars
<1>6. CASE up # None
  <2>1. /\ chain' = [chain EXCEPT ![r] = <<up>> \o @]
        /\ UNCHANGED <<pc, parents>>
    BY <1>6 DEF Climb
  <2>2. up \in Ids /\ up < chain[r][1] /\ message[up].root = message[chain[r][1]].root
    BY <1>3, <1>4, <1>6 DEF ParentFits
  <2> DEFINE n == Len(chain[r])
  <2>3. /\ n \in Nat \ {0} /\ DOMAIN chain[r] = 1..n /\ chain[r] \in Seq(MsgId)
        /\ \A i \in 1..n : Mine(r, chain[r][i])
        /\ \A i \in 1..n : message[chain[r][i]].root = message[chain[r][1]].root
        /\ \A i, j \in 1..n : i < j => chain[r][i] < chain[r][j]
    <3>1. n \in Nat \ {0} /\ 1 \in 1..n
      BY <1>3, ChainProperties
    <3> QED BY <3>1, ChainProperties DEF Inv, RequestFits, ChainFits
  <2>4. chain'[r] = <<up>> \o chain[r]
    BY <2>1 DEF Inv, TypeOK
  <2>5. /\ chain'[r] \in Seq(MsgId)
        /\ DOMAIN chain'[r] = 1..(n + 1)
        /\ chain'[r][1] = up
        /\ \A i \in 2..(n + 1) : chain'[r][i] = chain[r][i - 1]
    BY <1>4, <2>2, <2>3, <2>4
  <2>6. Mine(r, up)
    <3>1. RowFits(up) /\ RowFits(chain[r][1]) /\ Mine(r, chain[r][1])
      BY <1>3, <2>2, <2>3 DEF Inv, TableFits
    <3> QED BY <2>2, <3>1 DEF RowFits, Owned, Mine
  <2>7. ChainFits(r)'
    <3>1. ASSUME NEW i \in 1..(n + 1)
          PROVE  Mine(r, chain'[r][i]) /\ message[chain'[r][i]].root = message[up].root
      <4>1. CASE i = 1  BY <2>5, <2>6, <4>1
      <4>2. CASE i \in 2..(n + 1)
        <5>1. i - 1 \in 1..n /\ chain'[r][i] = chain[r][i - 1]  BY <2>3, <2>5, <4>2
        <5> QED BY <2>2, <2>3, <5>1
      <4> QED BY <2>3, <4>1, <4>2
    <3>2. ASSUME NEW i \in 1..(n + 1), NEW j \in 1..(n + 1), i < j
          PROVE  chain'[r][i] < chain'[r][j]
      <4>1. j \in 2..(n + 1) /\ j - 1 \in 1..n /\ chain'[r][j] = chain[r][j - 1]
        BY <2>3, <2>5, <3>2
      <4>2. CASE i = 1
        <5>1. chain[r][1] \in Nat /\ chain[r][j - 1] \in Nat /\ up \in Nat
          BY <1>3, <1>4, <2>2, <2>3, <4>1 DEF Mine, MsgId
        <5>2. j - 1 = 1 \/ chain[r][1] < chain[r][j - 1]
          BY <2>3, <4>1
        <5> QED BY <2>2, <2>5, <4>1, <4>2, <5>1, <5>2
      <4>3. CASE i \in 2..(n + 1)
        <5>1. i - 1 \in 1..n /\ i - 1 < j - 1 /\ chain'[r][i] = chain[r][i - 1]
          BY <2>3, <2>5, <3>2, <4>3
        <5> QED BY <2>3, <4>1, <5>1
      <4> QED BY <2>3, <4>2, <4>3
    <3>3. \A i \in 1..(n + 1) : Mine(r, chain[r][i])'
      BY <1>1, <3>1 DEF Mine, Ids, storeVars
    <3>4. \A i \in 1..(n + 1) : message'[chain'[r][i]].root = message'[up].root
      BY <1>1, <3>1 DEF storeVars
    <3> QED BY <2>5, <3>2, <3>3, <3>4 DEF ChainFits
  <2>8. TypeOK'
    <3>1. chain' \in [Requests -> Seq(MsgId)]
      BY <2>1, <2>4, <2>5 DEF Inv, TypeOK
    <3> QED BY <1>1, <2>1, <3>1 DEF Inv, TypeOK, StoreTypeOK, storeVars
  <2>9. SnapshotFits(r)'
    BY <1>1, <1>2, <2>1, SnapshotStable DEF Inv, RequestFits, TableStep, storeVars
  <2>10. PcFits(r)'
    <3>1. up \in DOMAIN parents[r]
      <4>1. parents[r] \in Seq(MsgRef)  BY DEF Inv, TypeOK
      <4> QED BY <1>3, <1>4, <2>2, <4>1
    <3>2. chain'[r] # <<>> /\ pc'[r] = "climbing"
      BY <1>1, <2>1, <2>3, <2>5
    <3>3. reply'[r] # None => InChain(r, reply[r])'
      <4> SUFFICES ASSUME reply[r] # None PROVE InChain(r, reply[r])'
        BY <1>1
      <4>1. PICK i \in 1..n : chain[r][i] = reply[r]
        BY <2>3 DEF Inv, RequestFits, PcFits, InChain
      <4>2. i + 1 \in 2..(n + 1) /\ chain'[r][i + 1] = chain[r][i]
        BY <2>3, <2>5, <4>1
      <4> QED BY <1>1, <2>3, <2>5, <4>1, <4>2 DEF InChain
    <3> QED BY <2>1, <2>5, <3>1, <3>2, <3>3 DEF PcFits, Streaming, Replying
  <2>11. Others(r)
    BY <1>1, <2>1 DEF Inv, TypeOK, storeVars, Others
  <2> QED BY <1>2, <1>5, <2>7, <2>8, <2>9, <2>10, <2>11, StepKeeps DEF RequestFits
<1>7. CASE up = None
  <2>1. /\ pc' = [pc EXCEPT ![r] = "chained"]
        /\ parents' = [parents EXCEPT ![r] = <<>>]
        /\ chain' = chain
    BY <1>7 DEF Climb, Goto
  <2>2. Others(r)
    BY <1>1, <2>1 DEF Inv, TypeOK, storeVars, Others
  <2>3. TypeOK'
    BY <1>1, <2>1 DEF Inv, TypeOK, StoreTypeOK, storeVars, PC, Running
  <2>4. parents'[r] = <<>> /\ pc'[r] = "chained"
    BY <2>1 DEF Inv, TypeOK
  <2>5. SnapshotFits(r)'
    BY <2>4 DEF SnapshotFits
  <2>6. ChainFits(r)'
    BY <1>1, <1>2, <2>1, ChainStable DEF Inv, RequestFits, TableStep
  <2>7. PcFits(r)'
    BY <1>1, <2>1, <2>4 DEF Inv, RequestFits, PcFits, Streaming, Replying, InChain
  <2> QED BY <1>2, <1>5, <2>2, <2>3, <2>5, <2>6, <2>7, StepKeeps DEF RequestFits
<1> QED BY <1>6, <1>7

-----------------------------------------------------------------------------
(***************************************************************************)
(* The steps that add a row.                                               *)
(***************************************************************************)

\* After a commit the request has nothing flushed, and the types of the table
\* are kept.
LEMMA CommitTypes ==
  ASSUME Inv, NEW r \in Requests, SessionEmptied(r), message' \in Seq(Row),
         completions' \in SUBSET MsgId, loaded' = loaded
  PROVE  /\ StoreTypeOK'
         /\ WritesFit(r)'
         /\ \A q \in Requests \ {r} : writes'[q] = writes[q]
BY DEF Inv, TypeOK, StoreTypeOK, SessionEmptied, WritesFit

\* The row goes to the end of the chain.
LEMMA AddKeeps ==
  ASSUME Inv, NEW r \in Requests, NEW row, NEW where \in PC,
         Add(r, row), RowJoins(row),
         row.private = req[r].private, row.creator = req[r].client,
         chain[r] # <<>> => row.root = message[Newest(r)].root,
         Extend(r, NewId), pc' = [pc EXCEPT ![r] = where],
         UNCHANGED <<completions, loaded, req, parents, heard, step>>,
         created' \in [Requests -> MsgRef], open' \in [Requests -> SUBSET MsgId],
         reply' = reply \/ reply' = [reply EXCEPT ![r] = NewId],
         where \notin {"idle", "posted", "climbing"},
         where \in Replying => reply'[r] # None
  PROVE  Inv'
<1>1. /\ TableStep
      /\ Len(message') = Len(message) + 1
      /\ message'[NewId] = row
  BY AddFits DEF Inv, RequestFits
<1>2. NewId \in MsgId
  BY IdsAreNumbers DEF Inv, TypeOK
<1>3. /\ StoreTypeOK' /\ WritesFit(r)'
      /\ \A q \in Requests \ {r} : writes'[q] = writes[q]
  BY <1>1, CommitTypes DEF Add, TableStep, Inv, TypeOK, StoreTypeOK
<1>4. /\ chain[r] \in Seq(MsgId) /\ Len(chain[r]) \in Nat
      /\ DOMAIN chain[r] = 1..Len(chain[r])
  BY ChainProperties
<1>5. /\ chain'[r] = Append(chain[r], NewId) /\ chain'[r] \in Seq(MsgId)
      /\ DOMAIN chain'[r] = 1..(Len(chain[r]) + 1)
      /\ \A i \in 1..Len(chain[r]) : chain'[r][i] = chain[r][i]
      /\ chain'[r][Len(chain[r]) + 1] = NewId
  <2>1. chain'[r] = Append(chain[r], NewId)
    BY DEF Extend, Inv, TypeOK
  <2> QED BY <1>2, <1>4, <2>1
<1>6. TypeOK'
  <2>1. chain' \in [Requests -> Seq(MsgId)]
    BY <1>5 DEF Inv, TypeOK, Extend
  <2>2. reply' \in [Requests -> MsgRef]
    BY <1>2 DEF Inv, TypeOK, MsgId, MsgRef
  <2>3. pc' \in [Requests -> PC]
    BY DEF Inv, TypeOK
  <2> QED BY <1>3, <2>1, <2>2, <2>3 DEF Inv, TypeOK
<1>7. Others(r)
  BY <1>3 DEF Inv, TypeOK, Extend, Others
<1>8. ReqFits(r)' /\ SnapshotFits(r)'
  BY <1>1, ReqStable, SnapshotStable DEF Inv, RequestFits, TableStep
<1>9. ChainFits(r)'
  BY <1>1, <1>5, ExtendFits
<1>10. PcFits(r)'
  <2>1. pc'[r] = where
    BY DEF Inv, TypeOK
  <2>2. chain'[r] # <<>>
    BY <1>4, <1>5
  <2>3. ASSUME reply'[r] # None PROVE InChain(r, reply[r])'
    <3>1. CASE reply'[r] = reply[r]
      <4>1. PICK i \in 1..Len(chain[r]) : chain[r][i] = reply[r]
        BY <1>4, <2>3, <3>1 DEF Inv, RequestFits, PcFits, InChain
      <4> QED BY <1>4, <1>5, <3>1, <4>1 DEF InChain
    <3>2. CASE reply'[r] = NewId
      <4>1. Len(chain[r]) + 1 \in DOMAIN chain'[r]
        BY <1>4, <1>5
      <4> QED BY <1>5, <3>2, <4>1 DEF InChain
    <3> QED BY <3>1, <3>2 DEF Inv, TypeOK
  <2> QED BY <2>1, <2>2, <2>3 DEF PcFits
<1> QED BY <1>1, <1>3, <1>6, <1>7, <1>8, <1>9, <1>10, StepKeeps DEF RequestFits

\* The user message of a request joins the thread of its chain.
LEMMA CreateUserKeeps ==
  ASSUME Inv, NEW r \in Requests, CreateUser(r)
  PROVE  Inv'
<1> DEFINE row == NewRow(r, "user", Newest(r), req[r].private)
<1>1. req[r].private \in BOOLEAN /\ "user" \in Role /\ "opening" \in PC /\ NewId \in MsgId
  BY IdsAreNumbers DEF Inv, TypeOK, Request, Role, PC, Running
<1>2. Newest(r) = None \/ (Mine(r, Newest(r)) /\ Newest(r) # None)
  BY ChainProperties
<1>3. /\ RowJoins(row) /\ row.private = req[r].private /\ row.creator = req[r].client
      /\ Newest(r) # None => row.root = message[Newest(r)].root
  BY <1>1, <1>2, NewRowJoins
<1>4. chain[r] # <<>> => row.root = message[Newest(r)].root
  BY <1>3, ChainProperties
<1> HIDE DEF row
<1>5. created' \in [Requests -> MsgRef] /\ open' \in [Requests -> SUBSET MsgId]
  BY <1>1 DEF CreateUser, Inv, TypeOK, MsgId, MsgRef
<1>6. /\ Add(r, row) /\ Extend(r, NewId) /\ pc' = [pc EXCEPT ![r] = "opening"]
      /\ UNCHANGED <<completions, loaded, req, parents, reply, heard, step>>
  BY DEF CreateUser, Goto, row
<1> QED BY <1>1, <1>3, <1>4, <1>5, <1>6, AddKeeps DEF Replying

\* The system message starts a thread owned by the caller.
LEMMA SetupSystemMessageKeeps ==
  ASSUME Inv, NEW r \in Requests, SetupSystemMessage(r)
  PROVE  Inv'
<1> DEFINE row == NewRow(r, "system", None, req[r].private)
<1>1. /\ req[r].private \in BOOLEAN /\ "system" \in Role /\ "chained" \in PC
      /\ NewId \in MsgId
  BY IdsAreNumbers DEF Inv, TypeOK, Request, Role, PC, Running
<1>2. chain[r] = <<>> /\ reply[r] = None
  BY DEF SetupSystemMessage, Inv, RequestFits, PcFits
<1>3. CASE req[r].prompt
  <2>1. RowJoins(row) /\ row.private = req[r].private /\ row.creator = req[r].client
    BY <1>1, NewRowJoins
  <2> HIDE DEF row
  <2>2. open' \in [Requests -> SUBSET MsgId]
    <3>1. open' = [open EXCEPT ![r] = @ \cup {NewId}]
      BY <1>3 DEF SetupSystemMessage
    <3> QED BY <1>1, <3>1 DEF Inv, TypeOK
  <2>3. /\ Add(r, row) /\ Extend(r, NewId) /\ pc' = [pc EXCEPT ![r] = "chained"]
        /\ UNCHANGED <<completions, loaded, req, parents, created, reply, heard, step>>
    BY <1>3 DEF SetupSystemMessage, Goto, row
  <2>4. created' \in [Requests -> MsgRef]
    BY <2>3 DEF Inv, TypeOK
  <2> QED BY <1>1, <1>2, <2>1, <2>2, <2>3, <2>4, AddKeeps DEF Replying
<1>4. CASE ~req[r].prompt
  <2>1. /\ Goto(r, "chained")
        /\ UNCHANGED <<storeVars, req, parents, chain, created, open, reply, heard, step>>
    BY <1>4 DEF SetupSystemMessage, storeVars
  <2> QED BY <1>1, <2>1, MoveKeeps DEF Streaming, Replying, Inv, TypeOK
<1> QED BY <1>3, <1>4

\* The client's tool response joins the thread of its chain.
LEMMA CreateToolResponseKeeps ==
  ASSUME Inv, NEW r \in Requests, CreateToolResponse(r)
  PROVE  Inv'
<1> DEFINE p == Newest(r)
           new == NewRow(r, "tool_call_result", p, message[p].private)
           row == [new EXCEPT !.final = TRUE, !.answers = req[r].call,
                              !.err = message[p].err]
<1>1. /\ "tool_call_result" \in Role /\ "opening" \in PC /\ NewId \in MsgId
      /\ req[r].call \in CallId
      /\ \A id \in Ids : message[id] \in Row
  BY IdsAreNumbers DEF Inv, TypeOK, Request, Role, PC, Running
<1>2. chain[r] # <<>>
  <2>1. \E i \in DOMAIN chain[r] : TRUE
    BY DEF CreateToolResponse, Answerable, LastAssistant
  <2> QED BY <2>1
<1>3. Mine(r, p) /\ p # None
  BY <1>2, ChainProperties
<1>4. message[p].private = req[r].private /\ message[p].private \in BOOLEAN
      /\ message[p].err \in BOOLEAN
  <2>1. message[p] \in Row /\ message[p].private = req[r].private
    BY <1>1, <1>3 DEF Mine
  <2> QED BY <2>1 DEF Row
<1>5. /\ RowJoins(new) /\ new.private = req[r].private /\ new.creator = req[r].client
      /\ new.root = message[p].root
  BY <1>1, <1>3, <1>4, NewRowJoins
<1> HIDE DEF new
<1>6. /\ RowJoins(row) /\ row.private = req[r].private /\ row.creator = req[r].client
      /\ row.root = message[Newest(r)].root
  <2>1. /\ RowJoins(row) /\ row.private = new.private /\ row.creator = new.creator
        /\ row.root = new.root
    <3>1. RowJoins(new) /\ req[r].call \in CallId /\ message[p].err \in BOOLEAN
      BY <1>1, <1>4, <1>5
    <3> HIDE DEF p
    <3> QED BY ZenonT(40), <3>1, ResponseJoins
  <2> QED BY <1>5, <2>1, Zenon
<1>7. /\ Add(r, row) /\ Extend(r, NewId) /\ pc' = [pc EXCEPT ![r] = "opening"]
      /\ UNCHANGED <<completions, loaded, req, parents, open, reply, heard, step>>
  BY DEF CreateToolResponse, Goto, new
<1>8. created' \in [Requests -> MsgRef] /\ open' \in [Requests -> SUBSET MsgId]
  BY <1>1 DEF CreateToolResponse, Inv, TypeOK, MsgId, MsgRef
<1> HIDE DEF row
<1> QED BY <1>1, <1>6, <1>7, <1>8, AddKeeps DEF Replying

\* The empty reply of a turn joins the thread of the chain.
LEMMA AddReplyKeeps ==
  ASSUME Inv, NEW r \in Requests, AddReply(r)
  PROVE  Inv'
<1> DEFINE p == Newest(r)
           row == NewRow(r, "assistant", p, message[p].private)
<1>1. /\ "assistant" \in Role /\ "showing_reply" \in PC /\ NewId \in MsgId /\ NewId # None
      /\ \A id \in Ids : message[id] \in Row
  BY IdsAreNumbers DEF Inv, TypeOK, Role, PC, Running, Streaming, MsgId, None
<1>2. chain[r] # <<>>
  BY DEF AddReply, Inv, RequestFits, PcFits, Streaming
<1>3. Mine(r, p) /\ p # None
  BY <1>2, ChainProperties
<1>4. message[p].private = req[r].private /\ message[p].private \in BOOLEAN
  <2>1. message[p] \in Row /\ message[p].private = req[r].private
    BY <1>1, <1>3 DEF Mine
  <2> QED BY <2>1 DEF Row
<1>5. /\ RowJoins(row) /\ row.private = req[r].private /\ row.creator = req[r].client
      /\ row.root = message[Newest(r)].root
  BY <1>1, <1>3, <1>4, NewRowJoins
<1>6. /\ Add(r, row) /\ Extend(r, NewId) /\ pc' = [pc EXCEPT ![r] = "showing_reply"]
      /\ reply' = [reply EXCEPT ![r] = NewId]
      /\ UNCHANGED <<completions, loaded, req, parents, created, open, heard, step>>
  BY DEF AddReply, Goto
<1> HIDE DEF row
<1>7. /\ created' \in [Requests -> MsgRef] /\ open' \in [Requests -> SUBSET MsgId]
      /\ reply'[r] # None
  BY <1>1, <1>6 DEF Inv, TypeOK
<1> QED BY <1>1, <1>5, <1>6, <1>7, AddKeeps

\* The response to a server tool joins the thread of the reply.
LEMMA CallToolKeeps ==
  ASSUME Inv, NEW r \in Requests, CallTool(r)
  PROVE  Inv'
<1> DEFINE p == reply[r]
           k == NextCall(r)
           new == NewRow(r, "tool_call_result", p, message[p].private)
           row == [new EXCEPT !.final = TRUE, !.answers = <<p, k>>,
                              !.err = message[p].err]
<1>1. /\ "tool_call_result" \in Role /\ pc[r] = "calling" /\ "calling" \in PC
      /\ \A id \in Ids : message[id] \in Row
  BY IdsAreNumbers DEF CallTool, Inv, TypeOK, Role, PC, Running, Streaming
<1>2. p # None /\ InChain(r, p)
  BY <1>1 DEF Inv, RequestFits, PcFits, Replying
<1>3. PICK i \in DOMAIN chain[r] : chain[r][i] = p
  BY <1>2 DEF InChain
<1>4. Mine(r, p) /\ message[p].root = message[Newest(r)].root
  BY <1>3, ChainProperties
<1>5. /\ message[p].private = req[r].private /\ message[p].private \in BOOLEAN
      /\ message[p].err \in BOOLEAN /\ message[p].calls \in Seq(Source)
  <2>1. message[p] \in Row /\ message[p].private = req[r].private
    BY <1>1, <1>4 DEF Mine
  <2> QED BY <2>1 DEF Row
<1>6. <<p, k>> \in CallId
  <2>1. Uncalled(r) \subseteq Nat /\ Uncalled(r) # {}
    <3>1. DOMAIN message[p].calls \subseteq Nat
      BY <1>5
    <3> QED BY <3>1 DEF Uncalled, CallTool
  <2>2. k \in Uncalled(r)
    BY <2>1, LeastExists DEF NextCall
  <2>3. p \in MsgRef
    BY DEF Inv, TypeOK
  <2> QED BY <2>1, <2>2, <2>3 DEF CallId
<1>7. /\ RowJoins(new) /\ new.private = req[r].private /\ new.creator = req[r].client
      /\ new.root = message[p].root
  BY <1>1, <1>2, <1>4, <1>5, NewRowJoins
<1> HIDE DEF new
<1>8. /\ RowJoins(row) /\ row.private = req[r].private /\ row.creator = req[r].client
      /\ row.root = message[Newest(r)].root
  <2>1. /\ RowJoins(row) /\ row.private = new.private /\ row.creator = new.creator
        /\ row.root = new.root
    <3>1. RowJoins(new) /\ <<p, k>> \in CallId /\ message[p].err \in BOOLEAN
      BY <1>5, <1>6, <1>7
    <3> HIDE DEF p, k
    <3> QED BY <3>1, ResponseJoins, ZenonT(40)
  <2> QED BY <1>4, <1>7, <2>1, Zenon
<1>9. /\ Add(r, row) /\ Extend(r, NewId)
      /\ UNCHANGED <<completions, loaded, pc, req, parents, created, open, reply, heard, step>>
  BY DEF CallTool, ResponseTo, new
<1> HIDE DEF row
<1>10. /\ pc' = [pc EXCEPT ![r] = "calling"]
       /\ created' \in [Requests -> MsgRef] /\ open' \in [Requests -> SUBSET MsgId]
       /\ reply'[r] # None
  BY <1>1, <1>2, <1>9 DEF Inv, TypeOK
<1> QED BY <1>1, <1>8, <1>9, <1>10, AddKeeps

\* The chain stays as it is: this message is the answer to the request.
LEMMA CreateAssistantKeeps ==
  ASSUME Inv, NEW r \in Requests, CreateAssistant(r)
  PROVE  Inv'
<1> DEFINE p == req[r].parent
           row == NewRow(r, "assistant", p, message[p].private)
<1>1. /\ "assistant" \in Role /\ "made" \in PC /\ NewId \in MsgId
      /\ \A id \in Ids : message[id] \in Row
  BY IdsAreNumbers DEF Inv, TypeOK, Role, PC, Running
<1>2. Mine(r, p) /\ p # None
  BY DEF CreateAssistant, Inv, RequestFits, ReqFits
<1>3. message[p].private = req[r].private /\ message[p].private \in BOOLEAN
  <2>1. message[p] \in Row /\ message[p].private = req[r].private
    BY <1>1, <1>2 DEF Mine
  <2> QED BY <2>1 DEF Row
<1>4. RowJoins(row)
  BY <1>1, <1>2, <1>3, NewRowJoins
<1>5. /\ Add(r, row) /\ pc' = [pc EXCEPT ![r] = "made"]
      /\ created' = [created EXCEPT ![r] = NewId]
      /\ UNCHANGED <<completions, loaded, req, parents, chain, open, reply, heard, step>>
  BY DEF CreateAssistant, Goto
<1> HIDE DEF row
<1>6. TableStep
  BY <1>4, <1>5, AddFits DEF Inv, RequestFits
<1>7. /\ StoreTypeOK' /\ WritesFit(r)'
      /\ \A q \in Requests \ {r} : writes'[q] = writes[q]
  BY <1>5, <1>6, CommitTypes DEF Add, TableStep, Inv, TypeOK, StoreTypeOK
<1>8. TypeOK'
  BY <1>1, <1>5, <1>7 DEF Inv, TypeOK, MsgId, MsgRef
<1>9. Others(r)
  BY <1>5, <1>7 DEF Inv, TypeOK, Others
<1>10. ReqFits(r)' /\ SnapshotFits(r)' /\ ChainFits(r)'
  BY <1>5, <1>6, ReqStable, SnapshotStable, ChainStable DEF Inv, RequestFits, TableStep
<1>11. PcFits(r)'
  <2>1. pc'[r] = "made"
    BY <1>5 DEF Inv, TypeOK
  <2> QED BY <1>5, <2>1 DEF Inv, RequestFits, PcFits, Streaming, Replying, InChain
<1> QED BY <1>6, <1>7, <1>8, <1>9, <1>10, <1>11, StepKeeps DEF RequestFits

-----------------------------------------------------------------------------
(***************************************************************************)
(* The steps of a turn that change rows or columns, and the repair of the  *)
(* children collections.                                                   *)
(***************************************************************************)

\* Nothing that the invariant relates changes but the table and the place of r.
LEMMA SaveKeeps ==
  ASSUME Inv, NEW r \in Requests, NEW where \in PC, TableStep, SessionEmptied(r),
         pc' = [pc EXCEPT ![r] = where],
         UNCHANGED <<completions, loaded, req, parents, chain, created, reply, step>>,
         open' \in [Requests -> SUBSET MsgId], heard' \in [Requests -> Seq(Source)],
         where \notin {"idle", "posted", "climbing"},
         where \in Streaming \cup {"opening"} => chain[r] # <<>>,
         where \in Replying => reply[r] # None
  PROVE  Inv'
<1>1. /\ StoreTypeOK' /\ WritesFit(r)'
      /\ \A q \in Requests \ {r} : writes'[q] = writes[q]
  BY CommitTypes DEF TableStep, Inv, TypeOK, StoreTypeOK
<1>2. TypeOK'
  BY <1>1 DEF Inv, TypeOK
<1>3. Others(r)
  BY <1>1 DEF Inv, TypeOK, Others
<1>4. ReqFits(r)' /\ SnapshotFits(r)' /\ ChainFits(r)'
  BY ReqStable, SnapshotStable, ChainStable DEF Inv, RequestFits, TableStep
<1>5. PcFits(r)'
  <2>1. pc'[r] = where
    BY DEF Inv, TypeOK
  <2> QED BY <2>1 DEF Inv, RequestFits, PcFits, InChain
<1> QED BY <1>1, <1>2, <1>3, <1>4, <1>5, StepKeeps DEF RequestFits

\* Storing the reply changes no link.
LEMMA SaveReplyKeeps ==
  ASSUME Inv, NEW r \in Requests, SaveReply(r)
  PROVE  Inv'
<1>1. /\ pc[r] = "saving" /\ pc' = [pc EXCEPT ![r] = "calling"]
      /\ Update(r, reply[r], heard[r], req[r].client \notin Anonymous)
      /\ heard' = [heard EXCEPT ![r] = <<>>]
      /\ UNCHANGED <<completions, loaded, req, parents, chain, created, open, reply, step>>
  BY DEF SaveReply, Goto
<1>2. reply[r] \in Nat /\ heard[r] \in Seq(Source) /\ <<>> \in Seq(Source)
  BY DEF Inv, TypeOK, MsgRef
<1>3. TableStep
  BY <1>1, <1>2, UpdateFits DEF Inv, RequestFits
<1>4. /\ open' \in [Requests -> SUBSET MsgId] /\ heard' \in [Requests -> Seq(Source)]
      /\ "calling" \in PC /\ chain[r] # <<>> /\ reply[r] # None
  BY <1>1, <1>2 DEF Inv, TypeOK, RequestFits, PcFits, PC, Running, Streaming, Replying
<1>5. SessionEmptied(r)
  BY <1>1 DEF Update
<1> QED BY <1>1, <1>3, <1>4, <1>5, SaveKeeps

\* Making the system message or the message of the request final changes no link.
LEMMA FinalizeKeeps ==
  ASSUME Inv, NEW r \in Requests, FinalizeSystem(r) \/ FinalizeCreated(r)
  PROVE  Inv'
<1>1. /\ pc[r] \in {"calling", "closing_pending"} /\ chain[r] # <<>>
      /\ pc[r] \in Replying => reply[r] # None
  BY DEF FinalizeSystem, FinalizeCreated, Finalizing, Inv, RequestFits, PcFits, Streaming
<1>2. PICK id \in MsgRef, where \in {pc[r], "showing_turn", "ending"} :
        /\ Update(r, id, <<>>, FALSE)
        /\ pc' = [pc EXCEPT ![r] = where]
        /\ open' = [open EXCEPT ![r] = @ \ {id}]
        /\ where \in Replying => pc[r] \in Replying
  <2>1. CASE FinalizeSystem(r)
    <3>1. chain[r][1] \in MsgRef
      <4>1. chain[r] \in Seq(MsgId)  BY DEF Inv, TypeOK
      <4>2. chain[r][1] \in MsgId  BY <1>1, <4>1
      <4> QED BY <4>2 DEF MsgId, MsgRef
    <3>2. pc' = [pc EXCEPT ![r] = pc[r]]
      BY <2>1 DEF FinalizeSystem, Inv, TypeOK
    <3> QED BY <2>1, <3>1, <3>2 DEF FinalizeSystem
  <2>2. CASE FinalizeCreated(r)
    <3>1. created[r] \in MsgRef
      BY DEF Inv, TypeOK
    <3> QED BY <1>1, <2>2, <3>1 DEF FinalizeCreated, Goto, AfterFinalize, Replying
  <2> QED BY <2>1, <2>2
<1>3. UNCHANGED <<completions, loaded, req, parents, chain, created, reply, heard, step>>
  BY DEF FinalizeSystem, FinalizeCreated
<1>4. TableStep
  <2>1. id \in Nat /\ <<>> \in Seq(Source) /\ FALSE \in BOOLEAN
    BY DEF MsgRef
  <2> QED BY <1>2, <2>1, UpdateFits DEF Inv, RequestFits
<1>5. /\ open' \in [Requests -> SUBSET MsgId] /\ heard' \in [Requests -> Seq(Source)]
      /\ where \in PC \ {"idle", "posted", "climbing"}
  BY <1>1, <1>2, <1>3 DEF Inv, TypeOK, PC, Running, Streaming
<1>6. SessionEmptied(r)
  BY <1>2 DEF Update
<1> QED BY <1>1, <1>2, <1>3, <1>4, <1>5, <1>6, SaveKeeps

\* An error kept in memory changes no link.
LEMMA StreamErrorChunkKeeps ==
  ASSUME Inv, NEW r \in Requests, StreamErrorChunk(r)
  PROVE  Inv'
<1>1. /\ pc[r] = "inferring" /\ pc' = [pc EXCEPT ![r] = "calling"]
      /\ errs' = [errs EXCEPT ![r] = @ \cup {reply[r]}]
      /\ UNCHANGED <<message, completions, writes, loaded, req, parents, chain,
                     created, open, reply, heard, step>>
  BY DEF StreamErrorChunk, Goto, local
<1>2. TableStep
  BY <1>1, IdleTableFits DEF Inv
<1>3. reply[r] \in MsgId /\ reply[r] # None /\ chain[r] # <<>>
  BY <1>1 DEF Inv, TypeOK, RequestFits, PcFits, Streaming, Replying, MsgId, MsgRef, None
<1>4. TypeOK'
  BY <1>1, <1>3 DEF Inv, TypeOK, StoreTypeOK, PC, Running, Streaming
<1>5. Others(r)
  BY <1>1 DEF Inv, TypeOK, Others
<1>6. WritesFit(r)' /\ ReqFits(r)' /\ SnapshotFits(r)' /\ ChainFits(r)'
  BY <1>1, <1>2, WritesStable, ReqStable, SnapshotStable, ChainStable
  DEF Inv, RequestFits, TableStep
<1>7. PcFits(r)'
  <2>1. pc'[r] = "calling"
    BY <1>1 DEF Inv, TypeOK
  <2> QED BY <1>1, <1>3, <2>1 DEF Inv, RequestFits, PcFits, InChain
<1> QED BY <1>2, <1>4, <1>5, <1>6, <1>7, StepKeeps DEF RequestFits

\* The completion of a response changes no link.
LEMMA RespondKeeps ==
  ASSUME Inv, NEW r \in Requests, Respond(r)
  PROVE  Inv'
<1> PICK calls \in Answers : heard' = [heard EXCEPT ![r] = calls]
  BY DEF Respond
<1>1. /\ pc[r] = "inferring" /\ pc' = [pc EXCEPT ![r] = "saving"]
      /\ completions' = completions \cup CompletionFor(r)
      /\ UNCHANGED <<message, writes, errs, loaded, req, parents, chain, created,
                     open, reply, step>>
  BY DEF Respond, Goto
<1>2. TableStep
  BY <1>1, IdleTableFits DEF Inv
<1>3. reply[r] \in MsgId /\ reply[r] # None /\ chain[r] # <<>>
  BY <1>1 DEF Inv, TypeOK, RequestFits, PcFits, Streaming, Replying, MsgId, MsgRef, None
<1>4. heard' \in [Requests -> Seq(Source)] /\ completions' \subseteq MsgId
  BY <1>1, <1>3, AnswersAssumption DEF Inv, TypeOK, StoreTypeOK, CompletionFor
<1>5. TypeOK'
  BY <1>1, <1>4 DEF Inv, TypeOK, StoreTypeOK, PC, Running, Streaming
<1>6. Others(r)
  BY <1>1 DEF Inv, TypeOK, Others
<1>7. WritesFit(r)' /\ ReqFits(r)' /\ SnapshotFits(r)' /\ ChainFits(r)'
  BY <1>1, <1>2, WritesStable, ReqStable, SnapshotStable, ChainStable
  DEF Inv, RequestFits, TableStep
<1>8. PcFits(r)'
  <2>1. pc'[r] = "saving"
    BY <1>1 DEF Inv, TypeOK
  <2> QED BY <1>1, <1>3, <2>1 DEF Inv, RequestFits, PcFits, InChain
<1> QED BY <1>2, <1>5, <1>6, <1>7, <1>8, StepKeeps DEF RequestFits

\* A row that drops out of a collection loses its parent; one that is relinked
\* gets its predecessor in the chain, an older row of the same thread.
LEMMA RepairChildrenKeeps ==
  ASSUME Inv, NEW r \in Requests, RepairChildren(r)
  PROVE  Inv'
<1> DEFINE i == RepairNext(r)
           m == chain[r][i]
           next == Successor(r, i)
           relink == Relinked(r, i)
           dropped == StoredChildren(r, m) \ (next \cup relink)
<1>1. /\ writes' = [writes EXCEPT ![r] = @ \cup ({<<c, None>> : c \in dropped}
                                               \cup {<<c, m>> : c \in relink})]
      /\ loaded' = [loaded EXCEPT ![r] = @ \cup {m}]
      /\ UNCHANGED <<message, completions, errs, pc, local>>
  BY DEF RepairChildren, AssignChildren
<1>2. /\ chain[r] \in Seq(MsgId) /\ Len(chain[r]) \in Nat
      /\ DOMAIN chain[r] = 1..Len(chain[r])
      /\ \A j \in DOMAIN chain[r] : Mine(r, chain[r][j])
  BY ChainProperties
<1>3. i \in DOMAIN chain[r]
  <2>1. Unrepaired(r) \subseteq Nat /\ Unrepaired(r) # {}
    BY <1>2 DEF RepairChildren, Unrepaired
  <2>2. i \in Unrepaired(r)
    BY <2>1, LeastExists DEF RepairNext
  <2> QED BY <2>2 DEF Unrepaired
<1>4. m \in MsgId /\ Ids = 1..Len(message) /\ Len(message) \in Nat /\ Ids \subseteq MsgId
  <2>1. Ids = 1..Len(message) /\ Len(message) \in Nat /\ Ids \subseteq MsgId
    BY IdsAreNumbers DEF Inv, TypeOK
  <2> QED BY <1>2, <1>3, <2>1
<1> HIDE DEF i
<1>5. ASSUME NEW c \in dropped
      PROVE  c \in Ids /\ ParentFits(c, None)
  BY DEF StoredChildren, ParentFits
<1>6. ASSUME NEW c \in relink
      PROVE  c \in Ids /\ ParentFits(c, m)
  <2>1. PICK j \in DOMAIN chain[r] : j = i + 1 /\ c = chain[r][j]
    BY DEF Relinked, Successor
  <2>2. i < j
    BY <1>2, <1>3, <2>1
  <2>3. m < c /\ message[m].root = message[c].root
    BY <1>3, <2>1, <2>2 DEF Inv, RequestFits, ChainFits
  <2>4. c \in Ids /\ m \in Ids
    BY <1>2, <1>3, <2>1 DEF Mine
  <2> QED BY <1>4, <2>3, <2>4 DEF ParentFits
<1>7. TableStep
  BY <1>1, IdleTableFits DEF Inv
<1> HIDE DEF dropped, relink, m
<1>8. WritesFit(r)'
  <2>1. writes'[r] = writes[r] \cup ({<<c, None>> : c \in dropped}
                                     \cup {<<c, m>> : c \in relink})
    BY <1>1 DEF Inv, TypeOK, StoreTypeOK
  <2>2. ASSUME NEW w \in writes'[r] PROVE w[1] \in Ids /\ ParentFits(w[1], w[2])
    <3>1. CASE w \in writes[r]
      BY <3>1 DEF Inv, RequestFits, WritesFit
    <3>2. CASE w \in {<<c, None>> : c \in dropped}
      BY <1>5, <3>2
    <3>3. CASE w \in {<<c, m>> : c \in relink}
      BY <1>6, <3>3
    <3> QED BY <2>1, <2>2, <3>1, <3>2, <3>3
  <2> QED BY <1>1, <2>2 DEF WritesFit, ParentFits, Ids
<1>9. TypeOK'
  <2>1. ({<<c, None>> : c \in dropped} \cup {<<c, m>> : c \in relink})
           \subseteq MsgId \X MsgRef
    BY <1>4, <1>5, <1>6 DEF MsgId, MsgRef, None
  <2>2. StoreTypeOK'
    BY <1>1, <1>4, <2>1 DEF Inv, TypeOK, StoreTypeOK
  <2> QED BY <1>1, <2>2 DEF Inv, TypeOK, local
<1>10. Others(r)
  BY <1>1 DEF Inv, TypeOK, StoreTypeOK, local, Others
<1>11. ReqFits(r)' /\ SnapshotFits(r)' /\ ChainFits(r)' /\ PcFits(r)'
  BY <1>1, <1>7, ReqStable, SnapshotStable, ChainStable, PcStable
  DEF Inv, RequestFits, TableStep, local
<1> QED BY <1>7, <1>8, <1>9, <1>10, <1>11, StepKeeps DEF RequestFits

-----------------------------------------------------------------------------
(***************************************************************************)
(* The invariant holds in every reachable state.                           *)
(***************************************************************************)

\* The empty table and the requests that have not begun satisfy the invariant.
LEMMA InitFits == Init => Inv
<1> SUFFICES ASSUME Init PROVE Inv
  OBVIOUS
<1>1. message = <<>> /\ Ids = {}
  BY DEF Init, StoreInit, Ids
<1>2. TypeOK
  <2>1. StoreTypeOK
    BY DEF Init, StoreInit, StoreTypeOK
  <2>2. req \in [Requests -> Request]
    BY NoRequestType DEF Init
  <2> QED BY <2>1, <2>2 DEF Init, TypeOK, PC, None, MsgRef
<1>3. TableFits
  BY <1>1 DEF TableFits
<1>4. ASSUME NEW r \in Requests PROVE RequestFits(r)
  <2>1. /\ writes[r] = {} /\ req[r] = NoRequest /\ parents[r] = <<>>
        /\ chain[r] = <<>> /\ reply[r] = None /\ pc[r] = "idle"
    BY DEF Init, StoreInit
  <2>2. WritesFit(r) /\ SnapshotFits(r) /\ ChainFits(r)
    BY <2>1 DEF WritesFit, SnapshotFits, ChainFits
  <2>3. ReqFits(r)
    BY <2>1 DEF ReqFits, NoRequest
  <2>4. PcFits(r)
    BY <2>1 DEF PcFits, Streaming, Replying
  <2> QED BY <2>2, <2>3, <2>4 DEF RequestFits
<1> QED BY <1>2, <1>3, <1>4 DEF Inv

\* A step that changes nothing keeps the invariant.
LEMMA StutterKeeps ==
  ASSUME Inv, UNCHANGED vars
  PROVE  Inv'
<1>1. TableStep
  BY IdleTableFits DEF Inv, vars, storeVars
<1>2. TypeOK'
  BY DEF Inv, TypeOK, StoreTypeOK, vars, storeVars, local
<1>3. ASSUME NEW q \in Requests PROVE RequestFits(q)'
  BY <1>1, RequestStable DEF Inv, TableStep, vars, storeVars, local
<1> QED BY <1>1, <1>2, <1>3 DEF Inv, TableStep

\* Every step of every request keeps the invariant.
LEMMA NextKeeps == Inv /\ [Next]_vars => Inv'
<1> SUFFICES ASSUME Inv, [Next]_vars PROVE Inv'
  OBVIOUS
<1>1. CASE UNCHANGED vars
  BY <1>1, StutterKeeps
<1>2. CASE Next
  <2> PICK r \in Requests :
        Post(r) \/ Refuse(r) \/ Handler(r) \/ Abort(r) \/ Deadlock(r)
    BY <1>2 DEF Next
  <2>1. CASE Post(r)
    BY <2>1, PostKeeps
  <2>2. CASE Refuse(r) \/ Abort(r) \/ Deadlock(r)
    BY <2>2, EndingKeeps
  <2>3. CASE Setup(r)
    BY <2>3, SetupSystemMessageKeeps, ReadThreadKeeps, ClimbKeeps, CreateUserKeeps,
       CreateToolResponseKeeps, EndingKeeps, CreateAssistantKeeps,
       FinalizeAssistantKeeps DEF Setup
  <2>4. CASE Generator(r)
    BY <2>4, MovesKeep, AddReplyKeeps, RepairChildrenKeeps, SaveReplyKeeps,
       CallToolKeeps, FinalizeKeeps, EndingKeeps DEF Generator
  <2>5. CASE Inference(r)
    BY <2>5, StreamErrorChunkKeeps, EndingKeeps, RespondKeeps DEF Inference
  <2> QED BY <2>1, <2>2, <2>3, <2>4, <2>5 DEF Handler
<1> QED BY <1>1, <1>2

\* In every reachable state of every instance the rows form threads, and what each
\* request carries along still fits the rows when it is used next.
THEOREM InvAlways == Spec => []Inv
BY InitFits, NextKeeps, PTL DEF Spec

\* The columns and the session's objects keep their types in every run of the
\* handlers (TypeOK).
THEOREM TypeCorrect == Spec => []TypeOK
<1>1. Inv => TypeOK
  BY DEF Inv
<1> QED BY <1>1, InvAlways, PTL

\* A parent is an older row of its thread and a thread has one root, whatever the
\* number of streams that detach and relink rows of each other's branches: Climb
\* in setup_msg_thread reaches a root and stays in the thread (ThreadIntegrity).
THEOREM ThreadsIntact == Spec => []ThreadIntegrity
<1>1. Inv => ThreadIntegrity
  <2> SUFFICES ASSUME Inv, NEW id \in Ids
               PROVE  LET row == message[id] IN
                        /\ row.root \in 1..id
                        /\ message[row.root].root = row.root
                        /\ message[row.root].parent = None
                        /\ row.parent # None =>
                             /\ row.parent \in 1..(id - 1)
                             /\ message[row.parent].root = row.root
    BY DEF ThreadIntegrity
  <2> DEFINE q == message[id].root
  <2>1. Ids = 1..Len(message) /\ Len(message) \in Nat
    BY IdsAreNumbers DEF Inv, TypeOK
  <2>2. RowFits(id) /\ q \in 1..id /\ q \in Ids
    BY <2>1 DEF Inv, TableFits, RowFits
  <2>3. message[q].parent = None
    <3>1. SUFFICES ASSUME message[q].parent # None PROVE FALSE
      OBVIOUS
    <3> DEFINE p == message[q].parent
    <3>2. RowFits(q) /\ p \in 1..(q - 1) /\ message[p].root = q
      BY <2>2, <3>1 DEF Inv, TableFits, RowFits, ParentFits
    <3>3. p \in Ids /\ RowFits(p)
      BY <2>1, <2>2, <3>2 DEF Inv, TableFits
    <3>4. q \in 1..p
      BY <3>2, <3>3 DEF RowFits
    <3> QED BY <2>1, <2>2, <3>2, <3>4
  <2> QED BY <2>2, <2>3 DEF RowFits, ParentFits
<1> QED BY <1>1, InvAlways, PTL

\* Every row of a thread has the visibility and the owner of its root, although
\* a request adds rows long after it has validated the root (OneOwnerPerThread).
THEOREM OneOwner == Spec => []OneOwnerPerThread
<1>1. Inv => OneOwnerPerThread
  BY DEF Inv, TableFits, RowFits, Owned, OneOwnerPerThread
<1> QED BY <1>1, InvAlways, PTL
=============================================================================
