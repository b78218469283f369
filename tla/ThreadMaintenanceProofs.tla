----------------------- MODULE ThreadMaintenanceProofs -----------------------
(***************************************************************************)
(* What holds of threads for any number of streams, deletions, rows and    *)
(* accidents.                                                              *)
(*                                                                         *)
(* The foreign key of "root" carries the argument: a row is only inserted  *)
(* when its root is there, and goes with it.  So a thread whose root is    *)
(* gone is empty for good, whatever streams are still under way on it; and *)
(* a stream that adds rows to a thread writes the owner it has found,      *)
(* which only the migration changes (MaintenanceInv).                      *)
(*                                                                         *)
(* The second part has the readers (ReadersInv): what a row and a stream   *)
(* can count on as long as no deletion has begun on the thread, what the   *)
(* history says when one has, and who answers for a completion.            *)
(***************************************************************************)
EXTENDS ThreadMaintenance, FiniteSetTheorems, WellFoundedInduction, TLAPS

\* A thread's rows are in the table with their root.
RootsExist == \A n \in Ids : rows[n].root \in Ids

\* A stream writes the owner its thread has, unless the thread was migrated.
StreamFits(s) ==
  /\ stream[s].root <= made
  /\ stream[s].pc \in {"replying", "shown"} => stream[s].reply \in 1..made
  /\ Runs(s) /\ stream[s].root \in Ids /\ "moved" \notin slips[stream[s].root] =>
       rows[stream[s].root].creator = stream[s].client

\* The root of a thread to be deleted is still to do, was skipped, or is gone.
DeletionFits(d) ==
  /\ deletion[d].thread <= made
  /\ deletion[d].pc = "deleting" =>
       deletion[d].thread \in deletion[d].todo \cup deletion[d].skipped
       \/ deletion[d].thread \notin Ids
  /\ deletion[d].pc = "done" =>
       deletion[d].thread \in deletion[d].skipped \/ deletion[d].thread \notin Ids

MaintenanceInv ==
  /\ TypeOK /\ RootsExist /\ ThreadsHaveOneOwner
  /\ \A s \in Streams : StreamFits(s)
  /\ \A d \in Deletions : DeletionFits(d)

\* A step that adds no row and changes no root and no owner.
Shrinks ==
  /\ Ids' \subseteq Ids
  /\ \A n \in Ids' : /\ rows'[n].root = rows[n].root /\ rows'[n].creator = rows[n].creator
                     /\ rows[n].root \in Ids'

SlipsGrow == \A m \in Id : slips[m] \subseteq slips'[m]

\* A step of one stream leaves the others as they are; so does one of a deletion.
OtherStreams(s) == \A q \in Streams \ {s} : stream'[q] = stream[q]
OtherDeletions(d) == \A e \in Deletions \ {d} : deletion'[e] = deletion[e]

Happenings == {"cut", "raced", "halfway", "moved", "aged", "error", "forked"}

-----------------------------------------------------------------------------
\* A row that is left names no row that was deleted; the deleted ones are gone.
LEMMA CascadeCloses ==
  ASSUME NEW table, NEW gone \in SUBSET DOMAIN table
  PROVE  /\ gone \subseteq Cascade(gone, table)
         /\ Cascade(gone, table) \subseteq DOMAIN table
         /\ \A n \in DOMAIN table \ Cascade(gone, table) :
              Names(table[n]) \cap Cascade(gone, table) = {}
<1>1. gone \subseteq Cascade(gone, table) /\ Cascade(gone, table) \subseteq DOMAIN table
  BY DEF Cascade
<1>2. ASSUME NEW n \in DOMAIN table \ Cascade(gone, table)
      PROVE  Names(table[n]) \cap Cascade(gone, table) = {}
  <2>1. PICK set \in SUBSET DOMAIN table :
          gone \subseteq set /\ Closed(set, table) /\ n \notin set
    BY <1>2 DEF Cascade
  <2>2. Names(table[n]) \cap set = {}
    BY <2>1 DEF Closed
  <2>3. Cascade(gone, table) \subseteq set
    BY <2>1 DEF Cascade
  <2> QED BY <2>2, <2>3
<1> QED BY <1>1, <1>2

\* Rows and what they name.
LEMMA RowTyped ==
  ASSUME TypeOK
  PROVE  /\ made \in Nat /\ MaxRows \in Nat /\ made <= MaxRows
         /\ Ids \subseteq 1..made /\ Ids \subseteq Id
         /\ \A n \in Ids : /\ rows[n] \in Row /\ n \in Nat
                           /\ rows[n].root \in Id /\ rows[n].parent \in Ref
                           /\ rows[n].creator \in Client
                           /\ Names(rows[n]) \subseteq Ids \cup {None}
<1>1. made \in 0..MaxRows /\ MaxRows \in Nat
  BY BoundAssumption DEF TypeOK
<1>2. made \in Nat /\ made <= MaxRows /\ Ids \subseteq 1..made
  BY <1>1 DEF TypeOK, Ids
<1> QED BY <1>1, <1>2 DEF TypeOK, Ids, Id, Row, Ref

\* Going on, ending and slipping.
LEMMA Going ==
  ASSUME TypeOK, NEW s \in Streams, NEW where \in StreamPC, Go(s, where)
  PROVE  /\ stream' \in [Streams -> StreamType] /\ OtherStreams(s)
         /\ stream'[s] = [stream[s] EXCEPT !.pc = where]
         /\ stream'[s].pc = where /\ stream'[s].root = stream[s].root
         /\ stream'[s].client = stream[s].client /\ stream'[s].reply = stream[s].reply
BY DEF Go, TypeOK, StreamType, OtherStreams

LEMMA Ending ==
  ASSUME TypeOK, NEW s \in Streams, NEW where \in Stopped, End(s, where)
  PROVE  /\ stream' \in [Streams -> StreamType] /\ OtherStreams(s)
         /\ stream'[s].pc = where /\ stream'[s].root = stream[s].root
<1> DEFINE new == [NoStream EXCEPT !.pc = where, !.root = stream[s].root]
<1>1. /\ stream' = [stream EXCEPT ![s] = new] /\ stream \in [Streams -> StreamType]
  BY DEF TypeOK, End
<1>2. /\ where \in StreamPC /\ stream[s].root \in Ref
      /\ None \in Ref /\ Account \in Client
  BY <1>1, BoundAssumption DEF StreamType, Stopped, StreamPC, Client, Ref, None
<1>3. /\ new \in StreamType /\ new.pc = where /\ new.root = stream[s].root
  BY <1>2 DEF NoStream, StreamType, StreamPC
<1> HIDE DEF new
<1> QED BY <1>1, <1>3 DEF OtherStreams

LEMMA Slipping ==
  ASSUME TypeOK, NEW threads, NEW what \in Happenings, Slip(threads, what)
  PROVE  /\ slips' \in [Id -> SUBSET Happenings] /\ SlipsGrow
         /\ \A m \in Id \cap threads : what \in slips'[m]
BY DEF Slip, TypeOK, SlipsGrow, Happenings

\* After a step that adds no row and changes no owner, threads still have one
\* owner, and what streams and deletions knew that did not move still fits.
LEMMA ShrinkKeeps ==
  ASSUME MaintenanceInv, TypeOK', Shrinks, made' = made, SlipsGrow
  PROVE  /\ RootsExist' /\ ThreadsHaveOneOwner'
         /\ \A s \in Streams : stream'[s] = stream[s] => StreamFits(s)'
         /\ \A d \in Deletions : deletion'[d] = deletion[d] => DeletionFits(d)'
<1>1. TypeOK /\ RootsExist /\ ThreadsHaveOneOwner
  BY DEF MaintenanceInv
<1>2. RootsExist'
  BY DEF Shrinks, RootsExist
<1>3. ThreadsHaveOneOwner'
  <2> SUFFICES ASSUME NEW n \in Ids', "moved" \notin slips'[rows'[n].root]
               PROVE  /\ rows'[n].root \in Ids'
                      /\ rows'[n].creator = rows'[rows'[n].root].creator
    BY DEF ThreadsHaveOneOwner
  <2>1. n \in Ids /\ rows'[n].root = rows[n].root /\ rows[n].root \in Ids' /\ rows[n].root \in Id
    BY <1>1, RowTyped DEF Shrinks
  <2>2. "moved" \notin slips[rows[n].root]
    BY <2>1 DEF SlipsGrow
  <2> QED BY <1>1, <2>1, <2>2 DEF Shrinks, ThreadsHaveOneOwner
<1>4. ASSUME NEW s \in Streams, stream'[s] = stream[s] PROVE StreamFits(s)'
  <2>1. StreamFits(s) /\ Ids \subseteq Id
    BY <1>1, RowTyped DEF MaintenanceInv
  <2> QED BY <1>4, <2>1 DEF StreamFits, Runs, Shrinks, SlipsGrow
<1>5. ASSUME NEW d \in Deletions, deletion'[d] = deletion[d] PROVE DeletionFits(d)'
  BY <1>5 DEF MaintenanceInv, DeletionFits, Shrinks
<1> QED BY <1>2, <1>3, <1>4, <1>5

-----------------------------------------------------------------------------
\* A stream that goes on with its thread, or stops, keeps the invariant.
LEMMA StreamKeeps ==
  ASSUME MaintenanceInv, TypeOK', Shrinks, made' = made, SlipsGrow,
         NEW s \in Streams, OtherStreams(s), StreamFits(s)', UNCHANGED deletion
  PROVE  MaintenanceInv'
BY ShrinkKeeps DEF MaintenanceInv, OtherStreams

LEMMA NothingShrinks ==
  ASSUME MaintenanceInv, UNCHANGED rows
  PROVE  Shrinks
BY DEF Shrinks, Ids, MaintenanceInv, RootsExist

\* Reading and generating: the table's rows stay.
LEMMA QuietKeeps ==
  ASSUME MaintenanceInv, NEW s \in Streams,
         \/ ReadThread(s) \/ StartThread(s) \/ ToolsConflict(s) \/ ShowPending(s) \/ NoTurn(s)
         \/ ShowReply(s) \/ Generate(s) \/ GenerateError(s) \/ Cut(s)
  PROVE  MaintenanceInv'
<1>1. TypeOK /\ StreamFits(s) /\ stream[s] \in StreamType
  BY DEF MaintenanceInv, TypeOK
<1>2. /\ UNCHANGED <<rows, made, clock, deletion, migrated>>
      /\ slips' \in [Id -> SUBSET Happenings] /\ SlipsGrow
      /\ accidents' \in 0..Accidents
  <2>1. UNCHANGED <<rows, made, clock, deletion, migrated>>
    BY DEF ReadThread, StartThread, ToolsConflict, ShowPending, NoTurn, ShowReply, Generate,
           GenerateError, Cut, tableVars
  <2>2. CASE accidents' = accidents /\ slips' = slips
    BY <1>1, <2>1, <2>2 DEF TypeOK, Happenings, SlipsGrow
  <2>3. CASE Cut(s)
    <3>1. accidents' \in 0..Accidents
      BY <1>1, <2>3, BoundAssumption DEF Cut, TypeOK
    <3>2. Slip({stream[s].root}, "cut") /\ "cut" \in Happenings
      BY <2>3 DEF Cut, Happenings
    <3> QED BY <1>1, <2>1, <3>1, <3>2, Slipping
  <2>4. CASE GenerateError(s)
    <3>1. accidents' \in 0..Accidents
      BY <1>1, <2>4 DEF GenerateError, TypeOK
    <3>2. Slip({stream[s].root}, "error") /\ "error" \in Happenings
      BY <2>4 DEF GenerateError, Happenings
    <3> QED BY <1>1, <2>1, <3>1, <3>2, Slipping
  <2>5. (accidents' = accidents /\ slips' = slips) \/ Cut(s) \/ GenerateError(s)
    BY DEF ReadThread, StartThread, ToolsConflict, ShowPending, NoTurn, ShowReply, Generate
  <2> QED BY <2>1, <2>2, <2>3, <2>4, <2>5
<1>3. Runs(s)
  BY DEF ReadThread, StartThread, ToolsConflict, ShowPending, NoTurn, ShowReply, Generate,
         GenerateError, Cut, Runs, Stopped
<1>4. /\ stream' \in [Streams -> StreamType] /\ OtherStreams(s)
      /\ stream'[s].root = stream[s].root
      /\ \/ stream'[s].pc \in Stopped
         \/ /\ stream'[s].client = stream[s].client
            /\ \/ stream'[s].pc \notin {"replying", "shown"}
               \/ stream[s].pc = "replying" /\ stream'[s].reply = stream[s].reply
  <2>1. CASE \E where \in {"failed", "lost", "cut", "unturned"} : End(s, where)
    BY <1>1, <2>1, Ending DEF Stopped
  <2>2. CASE \E where \in {"opened", "generated", "closing"} : Go(s, where)
    BY <1>1, <2>2, Going DEF StreamPC
  <2>3. CASE stream' = [stream EXCEPT ![s].top = TopOf(s), ![s].chain = Climb(s),
                                      ![s].pc = "chained"]
    <3>1. TopOf(s) \in Ref /\ Climb(s) \in SUBSET Id
      BY <1>1, RowTyped DEF TopOf, Climb, Ref, Id, None
    <3> QED BY <1>1, <2>3, <3>1 DEF TypeOK, StreamType, StreamPC, OtherStreams
  <2>4. CASE \/ stream' = [stream EXCEPT ![s].pc = "closing", ![s].drops = Siblings(s)]
             \/ /\ stream[s].pc = "replying"
                /\ stream' = [stream EXCEPT ![s].pc = "shown", ![s].drops = Siblings(s)]
    <3>1. Siblings(s) \in SUBSET Id
      BY <1>1, RowTyped DEF Siblings
    <3> QED BY <1>1, <2>4, <3>1 DEF TypeOK, StreamType, StreamPC, OtherStreams
  <2> QED BY <2>1, <2>2, <2>3, <2>4
          DEF ReadThread, StartThread, ToolsConflict, ShowPending, NoTurn, ShowReply, Generate,
              GenerateError, Cut
<1>5. completions' \subseteq 1..made
  <2>1. CASE Generate(s)
    BY <1>1, <2>1 DEF Generate, Create, StreamFits, TypeOK
  <2>2. CASE UNCHANGED completions
    BY <1>1, <2>2 DEF TypeOK
  <2> QED BY <2>1, <2>2
          DEF ReadThread, StartThread, ToolsConflict, ShowPending, NoTurn, ShowReply,
              GenerateError, Cut, tableVars
<1>6. TypeOK'
  BY <1>1, <1>2, <1>4, <1>5 DEF TypeOK, Ids, Happenings
<1>7. StreamFits(s)'
  <2>1. stream[s].root \in Ids => stream[s].root \in Id
    BY <1>1, RowTyped
  <2> QED BY <1>1, <1>2, <1>3, <1>4, <2>1
          DEF StreamFits, Runs, Stopped, Ids, SlipsGrow
<1> QED BY <1>2, <1>4, <1>6, <1>7, NothingShrinks, StreamKeeps

\* A stream starts under a message of a thread that is the caller's.
LEMMA ValidateKeeps ==
  ASSUME MaintenanceInv, NEW s \in Streams, Validate(s)
  PROVE  MaintenanceInv'
<1>1. TypeOK /\ UNCHANGED <<rows, made, completions, clock, deletion, migrated, accidents>>
  BY DEF MaintenanceInv, Validate, tableVars
<1>2. PICK who \in Client, p \in {None} \cup Ids :
        /\ p # None => Postable(who, p)
        /\ stream' = [stream EXCEPT ![s] =
             [NoStream EXCEPT !.pc = "validated", !.client = who, !.parent = p,
                !.up = IF p = None THEN None ELSE rows[p].parent,
                !.root = IF p = None THEN None ELSE rows[p].root]]
        /\ Slip(IF p = None THEN {} ELSE {rows[p].root} \cap Deleting, "raced")
  BY DEF Validate
<1> DEFINE up == IF p = None THEN None ELSE rows[p].parent
           root == IF p = None THEN None ELSE rows[p].root
           new == [NoStream EXCEPT !.pc = "validated", !.client = who, !.parent = p,
                     !.up = up, !.root = root]
<1>3. None \in Ref /\ p \in Ref /\ up \in Ref /\ root \in Ref /\ root <= made
  BY <1>1, RowTyped, BoundAssumption DEF None, Ref, Id, MaintenanceInv, RootsExist
<1>4. /\ new \in StreamType /\ new.pc = "validated" /\ new.root = root
      /\ new.client = who
  BY <1>3 DEF NoStream, StreamType, StreamPC, Client
<1>5. stream' = [stream EXCEPT ![s] = new]
  BY <1>2
<1>6. root \in Ids => rows[root].creator = who
  BY <1>1, <1>2, RowTyped DEF Postable, None
<1> HIDE DEF new, root
<1>7. stream' \in [Streams -> StreamType] /\ OtherStreams(s) /\ stream'[s] = new
  BY <1>1, <1>4, <1>5 DEF TypeOK, OtherStreams
<1>8. slips' \in [Id -> SUBSET Happenings] /\ SlipsGrow
  BY <1>1, <1>2, Slipping DEF Happenings
<1>9. TypeOK'
  BY <1>1, <1>7, <1>8 DEF TypeOK, Ids, Happenings
<1>10. StreamFits(s)'
  BY <1>1, <1>3, <1>4, <1>6, <1>7 DEF StreamFits, Ids
<1> QED BY <1>1, <1>7, <1>8, <1>9, <1>10, NothingShrinks, StreamKeeps

\* The parents that a stream takes away: nothing else of the rows changes.
LEMMA UnlinkedRows ==
  ASSUME MaintenanceInv, NEW s \in Streams
  PROVE  /\ DOMAIN Unlinked(s) = Ids
         /\ \A m \in Ids :
              /\ Unlinked(s)[m] \in Row /\ Unlinked(s)[m].root = rows[m].root
              /\ Unlinked(s)[m].creator = rows[m].creator /\ Unlinked(s)[m].role = rows[m].role
              /\ Unlinked(s)[m].final = rows[m].final
              /\ Unlinked(s)[m].completion = rows[m].completion
              /\ Unlinked(s)[m].parent = IF m \in stream[s].drops THEN None ELSE rows[m].parent
<1>1. \A m \in Ids : rows[m] \in Row
  BY RowTyped DEF MaintenanceInv
<1>2. None \in Ref
  BY BoundAssumption DEF None, Ref
<1> SUFFICES ASSUME NEW m \in Ids
             PROVE  /\ Unlinked(s)[m] \in Row /\ Unlinked(s)[m].root = rows[m].root
                    /\ Unlinked(s)[m].creator = rows[m].creator
                    /\ Unlinked(s)[m].role = rows[m].role
                    /\ Unlinked(s)[m].final = rows[m].final
                    /\ Unlinked(s)[m].completion = rows[m].completion
                    /\ Unlinked(s)[m].parent =
                         IF m \in stream[s].drops THEN None ELSE rows[m].parent
  BY DEF Unlinked
<1>3. Unlinked(s)[m] = IF m \in stream[s].drops THEN [rows[m] EXCEPT !.parent = None]
                       ELSE rows[m]
  BY DEF Unlinked
<1> QED BY <1>1, <1>2, <1>3 DEF Row

\* What a commit of a stream does: to the table and to the stream.
LEMMA UpdateDoes ==
  ASSUME MaintenanceInv, NEW s \in Streams, NEW n, NEW row,
         NEW where \in {"closing", "done"}, Runs(s), Update(s, n, row, where),
         n \in Ids => /\ row \in Row /\ row.root = rows[n].root
                      /\ row.parent = rows[n].parent /\ row.creator = rows[n].creator
  PROVE  /\ Ids' = Ids
         /\ \A m \in Ids : /\ rows'[m] \in Row
                           /\ rows'[m].parent \in {rows[m].parent, None}
                           /\ rows'[m].root = rows[m].root
                           /\ rows'[m].creator = rows[m].creator
         /\ UNCHANGED <<made, completions, clock, deletion, migrated, accidents>>
         /\ slips' \in [Id -> SUBSET Happenings] /\ SlipsGrow
         /\ stream' \in [Streams -> StreamType] /\ OtherStreams(s)
         /\ stream'[s].root = stream[s].root
         /\ \/ stream'[s].pc \in Stopped
            \/ stream'[s].client = stream[s].client /\ stream'[s].pc = "closing"
<1>1. TypeOK /\ UNCHANGED <<made, completions, clock, deletion, migrated, accidents>>
  BY DEF MaintenanceInv, Update
<1>2. /\ stream' \in [Streams -> StreamType] /\ OtherStreams(s)
      /\ stream'[s].root = stream[s].root
      /\ \/ stream'[s].pc \in Stopped
         \/ stream'[s].client = stream[s].client /\ stream'[s].pc = "closing"
  <2>1. \/ \E end \in {"done", "failed"} : End(s, end)
        \/ stream' = [stream EXCEPT ![s].pc = "closing", ![s].drops = {}]
    BY DEF Update
  <2>2. CASE \E end \in {"done", "failed"} : End(s, end)
    BY <1>1, <2>2, Ending DEF Stopped
  <2>3. CASE stream' = [stream EXCEPT ![s].pc = "closing", ![s].drops = {}]
    <3> DEFINE new == [stream[s] EXCEPT !.pc = "closing", !.drops = {}]
    <3>1. stream \in [Streams -> StreamType] /\ stream[s] \in StreamType
      BY <1>1 DEF TypeOK
    <3>2. stream' = [stream EXCEPT ![s] = new]
      BY <2>3, <3>1
    <3>3. new \in StreamType /\ new.pc = "closing" /\ new.root = stream[s].root /\ new.client = stream[s].client
      BY <3>1 DEF StreamType, StreamPC
    <3> HIDE DEF new
    <3> QED BY <3>1, <3>2, <3>3 DEF OtherStreams
  <2> QED BY <2>1, <2>2, <2>3
<1>3. /\ Ids' = Ids
      /\ \A m \in Ids : /\ rows'[m] \in Row
                        /\ rows'[m].parent \in {rows[m].parent, None}
                        /\ rows'[m].root = rows[m].root
                        /\ rows'[m].creator = rows[m].creator
  <2>1. CASE n \in Ids /\ rows' = [Unlinked(s) EXCEPT ![n] = row]
    <3>1. DOMAIN rows' = Ids /\ \A m \in Ids : rows'[m] = IF m = n THEN row ELSE Unlinked(s)[m]
      BY <2>1, UnlinkedRows
    <3> QED BY <2>1, <3>1, UnlinkedRows DEF Ids
  <2>2. CASE rows' = rows
    BY <1>1, <2>2, RowTyped DEF Ids
  <2> QED BY <2>1, <2>2 DEF Update
<1>4. slips' \in [Id -> SUBSET Happenings] /\ SlipsGrow
  <2>1. CASE slips' = slips
    BY <1>1, <2>1 DEF TypeOK, Happenings, SlipsGrow
  <2>2. CASE Slip(IF stream[s].drops \cap Ids = {} THEN {} ELSE {stream[s].root}, "forked")
    BY <1>1, <2>2, Slipping DEF Happenings
  <2> QED BY <2>1, <2>2 DEF Update
<1> QED BY <1>1, <1>2, <1>3, <1>4

\* A row that is saved keeps its thread and its owner.
LEMMA UpdateKeeps ==
  ASSUME MaintenanceInv, NEW s \in Streams, NEW n, NEW row,
         NEW where \in {"closing", "done"}, Runs(s), Update(s, n, row, where),
         n \in Ids => /\ row \in Row /\ row.root = rows[n].root
                      /\ row.parent = rows[n].parent /\ row.creator = rows[n].creator
  PROVE  MaintenanceInv'
<1>1. TypeOK /\ StreamFits(s) /\ Ids \subseteq Id
  BY RowTyped DEF MaintenanceInv
<1>2. /\ Ids' = Ids
      /\ \A m \in Ids : /\ rows'[m] \in Row
                        /\ rows'[m].parent \in {rows[m].parent, None}
                        /\ rows'[m].root = rows[m].root
                        /\ rows'[m].creator = rows[m].creator
      /\ UNCHANGED <<made, completions, clock, deletion, migrated, accidents>>
      /\ slips' \in [Id -> SUBSET Happenings] /\ SlipsGrow
      /\ stream' \in [Streams -> StreamType] /\ OtherStreams(s)
      /\ stream'[s].root = stream[s].root
      /\ \/ stream'[s].pc \in Stopped
         \/ stream'[s].client = stream[s].client /\ stream'[s].pc = "closing"
  BY UpdateDoes
<1>3. \A m \in Ids : Names(rows'[m]) \subseteq Ids \cup {None}
  BY <1>1, <1>2, RowTyped DEF Names
<1>4. TypeOK'
  <2>1. DOMAIN rows' \subseteq 1..made' /\ made' \in 0..MaxRows
    BY <1>1, <1>2 DEF TypeOK, Ids
  <2>2. \A m \in Ids' : rows'[m] \in Row /\ Names(rows'[m]) \subseteq Ids' \cup {None}
    BY <1>2, <1>3
  <2> QED BY <1>1, <1>2, <2>1, <2>2 DEF TypeOK, Happenings
<1>5. Shrinks
  BY <1>1, <1>2 DEF Shrinks, MaintenanceInv, RootsExist
<1>6. StreamFits(s)'
  BY <1>1, <1>2 DEF StreamFits, Runs, Stopped, SlipsGrow
<1> QED BY <1>2, <1>4, <1>5, <1>6, StreamKeeps

\* Saving the reply, the system message and the prompt of the request.
LEMMA SavingKeeps ==
  ASSUME MaintenanceInv, NEW s \in Streams,
         SaveReply(s) \/ FinalizeSystem(s) \/ FinalizeUser(s)
  PROVE  MaintenanceInv'
<1>1. TypeOK /\ Runs(s)
  BY DEF MaintenanceInv, SaveReply, FinalizeSystem, FinalizeUser, Runs, Stopped
<1>2. ASSUME NEW n \in Ids
      PROVE  /\ Saved(s, n) \in Row /\ Saved(s, n).root = rows[n].root
             /\ Saved(s, n).parent = rows[n].parent /\ Saved(s, n).creator = rows[n].creator
  BY <1>1, RowTyped DEF Saved, Row
<1>3. ASSUME NEW n \in Ids
      PROVE  LET row == [rows[n] EXCEPT !.final = TRUE]
             IN  /\ row \in Row /\ row.root = rows[n].root
                 /\ row.parent = rows[n].parent /\ row.creator = rows[n].creator
  BY <1>1, RowTyped DEF Row
<1>4. CASE SaveReply(s)
  BY <1>1, <1>2, <1>4, UpdateKeeps DEF SaveReply
<1>5. CASE FinalizeSystem(s)
  <2> DEFINE n == stream[s].top
             row == [rows[n] EXCEPT !.final = TRUE]
  <2>1. Update(s, n, row, "closing")
    BY <1>5 DEF FinalizeSystem
  <2>2. n \in Ids => /\ row \in Row /\ row.root = rows[n].root
                     /\ row.parent = rows[n].parent /\ row.creator = rows[n].creator
    BY <1>3
  <2> HIDE DEF n, row
  <2> QED BY <1>1, <2>1, <2>2, UpdateKeeps
<1>6. CASE FinalizeUser(s)
  <2> DEFINE n == stream[s].user
             row == [rows[n] EXCEPT !.final = TRUE]
  <2>1. Update(s, n, row, "done")
    BY <1>6 DEF FinalizeUser
  <2>2. n \in Ids => /\ row \in Row /\ row.root = rows[n].root
                     /\ row.parent = rows[n].parent /\ row.creator = rows[n].creator
    BY <1>3
  <2> HIDE DEF n, row
  <2> QED BY <1>1, <2>1, <2>2, UpdateKeeps
<1> QED BY <1>4, <1>5, <1>6

-----------------------------------------------------------------------------
\* A new row is its own root, or has one that the foreign key has found in the
\* table: with the owner the stream has found there.
LEMMA InsertKeeps ==
  ASSUME MaintenanceInv, NEW s \in Streams, NEW role \in Role, NEW parent \in Ref,
         NEW field \in {"parent", "user", "reply"},
         NEW where \in {"opened", "asked", "replying"}, where = "replying" => field = "reply",
         Runs(s), Insert(s, NewRow(s, role, parent), field, where)
  PROVE  MaintenanceInv'
<1> DEFINE row == NewRow(s, role, parent)
           new == made + 1
<1>1. /\ TypeOK /\ StreamFits(s) /\ stream[s] \in StreamType
      /\ made \in Nat /\ MaxRows \in Nat /\ Ids \subseteq 1..made
      /\ made < MaxRows /\ new \in Id /\ new \in Ref /\ new \notin Ids
      /\ UNCHANGED <<completions, clock, deletion, migrated, accidents, slips>>
  BY RowTyped DEF MaintenanceInv, TypeOK, Insert, Id, Ref
<1>2. CASE ~Insertable(new, row)
  <2>1. UNCHANGED <<rows, made>> /\ End(s, "failed")
    BY <1>2 DEF Insert
  <2>2. /\ stream' \in [Streams -> StreamType] /\ OtherStreams(s)
        /\ stream'[s].pc = "failed" /\ stream'[s].root = stream[s].root
    BY <1>1, <2>1, Ending DEF Stopped
  <2>3. TypeOK' /\ StreamFits(s)'
    BY <1>1, <2>1, <2>2 DEF TypeOK, Ids, StreamFits, Runs, Stopped
  <2> QED BY <1>1, <2>1, <2>2, <2>3, NothingShrinks, StreamKeeps DEF SlipsGrow
<1>3. CASE Insertable(new, row)
  <2>1. /\ rows' = [n \in Ids \cup {new} |-> IF n = new THEN row ELSE rows[n]]
        /\ made' = new
        /\ stream' = [stream EXCEPT ![s].pc = where, ![s].root = row.root,
                        ![s].chain = @ \cup {new},
                        ![s].top = IF stream[s].top = None THEN new ELSE @,
                        ![s][field] = new]
    BY <1>3 DEF Insert
  <2>2. /\ row \in Row /\ row.creator = stream[s].client
        /\ row.root = new \/ (row.root = stream[s].root /\ row.root # None)
    BY <1>1 DEF NewRow, Row, StreamType, Ref, Id, None
  <2>3. Names(row) \subseteq Ids \cup {new, None} /\ row.root \in Names(row)
    BY <1>3 DEF Insertable, Names
  <2> HIDE DEF row
  <2>4. /\ Ids' = Ids \cup {new} /\ rows'[new] = row
        /\ \A n \in Ids : rows'[n] = rows[n]
    BY <1>1, <2>1 DEF Ids
  <2>5. row.root \in Ids' /\ (row.root = new \/ row.root \in Ids)
    BY <2>2, <2>3, <2>4
  <2>6. /\ stream' \in [Streams -> StreamType] /\ OtherStreams(s)
        /\ stream'[s].root = row.root /\ stream'[s].client = stream[s].client
        /\ stream'[s].pc = where /\ stream'[s][field] = new
    <3>1. row.root \in Ref /\ where \in StreamPC
      BY <2>2 DEF Row, Ref, Id, StreamPC
    <3> DEFINE top == IF stream[s].top = None THEN new ELSE stream[s].top
               went == [stream[s] EXCEPT !.pc = where, !.root = row.root, !.chain = @ \cup {new},
                                         !.top = top]
               next == [went EXCEPT ![field] = new]
    <3>2. top \in Ref /\ stream[s].chain \cup {new} \in SUBSET Id
      BY <1>1 DEF StreamType
    <3>3. stream' = [stream EXCEPT ![s] = next]
      BY <1>1, <2>1 DEF TypeOK
    <3> HIDE DEF top
    <3>4. went \in StreamType /\ went.root = row.root /\ went.pc = where /\ went.client = stream[s].client
      BY <1>1, <3>1, <3>2 DEF StreamType
    <3> HIDE DEF went
    <3>5. /\ next \in StreamType /\ next.root = row.root /\ next.pc = where
          /\ next.client = stream[s].client /\ next[field] = new
      BY <1>1, <3>4 DEF StreamType
    <3> HIDE DEF next
    <3> QED BY <1>1, <3>3, <3>5 DEF TypeOK, OtherStreams
  <2>7. TypeOK'
    <3>1. DOMAIN rows' \subseteq 1..made' /\ made' \in 0..MaxRows /\ completions' \subseteq 1..made'
      BY <1>1, <2>1 DEF TypeOK
    <3>2. \A n \in Ids' : rows'[n] \in Row /\ Names(rows'[n]) \subseteq Ids' \cup {None}
      BY <1>1, <2>2, <2>3, <2>4, RowTyped
    <3> QED BY <1>1, <2>6, <3>1, <3>2 DEF TypeOK
  <2>8. RootsExist'
    BY <2>4, <2>5 DEF MaintenanceInv, RootsExist
  <2>9. ThreadsHaveOneOwner'
    <3> SUFFICES ASSUME NEW n \in Ids', "moved" \notin slips[rows'[n].root]
                 PROVE  rows'[n].creator = rows'[rows'[n].root].creator
      BY <1>1, <2>8 DEF ThreadsHaveOneOwner, RootsExist
    <3>1. CASE n \in Ids
      BY <2>4, <3>1 DEF MaintenanceInv, RootsExist, ThreadsHaveOneOwner
    <3>2. CASE n = new /\ row.root = new
      BY <2>4, <3>2
    <3>3. CASE n = new /\ row.root \in Ids /\ row.root = stream[s].root
      BY <1>1, <2>2, <2>4, <3>3 DEF StreamFits
    <3> QED BY <1>1, <2>2, <2>4, <2>5, <3>1, <3>2, <3>3
  <2>10. StreamFits(s)'
    <3>1. row.root <= made'
      BY <1>1, <2>1, <2>5
    <3>2. where = "replying" => stream'[s].reply \in 1..made'
      BY <1>1, <2>1, <2>6
    <3>3. ASSUME "moved" \notin slips[row.root]
          PROVE  rows'[row.root].creator = stream[s].client
      <4>1. CASE row.root = new
        BY <2>2, <2>4, <4>1
      <4>2. CASE row.root \in Ids /\ row.root = stream[s].root
        BY <1>1, <2>4, <3>3, <4>2 DEF StreamFits
      <4> QED BY <1>1, <2>2, <2>5, <4>1, <4>2
    <3> QED BY <1>1, <2>6, <3>1, <3>2, <3>3 DEF StreamFits
  <2>11. ASSUME NEW q \in Streams \ {s} PROVE StreamFits(q)'
    <3>1. StreamFits(q) /\ stream'[q] = stream[q] /\ stream[q].root \in Nat
          /\ stream[q].reply \in Nat
      BY <1>1, <2>6 DEF MaintenanceInv, OtherStreams, TypeOK, StreamType, Ref
    <3>2. stream[q].root \in Ids' => stream[q].root \in Ids
      BY <1>1, <2>4, <3>1 DEF StreamFits
    <3>3. stream'[q].root <= made' /\ (stream'[q].pc \in {"replying", "shown"} =>
                                         stream'[q].reply \in 1..made')
      BY <1>1, <2>1, <3>1 DEF StreamFits
    <3>4. stream[q].root \in Ids => rows'[stream[q].root] = rows[stream[q].root]
      BY <2>4
    <3> QED BY <1>1, <3>1, <3>2, <3>3, <3>4 DEF StreamFits, Runs
  <2>12. ASSUME NEW d \in Deletions PROVE DeletionFits(d)'
    <3>1. DeletionFits(d) /\ deletion'[d] = deletion[d] /\ deletion[d].thread \in Nat
      BY <1>1 DEF MaintenanceInv, TypeOK, DeletionType, Ref
    <3>2. deletion[d].thread \in Ids' => deletion[d].thread \in Ids
      BY <1>1, <2>4, <3>1 DEF DeletionFits
    <3> QED BY <1>1, <2>1, <3>1, <3>2 DEF DeletionFits
  <2> QED BY <2>7, <2>8, <2>9, <2>10, <2>11, <2>12 DEF MaintenanceInv
<1> QED BY <1>2, <1>3

\* The system message, the prompt and the reply of a request.
LEMMA AddingKeeps ==
  ASSUME MaintenanceInv, NEW s \in Streams, AddSystem(s) \/ AddUser(s) \/ AddReply(s)
  PROVE  MaintenanceInv'
<1>1. /\ None \in Ref /\ stream[s].parent \in Ref /\ stream[s].user \in Ref
      /\ {"system", "user", "assistant"} \subseteq Role
  BY BoundAssumption DEF MaintenanceInv, TypeOK, StreamType, Ref, None, Role
<1>2. Runs(s)
  BY DEF AddSystem, AddUser, AddReply, Runs, Stopped
<1>3. CASE AddSystem(s)
  BY <1>1, <1>2, <1>3, InsertKeeps DEF AddSystem
<1>4. CASE AddUser(s)
  BY <1>1, <1>2, <1>4, InsertKeeps DEF AddUser
<1>5. CASE AddReply(s)
  BY <1>1, <1>2, <1>5, InsertKeeps DEF AddReply
<1> QED BY <1>3, <1>4, <1>5

-----------------------------------------------------------------------------
\* A table that has the roots and owners of the rows.
SameThreads(table) ==
  /\ DOMAIN table = Ids
  /\ \A n \in Ids : /\ table[n] \in Row /\ Names(table[n]) \subseteq Ids \cup {None}
                    /\ table[n].root = rows[n].root /\ table[n].creator = rows[n].creator

\* Rows that are deleted take their threads along: what is left has its roots.
LEMMA DeletingShrinks ==
  ASSUME MaintenanceInv, NEW table, SameThreads(table), NEW gone \in SUBSET Ids,
         rows' = Without(table, gone)
  PROVE  /\ Shrinks /\ Ids' \cap gone = {}
         /\ \A n \in Ids' : rows'[n] \in Row /\ Names(rows'[n]) \subseteq Ids' \cup {None}
<1> DEFINE lost == Cascade(gone, table)
<1>1. /\ DOMAIN table = Ids /\ gone \subseteq lost /\ lost \subseteq Ids
      /\ \A n \in Ids \ lost : Names(table[n]) \cap lost = {}
  BY CascadeCloses DEF SameThreads
<1>2. Ids' = Ids \ lost /\ \A n \in Ids' : rows'[n] = table[n]
  BY <1>1 DEF Without, Ids
<1> HIDE DEF lost
<1>3. ASSUME NEW n \in Ids'
      PROVE  /\ rows'[n] \in Row /\ Names(rows'[n]) \subseteq Ids' \cup {None}
             /\ rows'[n].root = rows[n].root /\ rows'[n].creator = rows[n].creator
             /\ rows[n].root \in Ids'
  <2>1. /\ n \in Ids \ lost /\ rows'[n] = table[n] /\ Names(table[n]) \cap lost = {}
    BY <1>1, <1>2
  <2>2. /\ table[n] \in Row /\ Names(table[n]) \subseteq Ids \cup {None}
        /\ table[n].root = rows[n].root /\ table[n].creator = rows[n].creator
    BY <2>1 DEF SameThreads
  <2>3. rows[n].root \in Ids /\ rows[n].root \in Names(table[n])
    BY <2>1, <2>2 DEF MaintenanceInv, RootsExist, Names
  <2> QED BY <1>2, <2>1, <2>2, <2>3
<1> QED BY <1>1, <1>2, <1>3 DEF Shrinks

\* The rows themselves, and the rows whose parent is detached.
LEMMA DetachingKeepsThreads ==
  ASSUME TypeOK
  PROVE  SameThreads(rows) /\ \A n : SameThreads(Detached(rows, n))
<1>1. SameThreads(rows)
  BY RowTyped DEF SameThreads, Ids
<1>2. ASSUME NEW n PROVE SameThreads(Detached(rows, n))
  <2> DEFINE table == Detached(rows, n)
  <2>1. /\ DOMAIN table = Ids
        /\ \A c \in Ids : table[c] = IF rows[c].parent = n
                                     THEN [rows[c] EXCEPT !.parent = None] ELSE rows[c]
    BY DEF Detached, Ids
  <2> HIDE DEF table
  <2>2. ASSUME NEW c \in Ids
        PROVE  /\ table[c] \in Row /\ Names(table[c]) \subseteq Ids \cup {None}
               /\ table[c].root = rows[c].root /\ table[c].creator = rows[c].creator
    <3>1. None \in Ref /\ rows[c] \in Row /\ Names(rows[c]) \subseteq Ids \cup {None}
      BY RowTyped, BoundAssumption DEF None, Ref
    <3>2. CASE rows[c].parent = n
      BY <2>1, <3>1, <3>2 DEF Row, Names
    <3>3. CASE rows[c].parent # n
      BY <2>1, <3>1, <3>3
    <3> QED BY <3>2, <3>3
  <2> QED BY <2>1, <2>2 DEF SameThreads, table
<1> QED BY <1>1, <1>2

\* A step of a deletion, or of time, that keeps the invariant but for its own part.
LEMMA DeletionKeeps ==
  ASSUME MaintenanceInv, TypeOK', Shrinks, made' = made, SlipsGrow,
         NEW d \in Deletions, OtherDeletions(d), DeletionFits(d)', UNCHANGED stream
  PROVE  MaintenanceInv'
BY ShrinkKeeps DEF MaintenanceInv, OtherDeletions

\* Reading a thread and giving up.
LEMMA ReadingKeeps ==
  ASSUME MaintenanceInv, NEW d \in Deletions, ReadForDelete(d) \/ CutDeletion(d)
  PROVE  MaintenanceInv'
<1>1. /\ TypeOK /\ UNCHANGED <<rows, made, completions, clock, stream, migrated>>
      /\ deletion[d] \in DeletionType /\ deletion[d].thread <= made
  BY DEF MaintenanceInv, TypeOK, DeletionFits, ReadForDelete, CutDeletion, tableVars
<1>2. PICK new \in DeletionType :
        /\ deletion' = [deletion EXCEPT ![d] = new] /\ new.thread <= made
        /\ (new.pc = "deleting" /\ new.thread \in new.todo) \/ new.pc = "cut"
  <2>1. CASE ReadForDelete(d)
    <3>1. PICK m \in Ids :
            /\ rows[m].root = m
            /\ deletion' = [deletion EXCEPT ![d] =
                 [pc |-> "deleting", thread |-> m, todo |-> Thread(m),
                  known |-> {n \in Thread(m) : rows[n].completion}, skipped |-> {}]]
      BY <2>1 DEF ReadForDelete
    <3> DEFINE new == [pc |-> "deleting", thread |-> m, todo |-> Thread(m),
                       known |-> {n \in Thread(m) : rows[n].completion}, skipped |-> {}]
    <3>2. m \in Ref /\ m <= made /\ m \in Thread(m) /\ Thread(m) \subseteq Id
      BY <1>1, <3>1, RowTyped DEF Ref, Id, Thread
    <3>3. new \in DeletionType /\ new.thread = m /\ new.pc = "deleting" /\ new.todo = Thread(m)
      BY <3>2 DEF DeletionType, DeletionPC
    <3> QED BY <3>1, <3>2, <3>3
  <2>2. CASE CutDeletion(d)
    <3> DEFINE new == [NoDeletion EXCEPT !.pc = "cut", !.thread = deletion[d].thread]
    <3>1. new \in DeletionType /\ new.thread = deletion[d].thread /\ new.pc = "cut"
      BY <1>1 DEF NoDeletion, DeletionType, DeletionPC
    <3> QED BY <1>1, <2>2, <3>1 DEF CutDeletion
  <2> QED BY <2>1, <2>2
<1>3. deletion' \in [Deletions -> DeletionType] /\ OtherDeletions(d) /\ deletion'[d] = new
  BY <1>1, <1>2 DEF TypeOK, OtherDeletions
<1>4. /\ slips' \in [Id -> SUBSET Happenings] /\ SlipsGrow
      /\ accidents' \in 0..Accidents
  <2>1. CASE ReadForDelete(d)
    <3>1. PICK m \in Ids : Slip(IF RunsOn(m) = {} THEN {} ELSE {m}, "raced")
      BY <2>1 DEF ReadForDelete
    <3>2. accidents' \in 0..Accidents
      BY <1>1, <2>1 DEF ReadForDelete, TypeOK
    <3> QED BY <1>1, <3>1, <3>2, Slipping DEF Happenings
  <2>2. CASE CutDeletion(d)
    <3>1. accidents' \in 0..Accidents
      BY <1>1, <2>2, BoundAssumption DEF CutDeletion, TypeOK
    <3>2. Slip({deletion[d].thread}, "halfway") /\ "halfway" \in Happenings
      BY <2>2 DEF CutDeletion, Happenings
    <3> QED BY <1>1, <3>1, <3>2, Slipping
  <2> QED BY <2>1, <2>2
<1>5. TypeOK' /\ DeletionFits(d)'
  BY <1>1, <1>2, <1>3, <1>4 DEF TypeOK, Ids, Happenings, DeletionFits
<1> QED BY <1>1, <1>3, <1>4, <1>5, NothingShrinks, DeletionKeeps

\* Deleting one row, or the completions of all: what names them goes along.
LEMMA DeletingKeeps ==
  ASSUME MaintenanceInv, NEW d \in Deletions, DeleteOne(d) \/ RemoveCompletions(d)
  PROVE  MaintenanceInv'
<1>1. /\ TypeOK /\ DeletionFits(d) /\ deletion[d] \in DeletionType
      /\ UNCHANGED <<made, clock, stream, migrated, accidents, slips>>
      /\ deletion[d].pc = "deleting"
  BY DEF MaintenanceInv, TypeOK, DeleteOne, RemoveCompletions
<1>2. /\ Shrinks
      /\ \A n \in Ids' : rows'[n] \in Row /\ Names(rows'[n]) \subseteq Ids' \cup {None}
      /\ completions' \subseteq 1..made
      /\ deletion' \in [Deletions -> DeletionType] /\ OtherDeletions(d)
      /\ DeletionFits(d)'
  <2>1. CASE DeleteOne(d)
    <3>1. PICK n \in deletion[d].todo :
            /\ rows' = IF Readable(n) THEN Without(Detached(rows, n), {n}) ELSE rows
            /\ deletion' = [deletion EXCEPT ![d].todo = @ \ {n},
                 ![d].skipped = IF n \in Ids /\ Expired(n) THEN @ \cup {n} ELSE @]
      BY <2>1 DEF DeleteOne
    <3>2. /\ Shrinks /\ (Readable(n) => n \notin Ids')
          /\ \A m \in Ids' : rows'[m] \in Row /\ Names(rows'[m]) \subseteq Ids' \cup {None}
      <4>1. CASE Readable(n)
        <5>1. SameThreads(Detached(rows, n)) /\ {n} \in SUBSET Ids
          BY <1>1, <4>1, DetachingKeepsThreads DEF Readable
        <5> QED BY <3>1, <4>1, <5>1, DeletingShrinks
      <4>2. CASE ~Readable(n)
        BY <1>1, <3>1, <4>2, NothingShrinks, RowTyped DEF Ids
      <4> QED BY <4>1, <4>2
    <3>3. /\ deletion' \in [Deletions -> DeletionType] /\ OtherDeletions(d)
          /\ deletion'[d].pc = "deleting" /\ deletion'[d].thread = deletion[d].thread
          /\ deletion'[d].todo = deletion[d].todo \ {n}
          /\ deletion'[d].skipped = IF n \in Ids /\ Expired(n) THEN deletion[d].skipped \cup {n}
                                    ELSE deletion[d].skipped
      <4> DEFINE skip == IF n \in Ids /\ Expired(n) THEN deletion[d].skipped \cup {n}
                         ELSE deletion[d].skipped
                 new == [deletion[d] EXCEPT !.todo = @ \ {n}, !.skipped = skip]
      <4>1. skip \in SUBSET Id
        BY <1>1 DEF DeletionType
      <4>2. /\ new \in DeletionType /\ new.pc = "deleting"
            /\ new.thread = deletion[d].thread
            /\ new.todo = deletion[d].todo \ {n} /\ new.skipped = skip
        <5> HIDE DEF skip
        <5> QED BY <1>1, <4>1 DEF DeletionType
      <4>3. deletion' = [deletion EXCEPT ![d] = new]
        BY <1>1, <3>1 DEF DeletionType
      <4> HIDE DEF new
      <4> QED BY <1>1, <4>2, <4>3 DEF TypeOK, OtherDeletions
    <3>4. DeletionFits(d)'
      BY <1>1, <3>2, <3>3 DEF DeletionFits, Shrinks, Readable
    <3> QED BY <1>1, <2>1, <3>2, <3>3, <3>4 DEF DeleteOne, TypeOK
  <2>2. CASE RemoveCompletions(d)
    <3> DEFINE gone == {n \in Ids \cap Related(d) : rows[n].completion}
    <3>1. rows' = Without(rows, gone) /\ gone \in SUBSET Ids
      BY <2>2 DEF RemoveCompletions, Remove
    <3> HIDE DEF gone
    <3>2. /\ Shrinks
          /\ \A m \in Ids' : rows'[m] \in Row /\ Names(rows'[m]) \subseteq Ids' \cup {None}
      BY <1>1, <3>1, DetachingKeepsThreads, DeletingShrinks
    <3>3. /\ deletion' \in [Deletions -> DeletionType] /\ OtherDeletions(d)
          /\ deletion'[d].pc = "done" /\ deletion'[d].thread = deletion[d].thread
          /\ deletion'[d].skipped = deletion[d].skipped
      BY <1>1, <2>2 DEF RemoveCompletions, TypeOK, DeletionType, DeletionPC, OtherDeletions
    <3>4. DeletionFits(d)'
      BY <1>1, <2>2, <3>2, <3>3 DEF RemoveCompletions, DeletionFits, Shrinks
    <3> QED BY <1>1, <2>2, <3>2, <3>3, <3>4 DEF RemoveCompletions, Remove, TypeOK
  <2> QED BY <2>1, <2>2
<1>3. TypeOK'
  <2>1. DOMAIN rows' \subseteq 1..made'
    BY <1>1, <1>2, RowTyped DEF Shrinks, Ids
  <2> QED BY <1>1, <1>2, <2>1 DEF TypeOK
<1> QED BY <1>1, <1>2, <1>3, DeletionKeeps DEF SlipsGrow

-----------------------------------------------------------------------------
\* Time passes: nothing changes but what can be read.
LEMMA TickKeeps ==
  ASSUME MaintenanceInv, Tick
  PROVE  MaintenanceInv'
<1>1. TypeOK /\ UNCHANGED <<rows, made, completions, stream, deletion, migrated, accidents>>
  BY DEF MaintenanceInv, Tick, tableVars
<1>2. PICK n \in Ids :
        /\ clock' = n
        /\ Slip(IF RunsOn(rows[n].root) = {} THEN {} ELSE {rows[n].root}, "aged")
  BY DEF Tick
<1>3. slips' \in [Id -> SUBSET Happenings] /\ SlipsGrow /\ clock' \in 0..MaxRows
  BY <1>1, <1>2, Slipping, RowTyped DEF Happenings, Id
<1>4. TypeOK'
  BY <1>1, <1>3 DEF TypeOK, Ids, Happenings
<1> QED BY <1>1, <1>3, <1>4, NothingShrinks, ShrinkKeeps DEF MaintenanceInv

\* The rows of the guest change their owner together; the threads on which he has
\* a stream under way are marked.
LEMMA MigrateKeeps ==
  ASSUME MaintenanceInv, Migrate
  PROVE  MaintenanceInv'
<1> DEFINE busy == {stream[s].root : s \in {q \in Streams : Runs(q) /\ stream[q].client = Guest}}
<1>1. /\ TypeOK /\ UNCHANGED <<made, completions, clock, stream, deletion, accidents>>
      /\ migrated' = TRUE /\ Slip(busy, "moved") /\ "moved" \in Happenings
      /\ rows' = [n \in Ids |-> Handed(rows[n])]
  BY DEF MaintenanceInv, Migrate, Happenings
<1>2. /\ slips' \in [Id -> SUBSET Happenings] /\ SlipsGrow
      /\ \A m \in Id \cap busy : "moved" \in slips'[m]
  BY <1>1, Slipping
<1> HIDE DEF busy
<1>3. /\ Ids' = Ids
      /\ \A n \in Ids : /\ rows'[n] \in Row /\ Names(rows'[n]) = Names(rows[n])
                        /\ rows'[n].root = rows[n].root
                        /\ rows'[n].creator = Account
  <2> SUFFICES ASSUME NEW n \in Ids
               PROVE  /\ rows'[n] \in Row /\ Names(rows'[n]) = Names(rows[n])
                      /\ rows'[n].root = rows[n].root /\ rows'[n].creator = Account
    BY <1>1 DEF Ids
  <2>1. rows'[n] = Handed(rows[n]) /\ rows[n] \in Row
    BY <1>1, RowTyped
  <2> QED BY <2>1 DEF Handed, Row, Client, Names
<1>4. TypeOK'
  <2>1. DOMAIN rows' \subseteq 1..made' /\ made' \in 0..MaxRows
    BY <1>1, <1>3 DEF TypeOK, Ids
  <2>2. \A n \in Ids' : rows'[n] \in Row /\ Names(rows'[n]) \subseteq Ids' \cup {None}
    BY <1>1, <1>3, RowTyped
  <2> QED BY <1>1, <1>2, <2>1, <2>2 DEF TypeOK, Happenings
<1>5. RootsExist' /\ ThreadsHaveOneOwner'
  BY <1>3 DEF MaintenanceInv, RootsExist, ThreadsHaveOneOwner
<1>6. ASSUME NEW s \in Streams PROVE StreamFits(s)'
  <2>1. StreamFits(s) /\ stream[s].client \in Client
    BY <1>1 DEF MaintenanceInv, TypeOK, StreamType
  <2>2. ASSUME Runs(s), stream[s].root \in Ids, "moved" \notin slips'[stream[s].root]
        PROVE  stream[s].client = Account
    <3>1. stream[s].root \in Id
      BY <1>1, <2>2, RowTyped
    <3> QED BY <1>2, <2>1, <2>2, <3>1 DEF Client, busy
  <2> QED BY <1>1, <1>3, <2>1, <2>2 DEF StreamFits, Runs
<1>7. ASSUME NEW d \in Deletions PROVE DeletionFits(d)'
  BY <1>1, <1>3 DEF MaintenanceInv, DeletionFits
<1> QED BY <1>4, <1>5, <1>6, <1>7 DEF MaintenanceInv

-----------------------------------------------------------------------------
\* The table of a first thread.
LEMMA FirstTyped ==
  ASSUME NEW who \in Client, MaxRows >= 2
  PROVE  /\ DOMAIN FirstThread(who) = 1..2
         /\ \A n \in 1..2 : /\ FirstThread(who)[n] \in Row
                            /\ Names(FirstThread(who)[n]) \subseteq {1, None}
                            /\ FirstThread(who)[n].root = 1
                            /\ FirstThread(who)[n].creator = who
<1>1. 1 \in Id /\ 1 \in Ref /\ 0 \in Ref
  BY BoundAssumption DEF Id, Ref
<1>2. DOMAIN FirstThread(who) = 1..2
  BY DEF FirstThread
<1>3. \A n \in 1..2 : n = 1 \/ n = 2
  OBVIOUS
<1>4. /\ FirstThread(who)[1] \in Row /\ Names(FirstThread(who)[1]) \subseteq {1, None}
      /\ FirstThread(who)[1].root = 1 /\ FirstThread(who)[1].creator = who
  BY <1>1 DEF FirstThread, Row, Role, Names, None
<1>5. /\ FirstThread(who)[2] \in Row /\ Names(FirstThread(who)[2]) \subseteq {1, None}
      /\ FirstThread(who)[2].root = 1 /\ FirstThread(who)[2].creator = who
  BY <1>1 DEF FirstThread, Row, Role, Names, None
<1> QED BY <1>2, <1>3, <1>4, <1>5

\* The tables the system may start with: no row, or a thread of two.
LEMMA FirstTables ==
  ASSUME Init
  PROVE  /\ Ids \subseteq 1..made /\ made \in 0..MaxRows /\ completions \subseteq 1..made
         /\ \A n \in Ids : /\ rows[n] \in Row /\ Names(rows[n]) \subseteq Ids \cup {None}
                           /\ rows[n].root \in Ids
                           /\ rows[n].creator = rows[rows[n].root].creator
<1>1. CASE rows = <<>> /\ completions = {}
  <2>1. Ids = {}
    BY <1>1 DEF Ids
  <2>2. made = 0
    BY <2>1, FS_EmptySet DEF Init, Ids
  <2> QED BY <1>1, <2>1, <2>2, BoundAssumption
<1>2. CASE MaxRows >= 2 /\ completions \subseteq {2}
           /\ \E who \in Client : rows = FirstThread(who)
  <2>1. PICK who \in Client : rows = FirstThread(who)
    BY <1>2
  <2>2. Ids = 1..2
    BY <1>2, <2>1, FirstTyped DEF Ids
  <2>3. made = 2
    <3>1. Cardinality(1..2) = 2
      <4>1. 1 \in Int /\ 2 \in Int /\ ~(1 > 2) /\ 2 - 1 + 1 = 2
        OBVIOUS
      <4>2. Cardinality(1..2) = IF 1 > 2 THEN 0 ELSE 2 - 1 + 1
        BY <4>1, FS_Interval, Zenon
      <4> QED BY <4>1, <4>2
    <3>2. made = Cardinality(1..2)
      BY <2>2 DEF Init, Ids
    <3> QED BY <3>1, <3>2
  <2> QED BY <1>2, <2>1, <2>2, <2>3, FirstTyped, BoundAssumption
<1> QED BY <1>1, <1>2 DEF Init, Client

\* Streams, deletions, the migration and time keep the invariant, in any
\* interleaving.
THEOREM MaintenanceAlways == Spec => []MaintenanceInv
<1>1. Init => MaintenanceInv
  <2> SUFFICES ASSUME Init PROVE MaintenanceInv
    OBVIOUS
  <2>1. None \in Ref /\ None <= made /\ made \in Nat
    BY FirstTables, BoundAssumption DEF None, Ref
  <2>2. NoStream \in StreamType /\ NoStream.pc = "idle" /\ NoStream.root = None
    BY <2>1 DEF NoStream, StreamType, StreamPC, Client
  <2>3. NoDeletion \in DeletionType /\ NoDeletion.pc = "idle" /\ NoDeletion.thread = None
    BY <2>1 DEF NoDeletion, DeletionType, DeletionPC
  <2>4. TypeOK
    <3>1. DOMAIN rows \subseteq 1..made /\ made \in 0..MaxRows /\ completions \subseteq 1..made
      BY FirstTables DEF Ids
    <3>2. \A n \in Ids : rows[n] \in Row /\ Names(rows[n]) \subseteq Ids \cup {None}
      BY FirstTables
    <3>3. clock \in 0..MaxRows /\ migrated \in BOOLEAN /\ accidents \in 0..Accidents
      <4>1. clock = 0 /\ accidents = 0
        BY DEF Init
      <4>2. migrated \in BOOLEAN
        BY DEF Init
      <4>3. 0 \in 0..MaxRows /\ 0 \in 0..Accidents
        BY BoundAssumption
      <4> QED BY <4>1, <4>2, <4>3
    <3>4. stream \in [Streams -> StreamType] /\ deletion \in [Deletions -> DeletionType]
      BY <2>2, <2>3 DEF Init
    <3>5. slips \in [Id -> SUBSET {"cut", "raced", "halfway", "moved", "aged", "error", "forked"}]
      BY DEF Init
    <3> QED BY <3>1, <3>2, <3>3, <3>4, <3>5 DEF TypeOK
  <2>5. RootsExist /\ ThreadsHaveOneOwner
    BY FirstTables DEF RootsExist, ThreadsHaveOneOwner
  <2>6. ASSUME NEW s \in Streams PROVE StreamFits(s)
    BY <2>1, <2>2 DEF Init, StreamFits, Runs, Stopped
  <2>7. ASSUME NEW d \in Deletions PROVE DeletionFits(d)
    BY <2>1, <2>3 DEF Init, DeletionFits
  <2> QED BY <2>4, <2>5, <2>6, <2>7 DEF MaintenanceInv
<1>2. MaintenanceInv /\ [Next]_vars => MaintenanceInv'
  <2> SUFFICES ASSUME MaintenanceInv, [Next]_vars PROVE MaintenanceInv'
    OBVIOUS
  <2>1. ASSUME NEW s \in Streams, StreamStep(s) PROVE MaintenanceInv'
    BY <2>1, ValidateKeeps, QuietKeeps, AddingKeeps, SavingKeeps DEF StreamStep
  <2>2. ASSUME NEW d \in Deletions, DeletionStep(d) PROVE MaintenanceInv'
    BY <2>2, ReadingKeeps, DeletingKeeps DEF DeletionStep
  <2>3. CASE UNCHANGED vars
    <3>1. TypeOK'
      BY <2>3 DEF vars, tableVars, MaintenanceInv, TypeOK, Ids
    <3>2. SlipsGrow
      BY <2>3 DEF vars, SlipsGrow
    <3> QED BY <2>3, <3>1, <3>2, NothingShrinks, ShrinkKeeps DEF vars, tableVars, MaintenanceInv
  <2> QED BY <2>1, <2>2, <2>3, MigrateKeeps, TickKeeps DEF Next
<1> QED BY <1>1, <1>2, PTL DEF Spec

\* A thread that was deleted stays deleted, however many streams were under way on
\* it: no row can be added under a root that is gone (DeletedThreadsStayDeleted).
THEOREM DeletedForGood == Spec => []DeletedThreadsStayDeleted
<1>1. MaintenanceInv => DeletedThreadsStayDeleted
  BY DEF MaintenanceInv, RootsExist, DeletionFits, DeletedThreadsStayDeleted, Thread
<1> QED BY <1>1, MaintenanceAlways, PTL

\* The rows of a thread have one owner through deletions and the migration of the
\* anonymous user, unless he had a stream under way on it (ThreadsHaveOneOwner).
THEOREM OwnersStayTogether == Spec => []ThreadsHaveOneOwner
<1>1. MaintenanceInv => ThreadsHaveOneOwner
  BY DEF MaintenanceInv
<1> QED BY <1>1, MaintenanceAlways, PTL

\* Rows, streams and deletions keep their types, and no row names one that is gone,
\* whatever is deleted in whichever order (TypeOK).
THEOREM MaintenanceTypes == Spec => []TypeOK
<1>1. MaintenanceInv => TypeOK
  BY DEF MaintenanceInv
<1> QED BY <1>1, MaintenanceAlways, PTL
-----------------------------------------------------------------------------
(***************************************************************************)
(* What the readers see.  A thread that no deletion has begun on is whole. *)
(* Parents are older than their children, so whoever climbs comes to a row *)
(* without a parent: the root, or the head of a branch that a stream has   *)
(* torn off.  A row is final only beside an answer, or where the model's   *)
(* answer was an error.  A root that is not final has a stream that will   *)
(* make it final: the stream of the prompt that is the root; or, once a    *)
(* branch was torn off below a system message, the one that did it, for    *)
(* the streams on that branch do not come to the system message any more.  *)
(***************************************************************************)
Whole(m) == m \notin Deleting

Answered(m) ==
  "error" \in slips[m] \/ \E k \in Thread(m) : rows[k].role = "assistant" /\ rows[k].final

Asks(q, n) == Runs(q) /\ stream[q].user = n /\ stream[q].root = n

Unturned(q, n) == stream[q].pc = "unturned" /\ stream[q].root = n

Closes(q, n) == stream[q].pc = "closing" /\ stream[q].top = n /\ stream[q].root = n

\* A branch was torn off; the root is final, or somebody is about to make it so.
Torn(m) ==
  /\ "forked" \in slips[m]
  /\ rows[m].role = "system" /\ ~rows[m].final =>
       "cut" \in slips[m] \/ \E q \in Streams : Closes(q, m)

\* A row is in the thread of its parent, and its root is its own root.
RowShape(n) ==
  /\ rows[n].root <= n
  /\ rows[rows[n].root].root = rows[n].root
  /\ rows[n].parent # None =>
       rows[n].parent < n /\ rows[rows[n].parent].root = rows[n].root

RowKept(n) ==
  Whole(rows[n].root) =>
    /\ rows[n].root = n => rows[n].parent = None /\ rows[n].role # "assistant"
    /\ rows[n].root # n /\ rows[n].parent = None => Torn(rows[n].root)
    /\ rows[n].final => Answered(rows[n].root)
    /\ rows[n].root = n /\ rows[n].role = "user" /\ ~rows[n].final =>
         "cut" \in slips[n] \/ \E q \in Streams : Asks(q, n) \/ Unturned(q, n)

-----------------------------------------------------------------------------
(***************************************************************************)
(* What a stream knows at each place.  Its rows are of its thread, and     *)
(* there as long as the thread is whole; when it is not, the history says  *)
(* that the two have met.                                                  *)
(***************************************************************************)
RowsOfStream(s) ==
  {stream[s].root, stream[s].parent, stream[s].user, stream[s].reply, stream[s].top}
    \cup stream[s].chain \cup stream[s].drops

PlaceFits(s) ==
  /\ stream[s].pc = "validated" =>
       stream[s].user = None /\ stream[s].reply = None /\ stream[s].top = None
  /\ stream[s].pc = "opened" =>
       stream[s].user = None /\ stream[s].reply = None /\ stream[s].top = stream[s].root
  /\ stream[s].pc \in {"validated", "opened"} =>
       (stream[s].parent = None <=> stream[s].root = None)
  /\ stream[s].pc = "chained" =>
       /\ stream[s].user = None /\ stream[s].reply = None
       /\ stream[s].parent # None /\ stream[s].root # None /\ stream[s].top # None
  /\ stream[s].pc \in {"asked", "replying", "shown", "generated", "closing"} =>
       stream[s].user # None /\ stream[s].root # None /\ stream[s].top # None
  /\ stream[s].pc = "asked" => stream[s].reply = None
  /\ stream[s].pc \in {"replying", "shown", "generated"} => stream[s].reply # None
  /\ stream[s].pc \notin {"shown", "generated", "closing"} => stream[s].drops = {}

WholeFits(s) ==
  /\ RowsOfStream(s) \subseteq Ids \cup {None}
  /\ stream[s].pc = "validated" /\ stream[s].parent # None /\ stream[s].up # None =>
       /\ stream[s].up \in Ids /\ stream[s].up < stream[s].parent
       /\ rows[stream[s].up].root = stream[s].root
  /\ stream[s].pc = "validated" /\ stream[s].parent # None /\ stream[s].up = None =>
       rows[stream[s].parent].parent = None
  /\ stream[s].top # None => rows[stream[s].top].parent = None
  /\ stream[s].root \notin stream[s].drops
  /\ stream[s].reply # None => rows[stream[s].reply].role = "assistant"
  /\ stream[s].user # None => rows[stream[s].user].role = "user"
  /\ stream[s].pc = "closing" => Answered(stream[s].root)

Unseen(m) == slips[m] \cap {"aged", "raced", "moved"} = {}

StreamKnows(s) ==
  Runs(s) =>
    /\ PlaceFits(s)
    /\ \A x \in RowsOfStream(s) : x <= made /\ (x \in Ids => rows[x].root = stream[s].root)
    /\ Whole(stream[s].root) => WholeFits(s)
    /\ ~Whole(stream[s].root) => "raced" \in slips[stream[s].root]
    /\ stream[s].pc = "validated" /\ stream[s].parent # None /\ Unseen(stream[s].root) =>
         \A n \in Thread(stream[s].root) : ~Expired(n)

\* How a stream has ended.
EndFits(s) ==
  /\ stream[s].pc = "lost" => stream[s].root # None /\ ~Unseen(stream[s].root)
  /\ stream[s].pc = "done" /\ stream[s].root \in Ids =>
       /\ rows[stream[s].root].root = stream[s].root
       /\ Whole(stream[s].root) /\ rows[stream[s].root].role = "system" =>
            rows[stream[s].root].final \/ Torn(stream[s].root)

-----------------------------------------------------------------------------
(***************************************************************************)
(* Completions.  Unless something met or was cut off, each is of a row that*)
(* says so, of a reply about to be saved, or about to be removed.          *)
(***************************************************************************)
Excused == \E m \in Id : slips[m] \cap {"cut", "raced", "halfway"} # {}

ReplyIsOwn(s) ==
  Runs(s) /\ stream[s].reply # None =>
    \A q \in Streams \ {s} : Runs(q) => stream[q].reply # stream[s].reply

ReplyIsNew(s) ==
  stream[s].pc \in {"replying", "shown"} \/ (stream[s].pc = "generated" /\ stream[s].client = Guest)
    => stream[s].reply \notin completions

DeletionKnows(d) ==
  /\ deletion[d].pc # "idle" => deletion[d].thread # None
  /\ deletion[d].pc = "deleting" =>
       /\ \A n \in deletion[d].todo \cup deletion[d].known :
            n <= made /\ (n \in Ids => rows[n].root = deletion[d].thread)
       /\ Excused \/ \A n \in Thread(deletion[d].thread) :
                       rows[n].completion => n \in deletion[d].known

Accounted(n) ==
  \/ n \in Ids /\ rows[n].completion
  \/ \E d \in Deletions : deletion[d].pc = "deleting" /\ n \in deletion[d].known
  \/ n \in Ids /\ \E s \in Streams : stream[s].pc = "generated" /\ stream[s].reply = n

Ledger == Excused \/ \A n \in completions : Accounted(n)

ReadersInv ==
  /\ \A n \in Ids : RowShape(n) /\ RowKept(n)
  /\ clock <= made
  /\ \A s \in Streams : StreamKnows(s) /\ EndFits(s) /\ ReplyIsOwn(s) /\ ReplyIsNew(s)
  /\ \A d \in Deletions : DeletionKnows(d)
  /\ Ledger

(***************************************************************************)
(* What a step may do.  Rows keep their place, are made anew or go, and go *)
(* only from threads that are being deleted; a deletion that begins on a   *)
(* thread with a stream, and time that passes on one, leave their mark.    *)
(***************************************************************************)
RowStays(n) ==
  /\ n \in Ids /\ rows'[n].root = rows[n].root /\ rows'[n].role = rows[n].role
  /\ rows'[n].parent \in {rows[n].parent, None}
  /\ rows[n].final => rows'[n].final

Orderly ==
  /\ Deleting \subseteq Deleting' /\ SlipsGrow /\ made' \in Nat /\ made <= made'
  /\ \A n \in Ids' : n <= made => RowStays(n)
  /\ \A n \in Ids : rows[n].root \notin Deleting' => n \in Ids'
  /\ \A m \in Deleting' \ Deleting : RunsOn(m) # {} => "raced" \in slips'[m]
  /\ \A n \in Ids' : Expired(n)' =>
       n \in Ids /\ (Expired(n) \/ RunsOn(rows[n].root) = {} \/ "aged" \in slips'[rows[n].root])

\* A stream does what the root of its thread waits for, or still will, or was cut
\* off; or it had no turn.
Keeps(q, m) ==
  /\ Asks(q, m) => Asks(q, m)' \/ Unturned(q, m)' \/ rows'[m].final \/ "cut" \in slips'[m]
  /\ Unturned(q, m) => Unturned(q, m)'
  /\ Closes(q, m) /\ rows[m].role = "system" /\ ~rows[m].final =>
       Closes(q, m)' \/ rows'[m].final \/ "cut" \in slips'[m]

PromisesKept == \A m \in Ids : Whole(m) => \A q \in Streams : Keeps(q, m)

\* Numbers, rows and threads.
LEMMA ReaderFacts ==
  ASSUME MaintenanceInv, ReadersInv
  PROVE  /\ made \in Nat /\ Ids \subseteq 1..made /\ Ids \subseteq Id /\ None \notin Ids /\ None \notin Id
         /\ \A n \in Id : n \in Nat /\ n # None
         /\ None \notin Deleting /\ Deleting \subseteq Id /\ \A m \in Deleting : m <= made
         /\ \A n \in Ids : /\ rows[n].root \in Ids /\ rows[n].parent \in Ids \cup {None}
                           /\ RowShape(n) /\ RowKept(n)
         /\ stream \in [Streams -> StreamType]
         /\ \A s \in Streams : /\ stream[s] \in StreamType /\ RowsOfStream(s) \subseteq Nat
                               /\ stream[s].root # None => stream[s].root \in Id
<1>1. TypeOK /\ RootsExist /\ \A d \in Deletions : DeletionFits(d) /\ DeletionKnows(d)
  BY DEF MaintenanceInv, ReadersInv
<1>2. /\ made \in Nat /\ Ids \subseteq 1..made /\ Ids \subseteq Id
      /\ \A n \in Ids : /\ rows[n].root \in Ids /\ rows[n].parent \in Ids \cup {None}
  BY <1>1, RowTyped DEF RootsExist, Names
<1>3. \A n \in Id : n \in Nat /\ n # None
  BY BoundAssumption DEF Id, None
<1>4. ASSUME NEW m \in Deleting PROVE m # None /\ m \in Id /\ m <= made
  <2>1. PICK d \in Deletions : deletion[d].pc # "idle" /\ deletion[d].thread = m
    BY DEF Deleting
  <2>2. m # None /\ m <= made /\ m \in Ref
    BY <1>1, <2>1 DEF DeletionKnows, DeletionFits, TypeOK, DeletionType
  <2> QED BY <2>2 DEF Ref, Id, None
<1>5. \A n \in Ids : RowShape(n) /\ RowKept(n)
  BY DEF ReadersInv
<1>6. stream \in [Streams -> StreamType]
  BY <1>1 DEF TypeOK
<1>7. ASSUME NEW s \in Streams
      PROVE  /\ stream[s] \in StreamType /\ RowsOfStream(s) \subseteq Nat
             /\ stream[s].root # None => stream[s].root \in Id
  <2>1. stream[s] \in StreamType
    BY <1>6
  <2>2. Ref \subseteq Nat
    BY BoundAssumption DEF Ref
  <2>3. /\ stream[s].root \in Ref /\ stream[s].parent \in Ref /\ stream[s].user \in Ref
        /\ stream[s].reply \in Ref /\ stream[s].top \in Ref
    BY <2>1 DEF StreamType
  <2>4. stream[s].root # None => stream[s].root \in Id
    BY <2>3 DEF Ref, Id, None
  <2>5. stream[s].chain \subseteq Nat /\ stream[s].drops \subseteq Nat
    BY <1>3, <2>1 DEF StreamType
  <2> QED BY <2>1, <2>2, <2>3, <2>4, <2>5 DEF RowsOfStream
<1> QED BY <1>2, <1>3, <1>4, <1>5, <1>6, <1>7

\* A stream that does not move keeps what it promised.
LEMMA OthersKeep ==
  ASSUME NEW q, stream'[q] = stream[q], NEW m
  PROVE  Keeps(q, m)
BY DEF Keeps, Asks, Unturned, Closes, Runs

\* A thread from which a branch was torn stays so.
LEMMA TornStays ==
  ASSUME Orderly, NEW m \in Ids, m \in Id, m \in Ids', m <= made, Torn(m), \A q \in Streams : Keeps(q, m)
  PROVE  Torn(m)'
<1>1. rows'[m].role = rows[m].role /\ (rows[m].final => rows'[m].final) /\ slips[m] \subseteq slips'[m]
  BY DEF Orderly, RowStays, SlipsGrow
<1>2. "forked" \in slips'[m]
  BY <1>1 DEF Torn
<1>3. ASSUME rows'[m].role = "system", ~rows'[m].final
      PROVE  "cut" \in slips'[m] \/ \E q \in Streams : Closes(q, m)'
  <2>1. rows[m].role = "system" /\ ~rows[m].final
    BY <1>1, <1>3
  <2>2. CASE "cut" \in slips[m]
    BY <1>1, <2>2
  <2>3. ASSUME NEW q \in Streams, Closes(q, m)
        PROVE  "cut" \in slips'[m] \/ Closes(q, m)'
    BY <1>3, <2>1, <2>3 DEF Keeps
  <2> QED BY <2>1, <2>2, <2>3 DEF Torn
<1> QED BY <1>2, <1>3 DEF Torn

\* A stream that does not move knows what it knew, and one that has ended stays so.
LEMMA OthersKnow ==
  ASSUME MaintenanceInv, ReadersInv, Orderly, PromisesKept, NEW q \in Streams, stream'[q] = stream[q]
  PROVE  StreamKnows(q)' /\ EndFits(q)'
<1>1. PICK m : m = stream[q].root
  OBVIOUS
<1>2. /\ StreamKnows(q) /\ EndFits(q) /\ StreamFits(q)
  BY DEF ReadersInv, MaintenanceInv
<1>3. /\ None \notin Ids /\ None \notin Deleting /\ Ids \subseteq Id
      /\ RowsOfStream(q) \subseteq Nat /\ made \in Nat
      /\ m # None => m \in Id
  BY <1>1, ReaderFacts
<1>4. /\ Runs(q)' <=> Runs(q)
      /\ RowsOfStream(q)' = RowsOfStream(q)
      /\ PlaceFits(q)' <=> PlaceFits(q)
  BY DEF Runs, RowsOfStream, PlaceFits
<1>5. m \in RowsOfStream(q) /\ m \in Nat
  BY <1>1, <1>3 DEF RowsOfStream
<1>6. ASSUME Runs(q) PROVE StreamKnows(q)'
  <2>1. /\ PlaceFits(q)
        /\ \A x \in RowsOfStream(q) : x <= made /\ (x \in Ids => rows[x].root = m)
        /\ Whole(m) => WholeFits(q)
        /\ ~Whole(m) => "raced" \in slips[m]
        /\ stream[q].pc = "validated" /\ stream[q].parent # None /\ Unseen(m) =>
             \A n \in Thread(m) : ~Expired(n)
    BY <1>1, <1>2, <1>6 DEF StreamKnows
  <2>2. ASSUME NEW x \in RowsOfStream(q)
        PROVE  x <= made' /\ (x \in Ids' => rows'[x].root = m)
    <3>1. x <= made /\ x \in Nat /\ made <= made'
      BY <1>3, <2>1, <2>2 DEF Orderly
    <3>2. x <= made'
      BY <1>3, <3>1 DEF Orderly
    <3>3. x \in Ids' => RowStays(x)
      BY <3>1, <2>2 DEF Orderly
    <3> QED BY <2>1, <2>2, <3>2, <3>3 DEF RowStays
  <2>3. ASSUME Whole(m)' PROVE WholeFits(q)'
    <3>1. m \notin Deleting' /\ WholeFits(q)
      BY <2>1, <2>3 DEF Orderly, Whole
    <3>2. ASSUME NEW x \in Ids, rows[x].root = m
          PROVE  x \in Ids' /\ RowStays(x)
      <4>1. x <= made
        BY ReaderFacts
      <4>2. x \in Ids'
        BY <3>1, <3>2 DEF Orderly
      <4> QED BY <4>1, <4>2 DEF Orderly
    <3>3. ASSUME NEW x \in RowsOfStream(q), x # None
          PROVE  x \in Ids /\ rows[x].root = m /\ x \in Ids' /\ RowStays(x)
      <4>1. x \in Ids /\ rows[x].root = m
        BY <2>1, <3>1, <3>3 DEF WholeFits
      <4> QED BY <3>2, <4>1
    <3>4. RowsOfStream(q)' \subseteq Ids' \cup {None}
      BY <1>4, <3>3
    <3>5. /\ stream[q].parent \in RowsOfStream(q) /\ stream[q].top \in RowsOfStream(q)
          /\ stream[q].user \in RowsOfStream(q) /\ stream[q].reply \in RowsOfStream(q)
      BY DEF RowsOfStream
    <3>6. stream[q].pc = "validated" /\ stream[q].parent # None /\ stream[q].up # None =>
            /\ stream[q].up \in Ids' /\ stream[q].up < stream[q].parent
            /\ rows'[stream[q].up].root = m
      BY <1>1, <3>1, <3>2 DEF WholeFits, RowStays
    <3>7. stream[q].pc = "validated" /\ stream[q].parent # None /\ stream[q].up = None =>
            rows'[stream[q].parent].parent = None
      BY <3>1, <3>3, <3>5 DEF WholeFits, RowStays
    <3>8. stream[q].top # None => rows'[stream[q].top].parent = None
      BY <3>1, <3>3, <3>5 DEF WholeFits, RowStays
    <3>9. stream[q].reply # None => rows'[stream[q].reply].role = "assistant"
      BY <3>1, <3>3, <3>5 DEF WholeFits, RowStays
    <3>10. stream[q].user # None => rows'[stream[q].user].role = "user"
      BY <3>1, <3>3, <3>5 DEF WholeFits, RowStays
    <3>11. stream[q].pc = "closing" => Answered(m)'
      <4>1. SUFFICES ASSUME stream[q].pc = "closing", Answered(m) PROVE Answered(m)'
        BY <1>1, <3>1 DEF WholeFits
      <4>2. CASE "error" \in slips[m]
        <5>1. m \in Id
          BY <1>1, <1>3, <2>1, <4>1 DEF PlaceFits
        <5>2. "error" \in slips'[m]
          BY <4>2, <5>1 DEF Orderly, SlipsGrow
        <5> QED BY <5>2 DEF Answered
      <4>3. ASSUME NEW k \in Thread(m), rows[k].role = "assistant", rows[k].final PROVE Answered(m)'
        <5>1. k \in Ids' /\ RowStays(k) /\ rows[k].root = m
          BY <3>2 DEF Thread
        <5>2. k \in Thread(m)' /\ rows'[k].role = "assistant" /\ rows'[k].final
          BY <4>3, <5>1 DEF Thread, RowStays
        <5> QED BY <5>2 DEF Answered
      <4> QED BY <4>1, <4>2, <4>3 DEF Answered
    <3>12. /\ stream'[q].root = m /\ stream'[q].drops = stream[q].drops /\ m \notin stream[q].drops
           /\ stream'[q].pc = stream[q].pc /\ stream'[q].parent = stream[q].parent /\ stream'[q].up = stream[q].up
           /\ stream'[q].user = stream[q].user /\ stream'[q].reply = stream[q].reply
           /\ stream'[q].top = stream[q].top
      BY <1>1, <3>1 DEF WholeFits
    <3> QED BY <3>4, <3>6, <3>7, <3>8, <3>9, <3>10, <3>11, <3>12 DEF WholeFits
  <2>4. ASSUME ~Whole(m)' PROVE "raced" \in slips'[m]
    <3>1. CASE m \in Deleting
      BY <2>1, <1>3, <3>1 DEF Whole, Orderly, SlipsGrow
    <3>2. CASE m \notin Deleting
      <4>1. m \in Deleting' \ Deleting
        BY <2>4, <3>2 DEF Whole
      <4>2. q \in RunsOn(m)
        BY <1>1, <1>6 DEF RunsOn
      <4> QED BY <4>1, <4>2 DEF Orderly
    <3> QED BY <3>1, <3>2
  <2>5. ASSUME stream[q].pc = "validated", stream[q].parent # None, Unseen(m)',
               NEW n \in Thread(m)'
        PROVE  ~Expired(n)'
    <3>1. m # None /\ m \in Id
      BY <1>1, <1>3, <2>1, <2>5 DEF PlaceFits
    <3>2. Unseen(m)
      BY <2>5, <3>1 DEF Unseen, Orderly, SlipsGrow
    <3>3. n \in Ids' /\ rows'[n].root = m
      BY <2>5 DEF Thread
    <3>4. ASSUME Expired(n)' PROVE FALSE
      <4>1. /\ n \in Ids
            /\ (Expired(n) \/ RunsOn(rows[n].root) = {} \/ "aged" \in slips'[rows[n].root])
        BY <3>3, <3>4 DEF Orderly
      <4>2. n <= made
        BY <4>1, ReaderFacts
      <4>3. rows[n].root = m /\ n \in Thread(m)
        BY <3>3, <4>1, <4>2 DEF Orderly, RowStays, Thread
      <4>4. q \in RunsOn(m)
        BY <1>1, <1>6 DEF RunsOn
      <4>5. "aged" \notin slips'[m]
        BY <2>5 DEF Unseen
      <4> QED BY <2>1, <2>5, <3>2, <4>1, <4>3, <4>4, <4>5
    <3> QED BY <3>4
  <2>6. stream'[q].root = m /\ stream'[q].pc = stream[q].pc /\ stream'[q].parent = stream[q].parent
    BY <1>1
  <2> QED BY <1>4, <2>1, <2>2, <2>3, <2>4, <2>5, <2>6 DEF StreamKnows
<1>7. EndFits(q)'
  <2>1. ASSUME stream[q].pc = "lost" PROVE m # None /\ ~Unseen(m)'
    BY <1>1, <1>2, <1>3, <2>1 DEF EndFits, Unseen, Orderly, SlipsGrow
  <2>2. ASSUME stream[q].pc = "done", m \in Ids'
        PROVE  /\ rows'[m].root = m
               /\ Whole(m)' /\ rows'[m].role = "system" => rows'[m].final \/ Torn(m)'
    <3>1. RowStays(m) /\ m <= made
      BY <1>1, <1>2, <2>2 DEF StreamFits, Orderly
    <3>2. m \in Ids /\ rows'[m].root = rows[m].root /\ rows'[m].role = rows[m].role
          /\ (rows[m].final => rows'[m].final) /\ (Whole(m)' => Whole(m))
      BY <3>1 DEF RowStays, Whole, Orderly
    <3>3. rows[m].root = m /\ (Whole(m) /\ rows[m].role = "system" => rows[m].final \/ Torn(m))
      BY <1>1, <1>2, <2>2, <3>2 DEF EndFits
    <3>4. ASSUME Torn(m), Whole(m) PROVE Torn(m)'
      BY <1>3, <2>2, <3>1, <3>2, <3>4, TornStays DEF PromisesKept
    <3> QED BY <3>2, <3>3, <3>4
  <2>3. stream'[q].root = m /\ stream'[q].pc = stream[q].pc
    BY <1>1
  <2> QED BY <2>1, <2>2, <2>3 DEF EndFits
<1> QED BY <1>4, <1>6, <1>7 DEF StreamKnows

\* A row that is left keeps what is said of it: unless the step makes it final, for
\* which there must be an answer, or takes its parent.
LEMMA OldRowsKeep ==
  ASSUME MaintenanceInv, ReadersInv, RootsExist', TypeOK', Orderly, PromisesKept, NEW n \in Ids' \cap Ids,
         rows'[n].final /\ ~rows[n].final /\ Whole(rows[n].root) => Answered(rows[n].root)',
         rows'[n].parent = None /\ rows[n].parent # None /\ Whole(rows[n].root) => Torn(rows[n].root)'
  PROVE  RowShape(n)' /\ RowKept(n)'
<1>1. PICK m : m = rows[n].root
  OBVIOUS
<1>2. /\ RowShape(n) /\ RowKept(n) /\ n <= made /\ n # None /\ n \in Id
      /\ m \in Ids /\ RowShape(m) /\ m <= made /\ made \in Nat /\ Ids \subseteq Id
      /\ rows[n].parent \in Ids \cup {None} /\ None \notin Ids
  BY <1>1, ReaderFacts
<1>3. RowStays(n) /\ rows'[n].root = m
  BY <1>1, <1>2 DEF Orderly, RowStays
<1>4. m \in Ids' /\ RowStays(m)
  <2>1. m \in Ids'
    BY <1>3 DEF RootsExist
  <2> QED BY <1>2, <2>1 DEF Orderly
<1>5. RowShape(n)'
  <2>1. rows'[n].root <= n /\ rows'[m].root = m
    BY <1>1, <1>2, <1>3, <1>4 DEF RowShape, RowStays
  <2>2. ASSUME rows'[n].parent # None PROVE rows'[n].parent < n /\ rows'[rows'[n].parent].root = m
    <3> DEFINE p == rows[n].parent
    <3>1. rows'[n].parent = p /\ p # None /\ p \in Ids /\ p <= made
      BY <1>2, <1>3, <2>2, ReaderFacts DEF RowStays
    <3>2. p \in Ids'
      <4>1. Names(rows'[n]) \subseteq Ids' \cup {None}
        BY DEF TypeOK
      <4> QED BY <2>2, <3>1, <4>1 DEF Names
    <3>3. rows'[p].root = rows[p].root
      BY <3>1, <3>2 DEF Orderly, RowStays
    <3> QED BY <1>1, <1>2, <3>1, <3>3 DEF RowShape
  <2> QED BY <1>3, <2>1, <2>2 DEF RowShape
<1>6. ASSUME Whole(m)'
      PROVE  /\ m = n => rows'[n].parent = None /\ rows'[n].role # "assistant"
             /\ m # n /\ rows'[n].parent = None => Torn(m)'
             /\ rows'[n].final => Answered(m)'
             /\ m = n /\ rows'[n].role = "user" /\ ~rows'[n].final =>
                  "cut" \in slips'[n] \/ (\E q \in Streams : Asks(q, n)' \/ Unturned(q, n)')
  <2>1. Whole(m) /\ m \notin Deleting'
    BY <1>6 DEF Whole, Orderly
  <2>2. rows'[n].role = rows[n].role /\ rows'[n].parent \in {rows[n].parent, None}
    BY <1>3 DEF RowStays
  <2>3. \A q \in Streams : Keeps(q, m)
    BY <1>2, <2>1 DEF PromisesKept
  <2>4. ASSUME m = n PROVE rows'[n].parent = None /\ rows'[n].role # "assistant"
    BY <1>1, <1>2, <2>1, <2>2, <2>4 DEF RowKept
  <2>5. ASSUME m # n, rows'[n].parent = None PROVE Torn(m)'
    <3>1. CASE rows[n].parent # None
      <4>1. Torn(rows[n].root)'
        BY <1>1, <2>1, <2>5, <3>1
      <4>2. (rows[n].root)' = m
        BY <1>3
      <4> QED BY <4>1, <4>2
    <3>2. CASE rows[n].parent = None
      <4>1. Torn(m) /\ m \in Id
        BY <1>1, <1>2, <2>1, <2>5, <3>2 DEF RowKept
      <4> QED BY <1>2, <1>4, <2>3, <4>1, TornStays
    <3> QED BY <3>1, <3>2
  <2>6. ASSUME rows'[n].final PROVE Answered(m)'
    <3>1. CASE rows[n].final
      <4>1. Answered(m)
        BY <1>1, <1>2, <2>1, <3>1 DEF RowKept
      <4>2. CASE "error" \in slips[m]
        <5>1. m \in Id
          BY <1>2
        <5> QED BY <4>2, <5>1 DEF Answered, Orderly, SlipsGrow
      <4>3. ASSUME NEW k \in Thread(m), rows[k].role = "assistant", rows[k].final PROVE Answered(m)'
        <5>1. k \in Ids /\ rows[k].root = m /\ k <= made
          BY ReaderFacts DEF Thread
        <5>2. k \in Ids' /\ RowStays(k)
          BY <2>1, <5>1 DEF Orderly
        <5>3. k \in Thread(m)' /\ rows'[k].role = "assistant" /\ rows'[k].final
          BY <4>3, <5>1, <5>2 DEF Thread, RowStays
        <5> QED BY <5>3 DEF Answered
      <4> QED BY <4>1, <4>2, <4>3 DEF Answered
    <3>2. CASE ~rows[n].final
      <4>1. Answered(rows[n].root)'
        BY <1>1, <2>1, <2>6, <3>2
      <4>2. (rows[n].root)' = m
        BY <1>3
      <4> QED BY <4>1, <4>2
    <3> QED BY <3>1, <3>2
  <2>7. ASSUME m = n, rows'[n].role = "user", ~rows'[n].final
        PROVE  "cut" \in slips'[n] \/ (\E q \in Streams : Asks(q, n)' \/ Unturned(q, n)')
    <3>1. "cut" \in slips[n] \/ \E q \in Streams : Asks(q, n) \/ Unturned(q, n)
      BY <1>1, <1>2, <1>3, <2>1, <2>2, <2>7 DEF RowKept, RowStays
    <3>2. CASE "cut" \in slips[n]
      BY <1>2, <3>2 DEF Orderly, SlipsGrow
    <3>3. CASE \E q \in Streams : Asks(q, n) \/ Unturned(q, n)
      BY <2>3, <2>7, <3>3 DEF Keeps
    <3> QED BY <3>1, <3>2, <3>3
  <2> QED BY <2>4, <2>5, <2>6, <2>7
<1>7. RowKept(n)'
  BY <1>3, <1>6 DEF RowKept
<1> QED BY <1>5, <1>7

\* Replies stay apart: a stream keeps its own, lets it go, or makes a new one.
LEMMA RepliesApart ==
  ASSUME MaintenanceInv, ReadersInv, NEW s \in Streams, OtherStreams(s),
         \/ Runs(s)' => Runs(s) /\ stream'[s].reply = stream[s].reply
         \/ stream'[s].reply \in {None, made + 1},
         \A c \in completions' : c \in completions \/ (Runs(s) /\ c = stream[s].reply /\ c # None),
         ReplyIsNew(s)'
  PROVE  \A q \in Streams : ReplyIsOwn(q)' /\ ReplyIsNew(q)'
<1>1. /\ \A q \in Streams : ReplyIsOwn(q) /\ ReplyIsNew(q) /\ StreamKnows(q)
      /\ \A q \in Streams : RowsOfStream(q) \subseteq Nat /\ stream[q].reply \in RowsOfStream(q)
      /\ made \in Nat
  BY ReaderFacts DEF ReadersInv, RowsOfStream
<1>2. ASSUME NEW q \in Streams \ {s}
      PROVE  /\ stream'[q] = stream[q] /\ (Runs(q)' <=> Runs(q))
             /\ Runs(q) => stream[q].reply # made + 1
  <2>1. stream'[q] = stream[q]
    BY DEF OtherStreams
  <2>2. Runs(q)' <=> Runs(q)
    BY <2>1 DEF Runs
  <2>3. Runs(q) => stream[q].reply <= made /\ stream[q].reply \in Nat
    BY <1>1 DEF StreamKnows
  <2>4. \A x \in Nat : x <= made => x # made + 1
    BY <1>1
  <2> QED BY <2>1, <2>2, <2>3, <2>4
<1>3. ASSUME NEW q \in Streams \ {s}, Runs(q)', Runs(s)', stream'[s].reply # None
      PROVE  stream'[q].reply # stream'[s].reply
  <2>1. CASE Runs(s) /\ stream'[s].reply = stream[s].reply
    BY <1>1, <1>2, <1>3, <2>1 DEF ReplyIsOwn
  <2>2. CASE stream'[s].reply = made + 1
    BY <1>2, <1>3, <2>2
  <2> QED BY <1>3, <2>1, <2>2
<1>4. ASSUME NEW q \in Streams \ {s} PROVE ReplyIsNew(q)'
  <2>1. ReplyIsNew(q)' <=> (stream[q].pc \in {"replying", "shown"} \/ (stream[q].pc = "generated" /\ stream[q].client = Guest)
                             => stream[q].reply \notin completions')
    BY <1>2 DEF ReplyIsNew
  <2>2. ASSUME stream[q].pc \in {"replying", "shown", "generated"}, Runs(s), stream[s].reply # None
        PROVE  stream[q].reply # stream[s].reply
    BY <1>1, <2>2 DEF ReplyIsOwn, Runs, Stopped
  <2> QED BY <1>1, <2>1, <2>2 DEF ReplyIsNew
<1>5. ASSUME NEW q \in Streams PROVE ReplyIsOwn(q)'
  <2> SUFFICES ASSUME Runs(q)', stream'[q].reply # None, NEW p \in Streams \ {q}, Runs(p)'
               PROVE  stream'[p].reply # stream'[q].reply
    BY DEF ReplyIsOwn
  <2>1. CASE q = s
    BY <1>3, <2>1
  <2>2. CASE p = s
    BY <1>3, <2>2
  <2>3. CASE q # s /\ p # s
    BY <1>1, <1>2, <2>3 DEF ReplyIsOwn
  <2> QED BY <2>1, <2>2, <2>3
<1> QED BY <1>4, <1>5

\* What excuses a completion is not forgotten.
LEMMA ExcuseStays ==
  ASSUME SlipsGrow, Excused
  PROVE  Excused'
BY DEF SlipsGrow, Excused

\* A stream that meets nothing has its rows: its thread is whole.
LEMMA CalmIsWhole ==
  ASSUME MaintenanceInv, ReadersInv, ~Excused, NEW s \in Streams, Runs(s)
  PROVE  Whole(stream[s].root) /\ WholeFits(s)
<1>1. StreamKnows(s) /\ Deleting \subseteq Id
  BY ReaderFacts DEF ReadersInv
<1>2. Whole(stream[s].root)
  BY <1>1 DEF StreamKnows, Whole, Excused
<1> QED BY <1>1, <1>2 DEF StreamKnows

\* A step of a stream keeps the account of completions but for those that it makes.
LEMMA LedgerStays ==
  ASSUME ReadersInv, SlipsGrow, NEW s \in Streams, OtherStreams(s), UNCHANGED deletion,
         Ids \subseteq Ids',
         \A n \in completions' : n \in completions \/ Excused' \/ Accounted(n)',
         \A n \in Ids \cap completions : rows[n].completion => rows'[n].completion \/ Excused',
         \A n \in Ids \cap completions :
           stream[s].pc = "generated" /\ stream[s].reply = n => Excused' \/ Accounted(n)'
  PROVE  Ledger'
<1> SUFFICES ASSUME ~Excused', NEW n \in completions' PROVE Accounted(n)'
  BY DEF Ledger
<1>1. CASE n \in completions
  <2>1. Accounted(n)
    BY <1>1, ExcuseStays DEF ReadersInv, Ledger
  <2>2. CASE n \in Ids /\ rows[n].completion
    BY <1>1, <2>2 DEF Accounted
  <2>3. CASE \E d \in Deletions : deletion[d].pc = "deleting" /\ n \in deletion[d].known
    BY <2>3 DEF Accounted
  <2>4. ASSUME NEW q \in Streams, n \in Ids, stream[q].pc = "generated", stream[q].reply = n
        PROVE  Accounted(n)'
    <3>1. CASE q = s
      BY <1>1, <2>4, <3>1
    <3>2. CASE q # s
      <4>1. stream'[q] = stream[q]
        BY <3>2 DEF OtherStreams
      <4> QED BY <2>4, <4>1 DEF Accounted
    <3> QED BY <3>1, <3>2
  <2> QED BY <2>1, <2>2, <2>3, <2>4 DEF Accounted
<1> QED BY <1>1

\* A deletion that does not move knows what it knew, and all that has a completion.
LEMMA DeletionsKnow ==
  ASSUME MaintenanceInv, ReadersInv, Orderly, NEW d \in Deletions, deletion'[d] = deletion[d],
         \A n \in Ids' : rows'[n].completion =>
           Excused' \/ (n \in Ids /\ rows[n].completion) \/ Whole(rows'[n].root)
  PROVE  DeletionKnows(d)'
<1>1. PICK m : m = deletion[d].thread
  OBVIOUS
<1>2. DeletionKnows(d) /\ TypeOK /\ (deletion[d].pc # "idle" => m \in Deleting)
  BY <1>1 DEF ReadersInv, MaintenanceInv, Deleting
<1>3. ASSUME deletion[d].pc = "deleting", NEW n \in deletion[d].todo \cup deletion[d].known
      PROVE  n <= made' /\ (n \in Ids' => rows'[n].root = m)
  <2>1. n <= made /\ (n \in Ids => rows[n].root = m)
    BY <1>1, <1>2, <1>3 DEF DeletionKnows
  <2>2. n \in Nat /\ made \in Nat /\ made' \in Nat /\ made <= made'
    <3>1. n \in Id
      BY <1>2, <1>3 DEF TypeOK, DeletionType
    <3> QED BY <3>1, ReaderFacts DEF Orderly
  <2>3. n <= made'
    BY <2>1, <2>2
  <2>4. n \in Ids' => RowStays(n)
    BY <2>1 DEF Orderly
  <2> QED BY <2>1, <2>3, <2>4 DEF RowStays
<1>4. ASSUME deletion[d].pc = "deleting", ~Excused', NEW n \in Thread(m)', rows'[n].completion
      PROVE  n \in deletion[d].known
  <2>1. n \in Ids' /\ rows'[n].root = m
    BY <1>4 DEF Thread
  <2>2. ~Whole(m)
    BY <1>2, <1>4 DEF Whole
  <2>3. n \in Ids /\ rows[n].completion
    BY <1>4, <2>1, <2>2 DEF Whole
  <2>4. n \in Thread(m)
    <3>1. n <= made
      BY <2>3, ReaderFacts
    <3> QED BY <2>1, <2>3, <3>1 DEF Orderly, RowStays, Thread
  <2>5. ~Excused
    BY <1>4, ExcuseStays DEF Orderly
  <2> QED BY <1>1, <1>2, <1>4, <2>3, <2>4, <2>5 DEF DeletionKnows
<1> QED BY <1>1, <1>2, <1>3, <1>4 DEF DeletionKnows

-----------------------------------------------------------------------------
\* A set of numbers has a least one.
LEMMA Least ==
  ASSUME NEW T \in SUBSET Nat, T # {}
  PROVE  \E x \in T : \A y \in T : ~(y < x)
<1>1. PICK x \in T : \A y \in T : ~(<<y, x>> \in OpToRel(<, Nat))
  BY NatLessThanWellFounded, WFMin
<1>2. \A y \in T : ~(y < x)
  BY <1>1 DEF OpToRel
<1> QED BY <1>2

\* The climb stays in the thread, and a top that it finds has no parent as long as
\* the thread is whole.
LEMMA ClimbStays ==
  ASSUME MaintenanceInv, ReadersInv, NEW s \in Streams, stream[s].pc = "validated",
         stream[s].parent \in Ids
  PROVE  /\ stream[s].parent \in Climb(s) /\ Climb(s) \subseteq Thread(stream[s].root)
         /\ TopOf(s) # None => /\ TopOf(s) \in Thread(stream[s].root)
                               /\ Whole(stream[s].root) => rows[TopOf(s)].parent = None
<1>1. PICK m : m = stream[s].root
  OBVIOUS
<1>2. /\ stream[s].parent \in Thread(m)
      /\ Whole(m) /\ stream[s].up = None => rows[stream[s].parent].parent = None
  <2>1. Runs(s) /\ stream[s].parent \in RowsOfStream(s) /\ stream[s].parent # None
    BY ReaderFacts DEF Runs, Stopped, RowsOfStream
  <2> QED BY <1>1, <2>1 DEF ReadersInv, StreamKnows, WholeFits, Thread
<1>3. Thread(m) \subseteq Ids
  BY DEF Thread
<1>4. stream[s].parent \in Climb(s) /\ Climb(s) \subseteq Thread(m)
  <2>1. /\ Thread(m) \in SUBSET Ids /\ stream[s].parent \in Thread(m)
        /\ \A c \in Thread(m) : Above(s, c) \in {k \in Thread(m) : Readable(k)}
                                  => Above(s, c) \in Thread(m)
    BY <1>2, <1>3
  <2> QED BY <1>1, <2>1 DEF Climb
<1>5. ASSUME TopOf(s) # None
      PROVE  TopOf(s) \in Thread(m) /\ (Whole(m) => rows[TopOf(s)].parent = None)
  <2>1. TopOf(s) \in {n \in Climb(s) : Above(s, n) = None}
    BY <1>5 DEF TopOf
  <2>2. PICK n : n = TopOf(s) /\ n \in Thread(m) /\ Above(s, n) = None
    BY <1>4, <2>1
  <2>3. ASSUME Whole(m) PROVE rows[n].parent = None
    BY <1>2, <2>2, <2>3 DEF Above
  <2> QED BY <2>2, <2>3
<1> QED BY <1>1, <1>4, <1>5

\* The climb comes to a row without a parent if nothing has been taken from the
\* thread, and nothing in it has expired: each row is older than the one below.
LEMMA ClimbArrives ==
  ASSUME MaintenanceInv, ReadersInv, NEW s \in Streams, stream[s].pc = "validated",
         stream[s].parent \in Ids, Unseen(stream[s].root)
  PROVE  TopOf(s) # None
<1>1. PICK m : m = stream[s].root
  OBVIOUS
<1>2. /\ Runs(s) /\ stream[s].parent \in RowsOfStream(s) /\ stream[s].parent # None
      /\ None \notin Ids /\ Ids \subseteq Nat
  BY ReaderFacts DEF Runs, Stopped, RowsOfStream
<1>3. /\ Whole(m) /\ WholeFits(s)
      /\ \A n \in Thread(m) : ~Expired(n)
  BY <1>1, <1>2 DEF ReadersInv, StreamKnows, Unseen
<1>4. PICK at : at = {k \in Thread(m) : Readable(k)}
  OBVIOUS
<1>5. PICK climb : climb = Climb(s)
  OBVIOUS
<1>6. stream[s].parent \in climb /\ climb \subseteq Thread(m) /\ climb \subseteq Ids
  BY <1>1, <1>5, ClimbStays DEF Thread
<1>7. climb \in SUBSET Nat /\ climb # {}
  BY <1>2, <1>6
<1>8. PICK n \in climb : \A k \in climb : ~(k < n)
  BY <1>7, Least
<1>9. n \in Ids /\ rows[n].root = m /\ RowShape(n)
  BY <1>6, ReaderFacts DEF Thread
<1>10. ASSUME Above(s, n) # None PROVE FALSE
  <2>1. PICK p : p = Above(s, n)
    OBVIOUS
  <2>2. p < n /\ p \in Thread(m)
    <3>1. CASE n = stream[s].parent
      BY <1>1, <1>2, <1>3, <1>10, <2>1, <3>1 DEF Above, WholeFits, Thread
    <3>2. CASE n # stream[s].parent
      BY <1>9, <1>10, <2>1, <3>2, ReaderFacts DEF Above, RowShape, Thread
    <3> QED BY <3>1, <3>2
  <2>3. p \in at /\ p \in Ids
    BY <1>3, <1>4, <2>2 DEF Readable, Thread
  <2>4. ASSUME NEW set \in SUBSET Ids, stream[s].parent \in set,
               \A c \in set : Above(s, c) \in at => Above(s, c) \in set
        PROVE  p \in set
    <3>1. n \in set
      BY <1>1, <1>4, <1>5, <2>4 DEF Climb
    <3> QED BY <2>1, <2>3, <2>4, <3>1
  <2>5. p \in climb
    BY <1>1, <1>4, <1>5, <2>3, <2>4 DEF Climb
  <2> QED BY <1>8, <2>2, <2>5
<1>11. n \in {k \in Climb(s) : Above(s, k) = None}
  BY <1>5, <1>10
<1>12. TopOf(s) \in {k \in Climb(s) : Above(s, k) = None}
  BY <1>11 DEF TopOf
<1> QED BY <1>2, <1>5, <1>6, <1>12

-----------------------------------------------------------------------------
\* A step that leaves the table, the deletions and the time alone.
LEMMA QuietIsOrderly ==
  ASSUME MaintenanceInv, ReadersInv, UNCHANGED <<rows, made, clock, deletion>>, SlipsGrow
  PROVE  /\ Orderly /\ clock' <= made'
         /\ \A d \in Deletions : DeletionKnows(d)'
<1>1. /\ Ids' = Ids /\ Deleting' = Deleting /\ made \in Nat /\ Ids \subseteq 1..made
      /\ \A n : Expired(n)' <=> Expired(n)
  BY ReaderFacts DEF Ids, Deleting, Expired
<1>2. \A n \in Ids : n \in Ids' /\ rows'[n] = rows[n]
  BY <1>1
<1>3. Orderly
  BY <1>1, <1>2 DEF Orderly, RowStays
<1>4. clock' <= made'
  BY <1>1 DEF ReadersInv
<1>5. ASSUME NEW d \in Deletions PROVE DeletionKnows(d)'
  BY <1>1, <1>2, <1>3, DeletionsKnow
<1> QED BY <1>3, <1>4, <1>5

LEMMA QuietReads ==
  ASSUME MaintenanceInv, ReadersInv, MaintenanceInv', NEW s \in Streams, OtherStreams(s),
         UNCHANGED <<rows, made, clock, deletion>>, SlipsGrow,
         StreamKnows(s)', EndFits(s)', ReplyIsNew(s)', Ledger',
         \/ Runs(s)' => Runs(s) /\ stream'[s].reply = stream[s].reply
         \/ stream'[s].reply = None,
         \A c \in completions' : c \in completions \/ (Runs(s) /\ c = stream[s].reply /\ c # None),
         \A m \in Ids : Whole(m) => Keeps(s, m)
  PROVE  ReadersInv'
<1>1. /\ Orderly /\ clock' <= made' /\ Ids' = Ids
      /\ \A d \in Deletions : DeletionKnows(d)'
  BY QuietIsOrderly DEF Ids
<1>2. \A q \in Streams : ReplyIsOwn(q)' /\ ReplyIsNew(q)'
  BY RepliesApart
<1>3. PromisesKept
  <2> SUFFICES ASSUME NEW m \in Ids, Whole(m), NEW q \in Streams PROVE Keeps(q, m)
    BY DEF PromisesKept
  <2>1. CASE q = s
    BY <2>1
  <2>2. CASE q # s
    BY <2>2, OthersKeep DEF OtherStreams
  <2> QED BY <2>1, <2>2
<1>4. \A q \in Streams : StreamKnows(q)' /\ EndFits(q)'
  BY <1>1, <1>3, OthersKnow DEF OtherStreams
<1>5. ASSUME NEW n \in Ids' PROVE RowShape(n)' /\ RowKept(n)'
  <2>1. TypeOK' /\ RootsExist' /\ n \in Ids' \cap Ids /\ rows'[n] = rows[n]
    BY <1>1 DEF MaintenanceInv
  <2> QED BY <1>1, <1>3, <2>1, OldRowsKeep
<1> QED BY <1>1, <1>2, <1>4, <1>5 DEF ReadersInv

\* A stream that is not yet asked has promised nothing.
LEMMA NoPromptYet ==
  ASSUME MaintenanceInv, ReadersInv, NEW s \in Streams,
         stream[s].pc \in {"idle", "validated", "opened", "chained"}
  PROVE  \A n \in Ids : Keeps(s, n)
<1>1. \A n \in Ids : ~Asks(s, n) /\ ~Unturned(s, n) /\ ~Closes(s, n)
  BY ReaderFacts
     DEF ReadersInv, StreamKnows, PlaceFits, Asks, Unturned, Closes, Runs, Stopped
<1> QED BY <1>1 DEF Keeps

\* The request is accepted: its thread is the caller's and has not expired.
LEMMA ValidateReads ==
  ASSUME MaintenanceInv, ReadersInv, MaintenanceInv', NEW s \in Streams, Validate(s)
  PROVE  ReadersInv'
<1>1. /\ TypeOK /\ UNCHANGED <<rows, made, completions, clock, deletion>>
      /\ stream[s].pc = "idle"
  BY DEF MaintenanceInv, Validate, tableVars
<1>2. PICK who \in Client, p \in {None} \cup Ids :
        /\ p # None => Postable(who, p)
        /\ stream' = [stream EXCEPT ![s] =
             [NoStream EXCEPT !.pc = "validated", !.client = who, !.parent = p,
                !.up = IF p = None THEN None ELSE rows[p].parent,
                !.root = IF p = None THEN None ELSE rows[p].root]]
        /\ Slip(IF p = None THEN {} ELSE {rows[p].root} \cap Deleting, "raced")
  BY DEF Validate
<1>3. PICK up : up = IF p = None THEN None ELSE rows[p].parent
  OBVIOUS
<1>4. PICK root : root = IF p = None THEN None ELSE rows[p].root
  OBVIOUS
<1> DEFINE new == [NoStream EXCEPT !.pc = "validated", !.client = who, !.parent = p,
                     !.up = up, !.root = root]
<1>5. /\ new.pc = "validated" /\ new.parent = p /\ new.up = up /\ new.root = root
      /\ new.user = None /\ new.reply = None /\ new.top = None
      /\ new.chain = {} /\ new.drops = {}
  BY DEF NoStream
<1>6. stream' = [stream EXCEPT ![s] = new]
  BY <1>2, <1>3, <1>4
<1> HIDE DEF new
<1>7. stream'[s] = new /\ OtherStreams(s)
  BY <1>6, ReaderFacts DEF OtherStreams
<1>8. /\ SlipsGrow
      /\ \A m \in Id \cap (IF p = None THEN {} ELSE {rows[p].root} \cap Deleting) :
           "raced" \in slips'[m]
  BY <1>1, <1>2, Slipping DEF Happenings
<1>9. /\ Ids' = Ids /\ Deleting' = Deleting /\ made' = made
      /\ \A n : Expired(n)' <=> Expired(n)
  BY <1>1 DEF Ids, Deleting, Expired
<1>10. /\ made \in Nat /\ 0 <= made /\ None \notin Ids /\ None \notin Deleting /\ Deleting \subseteq Id
       /\ \A n \in Ids : n <= made /\ n # None /\ n \in Id
  BY ReaderFacts DEF None
<1>11. p # None => /\ p \in Ids /\ root = rows[p].root /\ up = rows[p].parent
                   /\ root \in Ids /\ rows[root].root = root /\ up \in Ids \cup {None}
                   /\ up # None => up < p /\ rows[up].root = root
                   /\ ~Expired(root)
  BY <1>2, <1>3, <1>4, ReaderFacts DEF RowShape, Postable, Readable
<1>12. p = None <=> root = None
  BY <1>4, <1>10, <1>11
<1>13. RowsOfStream(s)' = {root, p, None}
  BY <1>5, <1>7 DEF RowsOfStream
<1>14. PlaceFits(s)'
  BY <1>5, <1>7, <1>12 DEF PlaceFits
<1>15. \A x \in RowsOfStream(s)' : x <= made' /\ (x \in Ids' => rows'[x].root = root)
  BY <1>1, <1>4, <1>9, <1>10, <1>11, <1>12, <1>13 DEF None
<1>16. WholeFits(s)'
  BY <1>1, <1>5, <1>7, <1>9, <1>11, <1>12, <1>13 DEF WholeFits
<1>17. ~Whole(root)' => "raced" \in slips'[root]
  <2> SUFFICES ASSUME root \in Deleting PROVE "raced" \in slips'[root]
    BY <1>9 DEF Whole
  <2>1. p # None /\ root = rows[p].root /\ root \in Id
    BY <1>10, <1>11, <1>12
  <2> QED BY <1>8, <2>1
<1>18. ASSUME p # None, Unseen(root)', NEW n \in Thread(root)' PROVE ~Expired(n)'
  <2>1. n \in Ids /\ rows[n].root = root /\ root \in Ids
    BY <1>1, <1>9, <1>11, <1>18 DEF Thread
  <2>2. "moved" \notin slips[root]
    BY <1>8, <1>10, <1>18, <2>1 DEF Unseen, SlipsGrow
  <2>3. rows[n].creator = rows[root].creator
    BY <2>1, <2>2 DEF MaintenanceInv, ThreadsHaveOneOwner
  <2>4. root <= n /\ root \in Nat /\ n \in Nat /\ clock \in Nat
    BY <1>1, <2>1, ReaderFacts DEF RowShape, TypeOK
  <2>5. ~Expired(root)
    BY <1>11, <1>18
  <2>6. ASSUME Expired(n) PROVE FALSE
    <3>1. n <= clock /\ rows[n].creator = Guest
      BY <2>6 DEF Expired
    <3>2. root <= clock
      BY <2>4, <3>1
    <3> QED BY <2>3, <2>5, <3>1, <3>2 DEF Expired
  <2> QED BY <1>9, <2>6
<1>19. StreamKnows(s)'
  BY <1>5, <1>7, <1>14, <1>15, <1>16, <1>17, <1>18 DEF StreamKnows
<1>20. EndFits(s)' /\ ReplyIsNew(s)'
  BY <1>5, <1>7 DEF EndFits, ReplyIsNew
<1>21. Ledger'
  BY <1>1, <1>7, <1>8, <1>9, LedgerStays
<1>22. \A n \in Ids : Keeps(s, n)
  BY <1>1, NoPromptYet
<1> QED BY <1>1, <1>5, <1>7, <1>8, <1>19, <1>20, <1>21, <1>22, QuietReads

\* A stream that has stopped knows nothing more.
LEMMA StoppedKnows ==
  ASSUME NEW s \in Streams, stream'[s].pc \in Stopped
  PROVE  StreamKnows(s)' /\ ReplyIsNew(s)' /\ ~Runs(s)'
BY DEF StreamKnows, ReplyIsNew, Runs, Stopped

\* The thread is read: a parent that is gone, an ancestor that is not found, or all.
LEMMA ReadThreadReads ==
  ASSUME MaintenanceInv, ReadersInv, MaintenanceInv', NEW s \in Streams, ReadThread(s)
  PROVE  ReadersInv'
<1>1. /\ TypeOK /\ UNCHANGED <<rows, made, completions, clock, deletion, slips>>
      /\ stream[s].pc = "validated" /\ stream[s].parent # None /\ Runs(s)
      /\ StreamKnows(s) /\ PlaceFits(s)
  BY DEF MaintenanceInv, ReadersInv, ReadThread, tableVars, Runs, Stopped, StreamKnows
<1>2. /\ Ids' = Ids /\ Deleting' = Deleting /\ SlipsGrow
      /\ \A n \in Ids : Keeps(s, n)
  BY <1>1, NoPromptYet DEF Ids, Deleting, SlipsGrow
<1>3. ASSUME OtherStreams(s) PROVE Ledger'
  BY <1>1, <1>2, <1>3, LedgerStays
<1>4. CASE ~Readable(stream[s].parent)
  <2>1. End(s, "failed")
    BY <1>4 DEF ReadThread
  <2>2. OtherStreams(s) /\ stream'[s].pc = "failed"
    BY <1>1, <2>1, Ending DEF Stopped
  <2>3. EndFits(s)'
    BY <2>2 DEF EndFits
  <2>4. StreamKnows(s)' /\ ReplyIsNew(s)' /\ ~Runs(s)'
    BY <2>2, StoppedKnows DEF Stopped
  <2> QED BY <1>1, <1>2, <1>3, <2>2, <2>3, <2>4, QuietReads
<1>5. CASE Readable(stream[s].parent) /\ TopOf(s) = None
  <2>1. End(s, "lost")
    BY <1>5 DEF ReadThread
  <2>2. OtherStreams(s) /\ stream'[s].pc = "lost" /\ stream'[s].root = stream[s].root
    BY <1>1, <2>1, Ending DEF Stopped
  <2>3. ~Unseen(stream[s].root)
    BY <1>1, <1>5, ClimbArrives DEF Readable
  <2>4. stream[s].root # None
    BY <1>1 DEF PlaceFits
  <2>5. EndFits(s)'
    BY <1>1, <2>2, <2>3, <2>4 DEF EndFits, Unseen
  <2>6. StreamKnows(s)' /\ ReplyIsNew(s)' /\ ~Runs(s)'
    BY <2>2, StoppedKnows DEF Stopped
  <2> QED BY <1>1, <1>2, <1>3, <2>2, <2>5, <2>6, QuietReads
<1>6. CASE Readable(stream[s].parent) /\ TopOf(s) # None
  <2>1. PICK m : m = stream[s].root
    OBVIOUS
  <2>2. PICK top : top = TopOf(s)
    OBVIOUS
  <2>3. PICK climb : climb = Climb(s)
    OBVIOUS
  <2>4. stream' = [stream EXCEPT ![s].top = top, ![s].chain = climb, ![s].pc = "chained"]
    BY <1>6, <2>2, <2>3 DEF ReadThread
  <2>5. /\ OtherStreams(s) /\ stream'[s].pc = "chained" /\ stream'[s].top = top
        /\ stream'[s].root = m /\ stream'[s].parent = stream[s].parent
        /\ stream'[s].user = stream[s].user /\ stream'[s].reply = stream[s].reply
        /\ stream'[s].chain = climb /\ stream'[s].drops = stream[s].drops
    BY <2>1, <2>4, ReaderFacts DEF OtherStreams, StreamType
  <2>6. stream[s].parent \in Ids
    BY <1>6 DEF Readable
  <2>7. /\ top \in Ids /\ top <= made /\ rows[top].root = m
        /\ climb \subseteq Ids /\ \A x \in climb : x <= made /\ rows[x].root = m
        /\ Whole(m) => rows[top].parent = None
    BY <1>1, <1>6, <2>1, <2>2, <2>3, <2>6, ClimbStays, ReaderFacts DEF Thread
  <2>8. PlaceFits(s)' /\ stream[s].drops = {}
    BY <1>1, <2>1, <2>5, <2>7, ReaderFacts DEF PlaceFits
  <2>9. RowsOfStream(s)' \subseteq RowsOfStream(s) \cup climb \cup {top}
    BY <2>1, <2>5 DEF RowsOfStream
  <2>10. \A x \in RowsOfStream(s)' : x <= made /\ (x \in Ids => rows[x].root = m)
    BY <1>1, <2>1, <2>7, <2>9 DEF StreamKnows
  <2>11. Whole(m) => WholeFits(s)'
    <3> SUFFICES ASSUME Whole(m) PROVE WholeFits(s)'
      OBVIOUS
    <3>1. WholeFits(s) /\ RowsOfStream(s)' \subseteq Ids \cup {None}
      BY <1>1, <2>1, <2>7, <2>9 DEF StreamKnows, WholeFits
    <3> QED BY <1>1, <1>2, <2>1, <2>5, <2>7, <2>8, <3>1 DEF WholeFits, PlaceFits
  <2>12. ~Whole(m) => "raced" \in slips[m]
    BY <1>1, <2>1 DEF StreamKnows
  <2>13. Whole(m)' <=> Whole(m)
    BY <1>2 DEF Whole
  <2>14. StreamKnows(s)'
    BY <1>1, <1>2, <2>5, <2>8, <2>10, <2>12, <2>13, <2>11 DEF StreamKnows
  <2>15. EndFits(s)' /\ ReplyIsNew(s)'
    BY <2>5 DEF EndFits, ReplyIsNew
  <2> QED BY <1>1, <1>2, <1>3, <2>5, <2>14, <2>15, QuietReads
<1> QED BY <1>4, <1>5, <1>6

\* A new thread without a system message, and one whose tools have one name.
LEMMA OpeningReads ==
  ASSUME MaintenanceInv, ReadersInv, MaintenanceInv', NEW s \in Streams,
         StartThread(s) \/ ToolsConflict(s)
  PROVE  ReadersInv'
<1>1. /\ TypeOK /\ UNCHANGED <<rows, made, completions, clock, deletion, slips>>
      /\ stream[s].pc \in {"validated", "opened"} /\ Runs(s)
      /\ StreamKnows(s) /\ PlaceFits(s)
  BY DEF MaintenanceInv, ReadersInv, StartThread, ToolsConflict, tableVars, Runs, Stopped, StreamKnows
<1>2. /\ Ids' = Ids /\ Deleting' = Deleting /\ SlipsGrow
      /\ \A n \in Ids : Keeps(s, n)
  BY <1>1, NoPromptYet DEF Ids, Deleting, SlipsGrow
<1>3. ASSUME OtherStreams(s) PROVE Ledger'
  BY <1>1, <1>2, <1>3, LedgerStays
<1>4. CASE ToolsConflict(s)
  <2>1. End(s, "failed")
    BY <1>4 DEF ToolsConflict
  <2>2. OtherStreams(s) /\ stream'[s].pc = "failed"
    BY <1>1, <2>1, Ending DEF Stopped
  <2>3. EndFits(s)'
    BY <2>2 DEF EndFits
  <2>4. StreamKnows(s)' /\ ReplyIsNew(s)' /\ ~Runs(s)'
    BY <2>2, StoppedKnows DEF Stopped
  <2> QED BY <1>1, <1>2, <1>3, <2>2, <2>3, <2>4, QuietReads
<1>5. CASE StartThread(s)
  <2>1. Go(s, "opened") /\ stream[s].pc = "validated" /\ stream[s].parent = None
    BY <1>5 DEF StartThread
  <2>2. /\ OtherStreams(s) /\ stream'[s] = [stream[s] EXCEPT !.pc = "opened"]
    BY <1>1, <2>1, Going DEF StreamPC
  <2>3. /\ stream'[s].pc = "opened" /\ stream'[s].root = None /\ stream'[s].parent = None
        /\ stream'[s].user = None /\ stream'[s].reply = None /\ stream'[s].top = None
        /\ stream'[s].chain = stream[s].chain /\ stream'[s].drops = {}
    BY <1>1, <2>1, <2>2, ReaderFacts DEF PlaceFits, StreamType
  <2>4. PlaceFits(s)'
    BY <2>3 DEF PlaceFits
  <2>5. RowsOfStream(s)' \subseteq RowsOfStream(s) /\ stream[s].root = None
    BY <1>1, <2>1, <2>3 DEF RowsOfStream, PlaceFits
  <2>6. Whole(None) /\ Whole(None)'
    BY <1>2, ReaderFacts DEF Whole
  <2>7. WholeFits(s)'
    BY <1>1, <1>2, <2>3, <2>5, <2>6 DEF StreamKnows, WholeFits
  <2>8. StreamKnows(s)'
    BY <1>1, <1>2, <2>3, <2>4, <2>5, <2>6, <2>7 DEF StreamKnows
  <2>9. EndFits(s)' /\ ReplyIsNew(s)'
    BY <2>3 DEF EndFits, ReplyIsNew
  <2>10. stream'[s].reply = None
    BY <2>3
  <2> QED BY <1>1, <1>2, <1>3, <2>2, <2>8, <2>9, <2>10, QuietReads
<1> QED BY <1>4, <1>5

\* A stream that goes on, with the rows it has or more of its thread, knows what it
\* knew; the branches it is about to tear off are not the root.
LEMMA GoingOnKnows ==
  ASSUME MaintenanceInv, ReadersInv, NEW s \in Streams, Runs(s),
         UNCHANGED <<rows, made, clock, deletion>>, SlipsGrow,
         stream[s].pc \notin {"validated", "opened", "chained"},
         stream'[s].pc \in {"shown", "generated", "closing"},
         stream'[s].pc # "closing" => stream[s].pc \in {"replying", "shown"},
         stream'[s].root = stream[s].root, stream'[s].parent = stream[s].parent,
         stream'[s].user = stream[s].user, stream'[s].reply = stream[s].reply,
         stream'[s].top = stream[s].top, stream'[s].chain = stream[s].chain,
         stream'[s].drops \in {stream[s].drops, Siblings(s)},
         stream'[s].pc = "closing" /\ Whole(stream[s].root) => Answered(stream[s].root)'
  PROVE  StreamKnows(s)' /\ EndFits(s)' /\ Runs(s)' /\ \A m \in Ids : Asks(s, m) => Asks(s, m)'
<1>1. PICK m : m = stream[s].root
  OBVIOUS
<1>2. /\ StreamKnows(s) /\ PlaceFits(s) /\ Ids' = Ids /\ Deleting' = Deleting
      /\ m # None /\ m \in Id /\ None \notin Ids
      /\ \A n \in Ids : n <= made /\ RowShape(n) /\ RowKept(n)
  <2>1. stream[s].pc \in {"asked", "replying", "shown", "generated", "closing"}
    BY ReaderFacts DEF StreamType, StreamPC, Runs, Stopped
  <2> QED BY <1>1, <2>1, ReaderFacts DEF ReadersInv, StreamKnows, PlaceFits, Ids, Deleting
<1>3. PlaceFits(s)' /\ Runs(s)'
  <2>1. stream[s].pc \in {"asked", "replying", "shown", "generated", "closing"}
    BY ReaderFacts DEF StreamType, StreamPC, Runs, Stopped
  <2>2. stream'[s].user # None /\ stream'[s].root # None /\ stream'[s].top # None
    BY <1>2, <2>1 DEF PlaceFits
  <2>3. stream'[s].pc \in {"shown", "generated"} => stream'[s].reply # None
    BY <1>2, <2>1 DEF PlaceFits
  <2> QED BY <2>2, <2>3 DEF PlaceFits, Runs, Stopped
<1>4. ASSUME NEW x \in Siblings(s)
      PROVE  /\ x \in Ids /\ x <= made
             /\ x \in RowsOfStream(s) \/ (Whole(m) => rows[x].root = m /\ x # m)
             /\ rows[x].root = m
  <2>1. x \in Ids /\ rows[x].parent \in stream[s].chain /\ x <= made /\ RowShape(x) /\ RowKept(x)
    BY <1>2, <1>4 DEF Siblings
  <2>2. rows[x].parent \in Ids /\ rows[x].parent \in RowsOfStream(s) /\ rows[x].parent # None
    <3>1. rows[x].parent \in RowsOfStream(s)
      BY <2>1 DEF RowsOfStream
    <3>2. rows[x].parent \in Ids \cup {None} /\ stream[s].chain \subseteq Id /\ None \notin Id
      BY <2>1, ReaderFacts DEF StreamType
    <3> QED BY <2>1, <3>1, <3>2
  <2>3. rows[x].root = m
    BY <1>1, <1>2, <2>1, <2>2 DEF StreamKnows, RowShape
  <2>4. Whole(m) => x # m
    BY <2>1, <2>2, <2>3 DEF RowKept
  <2> QED BY <2>1, <2>3, <2>4
<1>5. RowsOfStream(s)' \subseteq RowsOfStream(s) \cup Siblings(s)
  BY DEF RowsOfStream
<1>6. \A x \in RowsOfStream(s)' : x <= made /\ (x \in Ids => rows[x].root = m)
  BY <1>1, <1>2, <1>4, <1>5 DEF StreamKnows
<1>7. ASSUME Whole(m) PROVE WholeFits(s)'
  <2>1. WholeFits(s) /\ RowsOfStream(s)' \subseteq Ids \cup {None}
    BY <1>1, <1>2, <1>4, <1>5, <1>7 DEF StreamKnows, WholeFits
  <2>2. m \notin stream'[s].drops
    <3>1. m \notin stream[s].drops
      BY <1>1, <2>1 DEF WholeFits
    <3>2. m \notin Siblings(s)
      <4>1. ASSUME m \in Siblings(s) PROVE FALSE
        <5>1. m \in Ids /\ rows[m].root = m /\ rows[m].parent \in stream[s].chain /\ RowKept(m)
          BY <1>2, <1>4, <4>1 DEF Siblings
        <5>2. rows[m].parent = None
          BY <1>7, <5>1 DEF RowKept
        <5>3. stream[s].chain \subseteq Id /\ None \notin Id
          BY ReaderFacts DEF StreamType
        <5> QED BY <5>1, <5>2, <5>3
      <4> QED BY <4>1
    <3> QED BY <3>1, <3>2
  <2>3. stream'[s].pc = "closing" => Answered(m)'
    BY <1>1, <1>7
  <2>4. stream'[s].root = m
    BY <1>1
  <2> QED BY <1>2, <2>1, <2>2, <2>3, <2>4 DEF WholeFits
<1>8. ~Whole(m) => "raced" \in slips'[m]
  BY <1>1, <1>2 DEF StreamKnows, SlipsGrow
<1>9. StreamKnows(s)'
  <2>1. (Whole(m)' <=> Whole(m)) /\ stream'[s].root = m
    BY <1>1, <1>2 DEF Whole
  <2> QED BY <1>2, <1>3, <1>6, <1>7, <1>8, <2>1 DEF StreamKnows
<1>10. EndFits(s)'
  BY DEF EndFits
<1> QED BY <1>3, <1>9, <1>10 DEF Asks

\* The message of the stream is shown, or nothing of it is: the prompt waits for the
\* answers of the client, or the model's answer was an error.
LEMMA ShowingReads ==
  ASSUME MaintenanceInv, ReadersInv, MaintenanceInv', NEW s \in Streams,
         ShowPending(s) \/ ShowReply(s) \/ GenerateError(s)
  PROVE  ReadersInv'
<1>1. PICK m : m = stream[s].root
  OBVIOUS
<1>2. /\ TypeOK /\ UNCHANGED <<rows, made, completions, clock, deletion>>
      /\ stream[s].pc \in {"asked", "replying", "shown"} /\ Runs(s)
      /\ StreamKnows(s) /\ PlaceFits(s) /\ m # None /\ m \in Id
  <2>1. /\ TypeOK /\ UNCHANGED <<rows, made, completions, clock, deletion>>
        /\ stream[s].pc \in {"asked", "replying", "shown"}
    BY DEF MaintenanceInv, ShowPending, ShowReply, GenerateError, tableVars
  <2>2. Runs(s)
    BY <2>1 DEF Runs, Stopped
  <2>3. StreamKnows(s) /\ PlaceFits(s)
    BY <2>2 DEF ReadersInv, StreamKnows
  <2>4. m # None /\ m \in Id
    BY <1>1, <2>1, <2>3, ReaderFacts DEF PlaceFits
  <2> QED BY <2>1, <2>2, <2>3, <2>4
<1>3. SlipsGrow /\ (GenerateError(s) => "error" \in slips'[m])
  <2>1. CASE GenerateError(s)
    BY <1>1, <1>2, <2>1, Slipping DEF GenerateError, Happenings
  <2>2. CASE UNCHANGED slips /\ ~GenerateError(s)
    BY <2>2 DEF SlipsGrow
  <2> QED BY <2>1, <2>2 DEF ShowPending, ShowReply
<1>4. /\ OtherStreams(s) /\ stream'[s].root = m /\ stream'[s].parent = stream[s].parent
      /\ stream'[s].user = stream[s].user /\ stream'[s].reply = stream[s].reply
      /\ stream'[s].top = stream[s].top /\ stream'[s].chain = stream[s].chain
      /\ stream'[s].drops \in {stream[s].drops, Siblings(s)}
      /\ stream'[s].pc = IF ShowReply(s) THEN "shown" ELSE "closing"
      /\ stream[s].pc = IF ShowReply(s) THEN "replying"
                        ELSE IF ShowPending(s) THEN "asked" ELSE "shown"
  <2>1. stream \in [Streams -> StreamType]
    BY ReaderFacts
  <2>2. CASE ShowPending(s)
    BY <1>1, <2>1, <2>2 DEF ShowPending, ShowReply, OtherStreams, StreamType
  <2>3. CASE ShowReply(s)
    BY <1>1, <2>1, <2>3 DEF ShowReply, OtherStreams, StreamType
  <2>4. CASE GenerateError(s)
    BY <1>1, <2>1, <2>4 DEF GenerateError, ShowReply, ShowPending, Go, OtherStreams, StreamType
  <2> QED BY <2>2, <2>3, <2>4
<1>5. ASSUME stream'[s].pc = "closing", Whole(m) PROVE Answered(m)'
  <2>1. CASE GenerateError(s)
    BY <1>3, <2>1 DEF Answered
  <2>2. CASE ShowPending(s)
    <3>1. PICK n \in stream[s].chain \cap Ids : rows[n].role = "assistant" /\ rows[n].final
      BY <2>2 DEF ShowPending
    <3>2. n \in RowsOfStream(s) /\ rows[n].root = m
      BY <1>1, <1>2, <3>1 DEF StreamKnows, RowsOfStream
    <3>3. n \in Thread(m)' /\ rows'[n] = rows[n]
      BY <1>2, <3>1, <3>2 DEF Thread, Ids
    <3> QED BY <3>1, <3>3 DEF Answered
  <2>3. CASE ShowReply(s)
    BY <1>4, <1>5, <2>3
  <2> QED BY <2>1, <2>2, <2>3
<1>6. StreamKnows(s)' /\ EndFits(s)' /\ Runs(s)' /\ \A n \in Ids : Asks(s, n) => Asks(s, n)'
  <2>1. stream'[s].pc = "closing" /\ Whole(stream[s].root) => Answered(stream[s].root)'
    <3>1. (stream[s].root)' = m
      BY <1>4
    <3> QED BY <1>1, <1>5, <3>1
  <2> QED BY <1>1, <1>2, <1>3, <1>4, <2>1, GoingOnKnows
<1>7. \A n \in Ids : Keeps(s, n)
  BY <1>2, <1>6 DEF Keeps, Unturned, Closes
<1>8. ReplyIsNew(s)'
  BY <1>2, <1>4 DEF ReadersInv, ReplyIsNew
<1>9. Ledger'
  BY <1>2, <1>3, <1>4, LedgerStays DEF Ids
<1> QED BY <1>2, <1>3, <1>4, <1>6, <1>7, <1>8, <1>9, QuietReads

\* The stream has no turn: the prompt stays as it is.
LEMMA NoTurnReads ==
  ASSUME MaintenanceInv, ReadersInv, MaintenanceInv', NEW s \in Streams, NoTurn(s)
  PROVE  ReadersInv'
<1>1. /\ TypeOK /\ UNCHANGED <<rows, made, completions, clock, deletion, slips>>
      /\ stream[s].pc = "asked" /\ Runs(s) /\ End(s, "unturned") /\ Ids' = Ids /\ SlipsGrow
  BY DEF MaintenanceInv, NoTurn, tableVars, Runs, Stopped, Ids, SlipsGrow
<1>2. OtherStreams(s) /\ stream'[s].pc = "unturned" /\ stream'[s].root = stream[s].root
  BY <1>1, Ending DEF Stopped
<1>3. StreamKnows(s)' /\ ReplyIsNew(s)' /\ ~Runs(s)' /\ EndFits(s)'
  BY <1>2, StoppedKnows DEF Stopped, EndFits
<1>4. \A n \in Ids : Keeps(s, n)
  BY <1>1, <1>2 DEF Keeps, Asks, Unturned, Closes
<1>5. Ledger'
  BY <1>1, <1>2, LedgerStays
<1> QED BY <1>1, <1>2, <1>3, <1>4, <1>5, QuietReads

\* The reply has come: its completion is committed before the row says so.
LEMMA GenerateReads ==
  ASSUME MaintenanceInv, ReadersInv, MaintenanceInv', NEW s \in Streams, Generate(s)
  PROVE  ReadersInv'
<1>1. /\ TypeOK /\ UNCHANGED <<rows, made, clock, deletion, slips>>
      /\ stream[s].pc = "shown" /\ Runs(s) /\ Go(s, "generated")
      /\ StreamKnows(s) /\ PlaceFits(s) /\ ReplyIsNew(s)
  BY DEF MaintenanceInv, ReadersInv, Generate, tableVars, Runs, Stopped, StreamKnows
<1>2. Ids' = Ids /\ Deleting' = Deleting /\ SlipsGrow
  BY <1>1 DEF Ids, Deleting, SlipsGrow
<1>3. PICK n : n = stream[s].reply
  OBVIOUS
<1>4. n # None /\ completions' = IF stream[s].client = Account THEN completions \cup {n} ELSE completions
  BY <1>1, <1>3 DEF Generate, Create, PlaceFits
<1>5. /\ OtherStreams(s) /\ stream'[s] = [stream[s] EXCEPT !.pc = "generated"]
  BY <1>1, Going DEF StreamPC
<1>6. /\ stream'[s].pc = "generated" /\ stream'[s].root = stream[s].root
      /\ stream'[s].parent = stream[s].parent /\ stream'[s].user = stream[s].user
      /\ stream'[s].reply = n /\ stream'[s].top = stream[s].top
      /\ stream'[s].client = stream[s].client /\ stream'[s].chain = stream[s].chain
      /\ stream'[s].drops = stream[s].drops
  BY <1>3, <1>5, ReaderFacts DEF StreamType
<1>7. StreamKnows(s)' /\ EndFits(s)' /\ Runs(s)' /\ \A k \in Ids : Asks(s, k) => Asks(s, k)'
  BY <1>1, <1>2, <1>3, <1>6, GoingOnKnows
<1>8. \A k \in Ids : Keeps(s, k)
  BY <1>1, <1>7 DEF Keeps, Unturned, Closes
<1>9. ReplyIsNew(s)'
  <2>1. Guest # Account
    BY PeopleAssumption
  <2> QED BY <1>1, <1>3, <1>4, <1>6, <2>1 DEF ReplyIsNew
<1>10. ASSUME ~Excused' PROVE n \in Ids /\ Accounted(n)'
  <2>1. ~Excused
    BY <1>2, <1>10, ExcuseStays
  <2>2. n \in Ids
    BY <1>1, <1>3, <1>4, <2>1, CalmIsWhole DEF WholeFits, RowsOfStream
  <2> QED BY <1>2, <1>6, <2>2 DEF Accounted
<1>11. Ledger'
  BY <1>1, <1>2, <1>4, <1>5, <1>10, LedgerStays
<1> QED BY <1>1, <1>2, <1>3, <1>4, <1>5, <1>6, <1>7, <1>8, <1>9, <1>11, QuietReads

\* The stream is cut off: what it leaves is marked.
LEMMA CutReads ==
  ASSUME MaintenanceInv, ReadersInv, MaintenanceInv', NEW s \in Streams, Cut(s)
  PROVE  ReadersInv'
<1>1. /\ TypeOK /\ UNCHANGED <<rows, made, completions, clock, deletion>>
      /\ Runs(s) /\ End(s, "cut") /\ Slip({stream[s].root}, "cut")
      /\ StreamKnows(s) /\ PlaceFits(s)
  BY DEF MaintenanceInv, ReadersInv, Cut, tableVars, StreamKnows
<1>2. /\ Ids' = Ids /\ SlipsGrow
      /\ \A m \in Id \cap {stream[s].root} : "cut" \in slips'[m]
  BY <1>1, Slipping DEF Happenings, Ids
<1>3. OtherStreams(s) /\ stream'[s].pc = "cut"
  BY <1>1, Ending DEF Stopped
<1>4. EndFits(s)'
  BY <1>3 DEF EndFits
<1>5. StreamKnows(s)' /\ ReplyIsNew(s)' /\ ~Runs(s)'
  BY <1>3, StoppedKnows DEF Stopped
<1>6. ASSUME stream[s].pc = "generated" PROVE Excused'
  <2>1. stream[s].root \in Id
    BY <1>1, <1>6, ReaderFacts DEF PlaceFits
  <2> QED BY <1>2, <2>1 DEF Excused
<1>7. Ledger'
  BY <1>1, <1>2, <1>3, <1>6, LedgerStays
<1>8. ASSUME NEW n \in Ids PROVE Keeps(s, n)
  <2>1. Asks(s, n) \/ Closes(s, n) => "cut" \in slips'[n]
    BY <1>2, ReaderFacts DEF Asks, Closes
  <2>2. ~Unturned(s, n)
    BY <1>1 DEF Runs, Stopped, Unturned
  <2> QED BY <2>1, <2>2 DEF Keeps
<1> QED BY <1>1, <1>2, <1>3, <1>4, <1>5, <1>7, <1>8, QuietReads

-----------------------------------------------------------------------------
\* A row that cannot be added ends the stream, which has met a deletion.
LEMMA RefusedReads ==
  ASSUME MaintenanceInv, ReadersInv, MaintenanceInv', NEW s \in Streams,
         UNCHANGED <<rows, made, completions, clock, deletion, slips>>, End(s, "failed"),
         stream[s].pc # "generated" \/ stream[s].reply \notin Ids, Runs(s),
         \A n \in Ids : Asks(s, n) \/ Closes(s, n) => ~Whole(n)
  PROVE  ReadersInv'
<1>1. TypeOK /\ Ids' = Ids /\ SlipsGrow
  BY DEF MaintenanceInv, Ids, SlipsGrow
<1>2. OtherStreams(s) /\ stream'[s].pc = "failed"
  BY <1>1, Ending DEF Stopped
<1>3. EndFits(s)'
  BY <1>2 DEF EndFits
<1>4. StreamKnows(s)' /\ ReplyIsNew(s)' /\ ~Runs(s)'
  BY <1>2, StoppedKnows DEF Stopped
<1>5. Ledger'
  BY <1>1, <1>2, LedgerStays
<1>6. ASSUME NEW n \in Ids, Whole(n) PROVE Keeps(s, n)
  BY <1>6 DEF Keeps, Unturned, Runs, Stopped
<1> QED BY <1>1, <1>2, <1>3, <1>4, <1>5, <1>6, QuietReads

\* A new row: a system message or a prompt that begins a thread, or what hangs
\* on another row of the stream.
LEMMA InsertReads ==
  ASSUME MaintenanceInv, ReadersInv, MaintenanceInv', NEW s \in Streams,
         NEW role \in Role, NEW parent \in RowsOfStream(s) \cup {None},
         NEW field \in {"parent", "user", "reply"}, NEW where \in {"opened", "asked", "replying"},
         Insert(s, NewRow(s, role, parent), field, where),
         Runs(s), stream[s].pc \in {"validated", "opened", "chained", "asked"},
         parent = None <=> stream[s].root = None,
         \/ /\ role = "system" /\ field = "parent" /\ where = "opened"
            /\ stream[s].pc = "validated" /\ parent = None
         \/ /\ role = "user" /\ field = "user" /\ where = "asked"
            /\ stream[s].pc \in {"opened", "chained"} /\ parent = stream[s].parent
         \/ /\ role = "assistant" /\ field = "reply" /\ where = "replying"
            /\ stream[s].pc = "asked" /\ parent = stream[s].user
  PROVE  ReadersInv'
<1>1. PICK row : row = NewRow(s, role, parent)
  OBVIOUS
<1>2. PICK new : new = made + 1
  OBVIOUS
<1>3. /\ TypeOK /\ UNCHANGED <<completions, clock, deletion, slips>>
      /\ StreamKnows(s) /\ PlaceFits(s) /\ stream[s] \in StreamType
      /\ made \in Nat /\ made < MaxRows /\ MaxRows \in Nat
      /\ Ids \subseteq 1..made /\ None \notin Ids
  BY ReaderFacts, RowTyped DEF MaintenanceInv, ReadersInv, Insert, StreamKnows
<1>4. /\ new \in Nat /\ new \notin Ids /\ new # None /\ made <= new /\ made < new /\ new \in Id
      /\ None <= made /\ RowsOfStream(s) \subseteq Nat /\ new \notin RowsOfStream(s)
  <2>1. \A x \in RowsOfStream(s) : x \in Nat /\ x <= made
    BY <1>3, ReaderFacts DEF StreamKnows
  <2>2. new \in Nat /\ new \notin Ids /\ new # None /\ made <= new /\ made < new /\ new \in Id
        /\ None <= made
    BY <1>2, <1>3 DEF None, Id
  <2>3. \A x \in Nat : x <= made => x # new
    BY <1>2, <1>3
  <2> QED BY <2>1, <2>2, <2>3
<1>5. CASE ~Insertable(new, row)
  <2>1. UNCHANGED <<rows, made>> /\ End(s, "failed")
    BY <1>1, <1>2, <1>5 DEF Insert
  <2>2. ASSUME NEW n \in Ids, Asks(s, n) \/ Closes(s, n), Whole(n) PROVE FALSE
    <3>1. stream[s].user = n /\ stream[s].root = n /\ n # None
      BY <1>3, <2>2 DEF Asks, Closes
    <3>2. parent = n /\ stream[s].root = n
      BY <1>3, <3>1 DEF PlaceFits
    <3>3. Names(row) \subseteq {n}
      BY <1>1, <3>1, <3>2 DEF Names, NewRow
    <3> QED BY <1>5, <2>2, <3>3 DEF Insertable
  <2> QED BY <1>3, <2>1, <2>2, RefusedReads
<1>6. CASE Insertable(new, row)
  <2>1. /\ rows' = [n \in Ids \cup {new} |-> IF n = new THEN row ELSE rows[n]]
        /\ made' = new
        /\ stream' = [stream EXCEPT ![s].pc = where, ![s].root = row.root,
                        ![s].chain = @ \cup {new},
                        ![s].top = IF stream[s].top = None THEN new ELSE @,
                        ![s][field] = new]
    BY <1>1, <1>2, <1>6 DEF Insert
  <2>2. /\ row.role = role /\ row.parent = parent /\ ~row.final /\ ~row.completion
        /\ row.root = IF stream[s].root = None THEN new ELSE stream[s].root
    BY <1>1, <1>2 DEF NewRow
  <2>3. Names(row) \subseteq Ids \cup {new, None}
    BY <1>6 DEF Insertable
  <2>4. PICK m : m = row.root
    OBVIOUS
  <2>5. /\ m # None /\ m \in Ids \cup {new} /\ m <= made'
        /\ stream[s].root = None => m = new
        /\ stream[s].root # None => m = stream[s].root /\ m \in Ids
    BY <1>3, <1>4, <2>1, <2>2, <2>3, <2>4 DEF Names, RowsOfStream
  <2>6. parent \in Ids \cup {None} /\ parent # new
    BY <1>4, <2>2, <2>3 DEF Names
  <2>7. /\ Ids' = Ids \cup {new} /\ rows'[new] = row
        /\ \A n \in Ids : rows'[n] = rows[n]
    BY <1>4, <2>1 DEF Ids
  <2>8. Deleting' = Deleting /\ SlipsGrow
    BY <1>3 DEF Deleting, SlipsGrow
  <2>9. ~Expired(new)'
    <3>1. clock \in Nat /\ clock <= made
      BY <1>3 DEF ReadersInv, TypeOK
    <3>2. ~(new <= clock)
      BY <1>2, <1>3, <3>1
    <3> QED BY <1>3, <3>2 DEF Expired
  <2>10. \A n \in Ids : n <= made /\ n # new
    BY <1>4, ReaderFacts
  <2>11. Orderly
    <3>1. ASSUME NEW n \in Ids', n <= made PROVE n \in Ids /\ rows'[n] = rows[n]
      BY <1>3, <1>4, <2>7, <3>1
    <3>2. \A n \in Ids : Expired(n)' => Expired(n)
      BY <1>3, <2>7 DEF Expired
    <3> QED BY <1>4, <2>1, <2>7, <2>8, <2>9, <3>1, <3>2 DEF Orderly, RowStays
  <2>12. /\ OtherStreams(s) /\ stream'[s].pc = where /\ stream'[s].root = m
         /\ field = "parent" => /\ stream'[s].parent = new /\ stream'[s].user = stream[s].user
                                /\ stream'[s].reply = stream[s].reply
         /\ field = "user" => /\ stream'[s].parent = stream[s].parent /\ stream'[s].user = new
                              /\ stream'[s].reply = stream[s].reply
         /\ field = "reply" => /\ stream'[s].parent = stream[s].parent
                               /\ stream'[s].user = stream[s].user /\ stream'[s].reply = new
         /\ stream'[s].top = IF stream[s].top = None THEN new ELSE stream[s].top
         /\ stream'[s].client = stream[s].client
         /\ stream'[s].chain = stream[s].chain \cup {new} /\ stream'[s].drops = stream[s].drops
    <3>1. stream \in [Streams -> StreamType]
      BY ReaderFacts
    <3>2. CASE field = "parent"
      BY ZenonT(90), <2>1, <2>4, <3>1, <3>2 DEF StreamType, OtherStreams
    <3>3. CASE field = "user"
      BY ZenonT(90), <2>1, <2>4, <3>1, <3>3 DEF StreamType, OtherStreams
    <3>4. CASE field = "reply"
      BY ZenonT(90), <2>1, <2>4, <3>1, <3>4 DEF StreamType, OtherStreams
    <3> QED BY <3>2, <3>3, <3>4
  <2>13. PlaceFits(s)'
    BY <1>3, <1>4, <2>5, <2>12 DEF PlaceFits
  <2>14. RowsOfStream(s)' \subseteq RowsOfStream(s) \cup {new, m}
    <3>1. RowsOfStream(s)' = {m, stream'[s].parent, stream'[s].user, stream'[s].reply, stream'[s].top}
                               \cup (stream[s].chain \cup {new}) \cup stream[s].drops
      BY <2>12 DEF RowsOfStream
    <3>2. /\ stream'[s].parent \in {new, stream[s].parent} /\ stream'[s].user \in {new, stream[s].user}
          /\ stream'[s].reply \in {new, stream[s].reply} /\ stream'[s].top \in {new, stream[s].top}
      BY <2>12
    <3> QED BY <3>1, <3>2 DEF RowsOfStream
  <2>15. rows'[new].root = m /\ rows'[m].root = m
    <3>1. rows'[new].root = m
      BY <2>4, <2>7
    <3>2. ASSUME m # new PROVE rows'[m].root = m
      <4>1. m \in Ids /\ m \in RowsOfStream(s) /\ m = stream[s].root
        BY <2>5, <3>2 DEF RowsOfStream
      <4>2. rows[m].root = m
        BY <1>3, <4>1 DEF StreamKnows
      <4> QED BY <2>7, <4>1, <4>2
    <3> QED BY <3>1, <3>2
  <2>16. \A x \in RowsOfStream(s) \cap Ids : rows[x].root = m
    <3> SUFFICES ASSUME NEW x \in RowsOfStream(s) \cap Ids PROVE rows[x].root = m
      OBVIOUS
    <3>1. rows[x].root = stream[s].root /\ rows[x].root \in Ids
      BY <1>3, ReaderFacts DEF StreamKnows
    <3> QED BY <1>3, <2>5, <3>1
  <2>17. ASSUME NEW x \in RowsOfStream(s)' PROVE x <= made' /\ (x \in Ids' => rows'[x].root = m)
    <3>1. CASE x \in {new, m}
      BY <1>4, <2>1, <2>5, <2>15, <3>1
    <3>2. CASE x \in RowsOfStream(s)
      <4>1. x <= made /\ x \in Nat
        BY <1>3, <1>4, <3>2 DEF StreamKnows
      <4>2. x <= new
        BY <1>3, <1>4, <4>1
      <4>3. x \in Ids' => x \in Ids
        BY <1>4, <2>7, <3>2
      <4> QED BY <2>1, <2>7, <2>16, <3>2, <4>2, <4>3
    <3> QED BY <2>14, <2>17, <3>1, <3>2
  <2>18. new \notin Deleting
    <3>1. \A k \in Deleting : k \in Nat /\ k <= made
      BY ReaderFacts
    <3> QED BY <1>2, <1>3, <3>1
  <2>19. ASSUME Whole(m) PROVE WholeFits(s)'
    <3>1. WholeFits(s)
      <4>1. Whole(stream[s].root)
        BY <2>5, <2>19, ReaderFacts DEF Whole
      <4> QED BY <1>3, <4>1 DEF StreamKnows
    <3>2. RowsOfStream(s)' \subseteq Ids' \cup {None}
      BY <2>5, <2>7, <2>14, <3>1 DEF WholeFits
    <3>3. rows'[stream'[s].top].parent = None
      <4>1. CASE stream[s].top = None
        BY <1>3, <2>2, <2>7, <2>12, <4>1 DEF PlaceFits
      <4>2. CASE stream[s].top # None
        <5>1. stream[s].top \in Ids /\ rows[stream[s].top].parent = None
          BY <3>1, <4>2 DEF WholeFits, RowsOfStream
        <5> QED BY <2>7, <2>12, <4>2, <5>1
      <4> QED BY <4>1, <4>2
    <3>4. stream'[s].reply # None => rows'[stream'[s].reply].role = "assistant"
      BY <1>3, <2>2, <2>7, <2>12 DEF PlaceFits
    <3>5. stream'[s].user # None => rows'[stream'[s].user].role = "user"
      <4>1. CASE field = "user"
        BY <2>2, <2>7, <2>12, <4>1
      <4>2. CASE field = "parent"
        BY <1>3, <2>12, <4>2 DEF PlaceFits
      <4>3. CASE field = "reply"
        <5>1. stream[s].user # None /\ stream[s].user \in Ids /\ stream'[s].user = stream[s].user
          BY <1>3, <2>12, <3>1, <4>3 DEF PlaceFits, WholeFits, RowsOfStream
        <5> QED BY <2>7, <3>1, <5>1 DEF WholeFits
      <4> QED BY <4>1, <4>2, <4>3
    <3>6. stream'[s].drops = {}
      BY <1>3, <2>12 DEF PlaceFits
    <3> QED BY <2>12, <3>2, <3>3, <3>4, <3>5, <3>6 DEF WholeFits
  <2>20. ASSUME ~Whole(m) PROVE "raced" \in slips[m]
    <3>1. m # new /\ m = stream[s].root
      BY <2>5, <2>18, <2>20 DEF Whole
    <3> QED BY <1>3, <2>20, <3>1 DEF StreamKnows
  <2>21. StreamKnows(s)'
    <3>1. Whole(m)' <=> Whole(m)
      BY <2>8 DEF Whole
    <3> QED BY <1>3, <2>12, <2>13, <2>17, <2>19, <2>20, <3>1 DEF StreamKnows
  <2>22. EndFits(s)' /\ ReplyIsNew(s)' /\ Runs(s)'
    <3>1. completions \subseteq 1..made
      BY <1>3 DEF TypeOK
    <3>2. new \notin completions
      BY <1>2, <1>3, <3>1
    <3> QED BY <1>3, <2>12, <3>2 DEF EndFits, ReplyIsNew, Runs, Stopped
  <2>23. \A q \in Streams : ReplyIsOwn(q)' /\ ReplyIsNew(q)'
    <3>1. \/ Runs(s) /\ stream'[s].reply = stream[s].reply
          \/ stream'[s].reply \in {None, made + 1}
      BY <1>2, <2>12
    <3> QED BY <1>3, <2>12, <2>22, <3>1, RepliesApart
  <2>24. PromisesKept
    <3> SUFFICES ASSUME NEW n \in Ids, Whole(n), NEW q \in Streams PROVE Keeps(q, n)
      BY DEF PromisesKept
    <3>1. CASE q = s
      <4>1. Asks(s, n) => Asks(s, n)'
        <5> SUFFICES ASSUME Asks(s, n) PROVE Asks(s, n)'
          OBVIOUS
        <5>1. stream[s].user = n /\ stream[s].root = n /\ n # None
          BY <1>3 DEF Asks
        <5>2. field = "reply"
          BY <1>3, <5>1 DEF PlaceFits
        <5> QED BY <2>5, <2>12, <2>22, <5>1, <5>2 DEF Asks
      <4>2. ~Unturned(s, n) /\ ~Closes(s, n)
        BY DEF Unturned, Closes
      <4> QED BY <3>1, <4>1, <4>2 DEF Keeps
    <3>2. CASE q # s
      BY <2>12, <3>2, OthersKeep DEF OtherStreams
    <3> QED BY <3>1, <3>2
  <2>25. \A q \in Streams : StreamKnows(q)' /\ EndFits(q)'
    BY <2>11, <2>12, <2>21, <2>22, <2>24, OthersKnow DEF OtherStreams
  <2>26. clock' <= made'
    <3>1. clock \in Nat /\ clock <= made
      BY <1>3 DEF ReadersInv, TypeOK
    <3> QED BY <1>2, <1>3, <2>1, <3>1
  <2>27. ASSUME NEW n \in Ids PROVE RowShape(n)' /\ RowKept(n)'
    <3>1. n \in Ids' \cap Ids /\ rows'[n] = rows[n]
      BY <2>7
    <3>2. RootsExist' /\ TypeOK'
      BY DEF MaintenanceInv
    <3> QED BY <2>11, <2>24, <3>1, <3>2, OldRowsKeep
  <2>28. RowShape(new)'
    <3>1. ASSUME parent # None PROVE parent < new /\ rows'[parent].root = m
      BY <1>2, <1>3, <2>6, <2>7, <2>10, <2>16, <3>1
    <3>2. m <= new
      BY <2>1, <2>5
    <3> QED BY <2>2, <2>7, <2>15, <3>1, <3>2 DEF RowShape
  <2>29. RowKept(new)'
    <3>1. parent = None <=> m = new
      BY <1>4, <2>5
    <3>2. role = "assistant" => parent # None
      BY <1>3 DEF PlaceFits
    <3>3. m = new /\ role = "user" => Asks(s, new)'
      BY <2>12, <2>22, <3>1, <3>2 DEF Asks
    <3> QED BY <2>2, <2>7, <2>15, <3>1, <3>2, <3>3 DEF RowKept
  <2>30. \A d \in Deletions : DeletionKnows(d)'
    <3>1. \A n \in Ids' : rows'[n].completion => n \in Ids /\ rows[n].completion
      BY <2>2, <2>7
    <3> QED BY <1>3, <2>11, <3>1, DeletionsKnow
  <2>31. Ledger'
    BY <1>3, <2>7, <2>8, <2>12, LedgerStays
  <2> QED BY <2>7, <2>23, <2>25, <2>26, <2>28, <2>29, <2>30, <2>31, <2>27 DEF ReadersInv
<1> QED BY <1>5, <1>6

\* The system message, the prompt and the reply of a request.
LEMMA AddingReads ==
  ASSUME MaintenanceInv, ReadersInv, MaintenanceInv', NEW s \in Streams,
         AddSystem(s) \/ AddUser(s) \/ AddReply(s)
  PROVE  ReadersInv'
<1>1. /\ Runs(s) /\ stream[s].pc \in {"validated", "opened", "chained", "asked"}
      /\ {"system", "user", "assistant"} \subseteq Role
  BY DEF AddSystem, AddUser, AddReply, Runs, Stopped, Role
<1>2. PlaceFits(s) /\ {stream[s].parent, stream[s].user} \subseteq RowsOfStream(s)
  BY <1>1 DEF ReadersInv, StreamKnows, RowsOfStream
<1>3. CASE AddSystem(s)
  <2>1. /\ stream[s].pc = "validated" /\ stream[s].root = None
        /\ Insert(s, NewRow(s, "system", None), "parent", "opened")
    BY <1>2, <1>3 DEF AddSystem, PlaceFits
  <2> QED BY <1>1, <2>1, InsertReads
<1>4. CASE AddUser(s)
  <2>1. /\ stream[s].pc \in {"opened", "chained"}
        /\ stream[s].parent = None <=> stream[s].root = None
        /\ Insert(s, NewRow(s, "user", stream[s].parent), "user", "asked")
    BY <1>2, <1>4 DEF AddUser, PlaceFits
  <2> QED BY <1>1, <1>2, <2>1, InsertReads
<1>5. CASE AddReply(s)
  <2>1. /\ stream[s].pc = "asked" /\ stream[s].user # None /\ stream[s].root # None
        /\ Insert(s, NewRow(s, "assistant", stream[s].user), "reply", "replying")
    BY <1>2, <1>5 DEF AddReply, PlaceFits
  <2> QED BY <1>1, <1>2, <2>1, InsertReads
<1> QED BY <1>3, <1>4, <1>5

-----------------------------------------------------------------------------
\* A stream saves a row of its own, and takes the parents of other branches: it goes
\* on to the next row, or the row was the prompt, which is the last.
Saves(s, n, row) ==
  /\ Runs(s) /\ stream[s].pc \in {"generated", "closing"} /\ n \in RowsOfStream(s) \cap Ids
  /\ row.root = rows[n].root /\ row.parent = rows[n].parent /\ row.role = rows[n].role
  /\ row.creator = rows[n].creator /\ row.final
  /\ rows' = [Unlinked(s) EXCEPT ![n] = row]
  /\ UNCHANGED <<made, completions, clock, deletion>> /\ SlipsGrow
  /\ stream[s].drops \cap Ids # {} => "forked" \in slips'[stream[s].root]
  /\ OtherStreams(s) /\ stream'[s].root = stream[s].root
  /\ \/ /\ stream'[s].pc = "closing" /\ stream'[s].user = stream[s].user
        /\ stream'[s].reply = stream[s].reply /\ stream'[s].top = stream[s].top
     \/ stream'[s].pc = "done" /\ stream[s].pc = "closing" /\ n = stream[s].user /\ ~TopIsOpen(s)

LEMMA SavedRows ==
  ASSUME MaintenanceInv, ReadersInv, NEW s \in Streams, NEW n, NEW row, Saves(s, n, row)
  PROVE  /\ Ids' = Ids /\ n \in Ids /\ rows'[n] = row /\ rows[n].root = stream[s].root
         /\ \A k \in Ids :
              /\ rows'[k].root = rows[k].root /\ rows'[k].role = rows[k].role
              /\ rows'[k].creator = rows[k].creator
              /\ rows[k].final => rows'[k].final
              /\ rows'[k].final => rows[k].final \/ k = n
              /\ k # n => rows'[k].completion = rows[k].completion
              /\ rows'[k].parent \in {rows[k].parent, None}
              /\ rows'[k].parent # rows[k].parent => k \in stream[s].drops
              /\ Expired(k)' <=> Expired(k)
<1>1. n \in Ids /\ n \in RowsOfStream(s) /\ Runs(s) /\ rows' = [Unlinked(s) EXCEPT ![n] = row]
  BY DEF Saves
<1>2. DOMAIN Unlinked(s) = Ids
  BY UnlinkedRows
<1>3. DOMAIN rows' = Ids /\ rows'[n] = row /\ \A k \in Ids : k # n => rows'[k] = Unlinked(s)[k]
  BY <1>1, <1>2
<1>4. Ids' = Ids
  BY <1>3 DEF Ids
<1>5. rows[n].root = stream[s].root
  BY <1>1 DEF ReadersInv, StreamKnows
<1>6. ASSUME NEW k \in Ids
      PROVE  /\ rows'[k].root = rows[k].root /\ rows'[k].role = rows[k].role
             /\ rows'[k].creator = rows[k].creator
             /\ rows[k].final => rows'[k].final
             /\ rows'[k].final => rows[k].final \/ k = n
             /\ k # n => rows'[k].completion = rows[k].completion
             /\ rows'[k].parent \in {rows[k].parent, None}
             /\ rows'[k].parent # rows[k].parent => k \in stream[s].drops
  <2>1. CASE k = n
    BY <1>3, <2>1 DEF Saves
  <2>2. CASE k # n
    BY <1>3, <2>2, UnlinkedRows
  <2> QED BY <2>1, <2>2
<1>7. ASSUME NEW k \in Ids PROVE Expired(k)' <=> Expired(k)
  BY <1>6, <1>7 DEF Expired, Saves
<1> QED BY <1>1, <1>3, <1>4, <1>5, <1>6, <1>7

\* Nothing is lost by it, and every promise is kept: a branch is torn off by a stream
\* that will make the system message final, or below one that was torn off before.
LEMMA SavesKeep ==
  ASSUME MaintenanceInv, ReadersInv, MaintenanceInv', NEW s \in Streams, NEW n, NEW row,
         Saves(s, n, row)
  PROVE  /\ Orderly /\ PromisesKept
         /\ \A k \in Ids : rows'[k].parent # rows[k].parent =>
              rows[k].root = stream[s].root /\ (Whole(stream[s].root) => Torn(stream[s].root)')
         /\ stream'[s].pc = "done" => EndFits(s)'
<1>1. PICK m : m = stream[s].root
  OBVIOUS
<1>2. /\ StreamKnows(s) /\ Runs(s) /\ PlaceFits(s) /\ m # None /\ m \in Id
      /\ stream[s].top # None /\ stream[s].pc \in {"generated", "closing"}
      /\ UNCHANGED <<made, completions, clock, deletion>> /\ SlipsGrow /\ Deleting' = Deleting
  <2>1. StreamKnows(s) /\ Runs(s) /\ PlaceFits(s) /\ stream[s].pc \in {"generated", "closing"}
    BY DEF ReadersInv, Saves, StreamKnows
  <2>2. stream[s].top # None /\ m # None /\ m \in Id
    BY <1>1, <2>1, ReaderFacts DEF PlaceFits
  <2> QED BY <2>1, <2>2 DEF Saves, Deleting
<1>3. /\ made \in Nat /\ Ids \subseteq 1..made /\ Ids \subseteq Id
      /\ \A k \in Ids : k <= made /\ RowKept(k) /\ RowShape(k)
  BY ReaderFacts
<1>4. Orderly
  <2>1. \A k \in Ids : RowStays(k)
    BY SavedRows DEF RowStays
  <2>2. Ids' = Ids /\ \A k \in Ids' : Expired(k)' => Expired(k)
    BY SavedRows
  <2> QED BY <1>2, <1>3, <2>1, <2>2 DEF Orderly
<1>5. PromisesKept
  <2> SUFFICES ASSUME NEW k \in Ids, Whole(k), NEW q \in Streams PROVE Keeps(q, k)
    BY DEF PromisesKept
  <2>1. CASE q # s
    BY <2>1, OthersKeep DEF OtherStreams, Saves
  <2>2. CASE q = s /\ stream'[s].pc = "closing"
    <3>1. /\ stream'[s].user = stream[s].user /\ stream'[s].top = stream[s].top
          /\ stream'[s].root = stream[s].root
      BY <2>2 DEF Saves
    <3>2. Runs(s)'
      BY <2>2 DEF Runs, Stopped
    <3> QED BY <1>2, <2>2, <3>1, <3>2 DEF Keeps, Asks, Unturned, Closes
  <2>3. CASE q = s /\ stream'[s].pc # "closing"
    <3>1. stream'[s].pc = "done" /\ n = stream[s].user /\ ~TopIsOpen(s)
      BY <2>3 DEF Saves
    <3>2. Asks(s, k) => rows'[k].final
      <4>1. rows'[n] = row
        BY SavedRows
      <4>2. row.final
        BY DEF Saves
      <4> QED BY <3>1, <4>1, <4>2 DEF Asks
    <3>3. Closes(s, k) /\ rows[k].role = "system" => rows[k].final
      BY <3>1 DEF Closes, TopIsOpen
    <3>4. ~Unturned(s, k)
      BY <1>2 DEF Unturned
    <3> QED BY <2>3, <3>2, <3>3, <3>4 DEF Keeps
  <2> QED BY <2>1, <2>2, <2>3
<1>6. ASSUME m \in Ids, Whole(m), stream[s].top # m PROVE Torn(m) /\ Torn(m)'
  <2>1. WholeFits(s) /\ stream[s].top \in RowsOfStream(s)
    BY <1>1, <1>2, <1>6 DEF StreamKnows, RowsOfStream
  <2>2. stream[s].top \in Ids /\ rows[stream[s].top].root = m /\ rows[stream[s].top].parent = None
    BY <1>1, <1>2, <2>1 DEF StreamKnows, WholeFits
  <2>3. Torn(m)
    <3>1. RowKept(stream[s].top)
      BY <1>3, <2>2
    <3> QED BY <1>6, <2>2, <3>1 DEF RowKept
  <2>4. m \in Ids' /\ m <= made /\ \A q \in Streams : Keeps(q, m)
    BY <1>3, <1>5, <1>6, SavedRows DEF PromisesKept
  <2> QED BY <1>2, <1>4, <1>6, <2>3, <2>4, TornStays
<1>7. ASSUME NEW k \in Ids, rows'[k].parent # rows[k].parent
      PROVE  rows[k].root = m /\ (Whole(m) => Torn(m)')
  <2>1. k \in stream[s].drops /\ k \in RowsOfStream(s)
    BY <1>7, SavedRows DEF RowsOfStream
  <2>2. rows[k].root = m /\ m \in Ids
    BY <1>1, <1>2, <1>7, <2>1, ReaderFacts DEF StreamKnows
  <2>3. "forked" \in slips'[m]
    BY <1>1, <1>7, <2>1 DEF Saves
  <2>4. ASSUME Whole(m), stream[s].top = m PROVE Torn(m)'
    <3>1. CASE stream'[s].pc = "closing"
      <4>1. Closes(s, m)'
        BY <1>1, <2>4, <3>1 DEF Saves, Closes
      <4> QED BY <2>3, <4>1 DEF Torn
    <3>2. CASE stream'[s].pc # "closing"
      <4>1. ~TopIsOpen(s)
        BY <3>2 DEF Saves
      <4>2. rows[m].role = "system" => rows[m].final
        BY <2>2, <2>4, <4>1 DEF TopIsOpen
      <4>3. rows'[m].role = rows[m].role /\ (rows[m].final => rows'[m].final)
        BY <2>2, SavedRows
      <4> QED BY <2>3, <4>2, <4>3 DEF Torn
    <3> QED BY <3>1, <3>2
  <2> QED BY <1>6, <2>2, <2>4
<1>8. ASSUME stream'[s].pc = "done" PROVE EndFits(s)'
  <2>1. ~TopIsOpen(s) /\ stream'[s].root = m
    BY <1>1, <1>8 DEF Saves
  <2>2. ASSUME m \in Ids'
        PROVE  /\ rows'[m].root = m
               /\ Whole(m)' /\ rows'[m].role = "system" => rows'[m].final \/ Torn(m)'
    <3>1. /\ m \in Ids /\ rows'[m].root = rows[m].root /\ rows'[m].role = rows[m].role
          /\ rows[m].final => rows'[m].final
      BY <2>2, SavedRows
    <3>2. rows[m].root = m
      BY <1>1, <1>2, <3>1 DEF StreamKnows, RowsOfStream
    <3>3. stream[s].top = m /\ rows[m].role = "system" => rows[m].final
      BY <2>1, <3>1 DEF TopIsOpen
    <3>4. Whole(m)' <=> Whole(m)
      BY <1>2 DEF Whole
    <3> QED BY <1>6, <3>1, <3>2, <3>3, <3>4
  <2> QED BY <1>8, <2>1, <2>2 DEF EndFits
<1>9. (stream[s].root)' = m
  BY <1>1 DEF Saves
<1>10. ASSUME NEW k \in Ids, rows'[k].parent # rows[k].parent
      PROVE  rows[k].root = stream[s].root /\ (Whole(stream[s].root) => Torn(stream[s].root)')
  <2>1. rows[k].root = m /\ (Whole(m) => Torn(m)')
    BY <1>7, <1>10
  <2>2. Torn(m)' => Torn(stream[s].root)'
    BY <1>9
  <2> QED BY <1>1, <2>1, <2>2
<1> QED BY <1>4, <1>5, <1>8, <1>10

\* A row of the stream that is saved becomes final beside an answer.
LEMMA SaveReads ==
  ASSUME MaintenanceInv, ReadersInv, MaintenanceInv', NEW s \in Streams, NEW n, NEW row,
         Saves(s, n, row),
         row.completion # rows[n].completion =>
           /\ stream[s].pc = "generated" /\ n = stream[s].reply
           /\ row.completion = (stream[s].client = Account),
         \A m : m = stream[s].root /\ Whole(m) => Answered(m)',
         StreamKnows(s)', EndFits(s)', ReplyIsNew(s)',
         stream[s].pc = "generated" => n = stream[s].reply /\ row.completion = (stream[s].client = Account)
  PROVE  ReadersInv'
<1>1. PICK m : m = stream[s].root
  OBVIOUS
<1>2. /\ StreamKnows(s) /\ ReplyIsNew(s) /\ rows[n].root = m /\ Runs(s)
      /\ Ids' = Ids /\ rows'[n] = row /\ n \in Ids /\ OtherStreams(s)
      /\ UNCHANGED <<made, completions, clock, deletion>>
      /\ Deleting' = Deleting /\ SlipsGrow /\ made \in Nat /\ Ids \subseteq 1..made
      /\ Runs(s)' => stream'[s].reply = stream[s].reply
  <2>1. Runs(s)' => stream'[s].reply = stream[s].reply
    BY DEF Saves, Runs, Stopped
  <2>2. Deleting' = Deleting /\ UNCHANGED <<made, completions, clock, deletion>>
    BY DEF Deleting, Saves
  <2>3. Runs(s) /\ OtherStreams(s) /\ SlipsGrow
    BY DEF Saves
  <2>4. StreamKnows(s) /\ ReplyIsNew(s)
    BY DEF ReadersInv
  <2> QED BY <1>1, <2>1, <2>2, <2>3, <2>4, SavedRows, ReaderFacts
<1>3. \A k \in Ids : /\ rows'[k].root = rows[k].root
                     /\ rows'[k].final => rows[k].final \/ k = n
                     /\ k # n => rows'[k].completion = rows[k].completion
  BY SavedRows
<1>4. Orderly /\ PromisesKept
  BY SavesKeep
<1>5. clock' <= made'
  BY <1>2 DEF ReadersInv
<1>6. \A q \in Streams : ReplyIsOwn(q)' /\ ReplyIsNew(q)'
  BY <1>2, RepliesApart
<1>7. \A q \in Streams : StreamKnows(q)' /\ EndFits(q)'
  BY <1>2, <1>4, OthersKnow DEF OtherStreams
<1>8. ASSUME NEW k \in Ids' PROVE RowShape(k)' /\ RowKept(k)'
  <2>1. k \in Ids' \cap Ids /\ RootsExist' /\ TypeOK'
    BY <1>2 DEF MaintenanceInv
  <2>2. ASSUME rows'[k].final, ~rows[k].final, Whole(rows[k].root)
        PROVE  Answered(rows[k].root)'
    <3>1. k = n
      BY <1>3, <2>1, <2>2
    <3>2. Answered(m)'
      BY <1>1, <1>2, <2>2, <3>1
    <3>3. (rows[k].root)' = m
      BY <1>2, <1>3, <2>1, <3>1
    <3> QED BY <3>2, <3>3
  <2>3. ASSUME rows'[k].parent = None, rows[k].parent # None, Whole(rows[k].root)
        PROVE  Torn(rows[k].root)'
    <3>1. rows'[k].parent # rows[k].parent
      BY <2>3
    <3>2. rows[k].root = stream[s].root /\ (Whole(stream[s].root) => Torn(stream[s].root)')
      BY <2>1, <3>1, SavesKeep
    <3>3. Torn(m)'
      <4>1. Torn(stream[s].root)' /\ (stream[s].root)' = m
        BY <1>1, <2>3, <3>2 DEF Saves
      <4> QED BY <4>1
    <3>4. (rows[k].root)' = m
      BY <1>1, <1>3, <2>1, <3>2
    <3> QED BY <3>3, <3>4
  <2> QED BY <1>4, <2>1, <2>2, <2>3, OldRowsKeep
<1>9. ASSUME NEW d \in Deletions PROVE DeletionKnows(d)'
  <2> SUFFICES ASSUME NEW k \in Ids', rows'[k].completion
               PROVE  Excused' \/ (k \in Ids /\ rows[k].completion) \/ Whole(rows'[k].root)
    BY <1>2, <1>4, DeletionsKnow
  <2>1. CASE rows[k].completion
    BY <1>2, <2>1
  <2>2. CASE ~rows[k].completion /\ ~Excused
    <3>1. k = n /\ rows'[k].root = m
      BY <1>2, <1>3, <2>2
    <3>2. Whole(m)
      BY <1>1, <1>2, <2>2, CalmIsWhole
    <3> QED BY <3>1, <3>2
  <2>3. CASE Excused
    BY <1>2, <2>3, ExcuseStays
  <2> QED BY <2>1, <2>2, <2>3
<1>10. Ledger'
  <2>1. ASSUME NEW k \in Ids \cap completions, stream[s].pc = "generated", k = n
        PROVE  rows'[k].completion /\ Accounted(k)'
    <3>1. stream[s].client \in Client /\ n = stream[s].reply
      BY <2>1, ReaderFacts DEF StreamType
    <3>2. stream[s].client # Guest
      BY <1>2, <2>1, <3>1 DEF ReplyIsNew
    <3>3. rows'[k].completion
      BY <1>2, <2>1, <3>1, <3>2 DEF Client
    <3> QED BY <1>2, <3>3 DEF Accounted
  <2>2. ASSUME NEW k \in Ids \cap completions, rows[k].completion PROVE rows'[k].completion
    <3>1. CASE k = n /\ stream[s].pc = "generated"
      BY <2>1, <3>1
    <3>2. CASE k = n /\ stream[s].pc # "generated"
      BY <1>2, <2>2, <3>2
    <3>3. CASE k # n
      BY <1>2, <1>3, <2>2, <3>3
    <3> QED BY <3>1, <3>2, <3>3
  <2>3. ASSUME NEW k \in Ids \cap completions, stream[s].pc = "generated", stream[s].reply = k
        PROVE  Accounted(k)'
    BY <2>1, <2>3
  <2> QED BY <1>2, <2>2, <2>3, LedgerStays
<1> QED BY <1>5, <1>6, <1>7, <1>8, <1>9, <1>10 DEF ReadersInv

\* The stream saves its reply, then the system message of its thread and its prompt.
LEMMA SavingReads ==
  ASSUME MaintenanceInv, ReadersInv, MaintenanceInv', NEW s \in Streams,
         SaveReply(s) \/ FinalizeSystem(s) \/ FinalizeUser(s)
  PROVE  ReadersInv'
<1>1. PICK m : m = stream[s].root
  OBVIOUS
<1>2. /\ TypeOK /\ UNCHANGED <<made, completions, clock, deletion>>
      /\ stream[s].pc \in {"generated", "closing"} /\ Runs(s)
      /\ StreamKnows(s) /\ PlaceFits(s) /\ stream[s] \in StreamType
      /\ Deleting' = Deleting /\ m # None /\ m \in Id
  <2>1. /\ TypeOK /\ UNCHANGED <<made, completions, clock, deletion>>
        /\ stream[s].pc \in {"generated", "closing"} /\ Runs(s)
        /\ StreamKnows(s) /\ PlaceFits(s) /\ stream[s] \in StreamType
    BY ReaderFacts DEF MaintenanceInv, ReadersInv, SaveReply, FinalizeSystem, FinalizeUser, Update,
       Runs, Stopped, StreamKnows
  <2>2. m # None /\ m \in Id
    BY <1>1, <2>1, ReaderFacts DEF PlaceFits
  <2> QED BY <2>1, <2>2 DEF Deleting
<1>3. PICK n : n = IF stream[s].pc = "generated" THEN stream[s].reply
                   ELSE IF TopIsOpen(s) THEN stream[s].top ELSE stream[s].user
  OBVIOUS
<1>4. n \in RowsOfStream(s)
  BY <1>3 DEF RowsOfStream
<1>5. PICK row : row = IF stream[s].pc = "generated" THEN Saved(s, n)
                       ELSE [rows[n] EXCEPT !.final = TRUE]
  OBVIOUS
<1>6. PICK where : where = IF stream[s].pc = "generated" \/ TopIsOpen(s) THEN "closing" ELSE "done"
  OBVIOUS
<1>7. Update(s, n, row, where)
  BY <1>2, <1>3, <1>5, <1>6 DEF SaveReply, FinalizeSystem, FinalizeUser
<1>8. CASE n \notin Ids
  <2>1. UNCHANGED <<rows, slips>> /\ End(s, "failed")
    BY <1>7, <1>8 DEF Update
  <2>2. ASSUME NEW k \in Ids, Asks(s, k) \/ Closes(s, k), Whole(k) PROVE FALSE
    <3>1. WholeFits(s)
      BY <1>2, <2>2 DEF Asks, Closes, StreamKnows
    <3>2. n # None
      BY <1>2, <1>3, ReaderFacts DEF PlaceFits, TopIsOpen
    <3> QED BY <1>4, <1>8, <3>1, <3>2 DEF WholeFits
  <2>3. stream[s].pc = "generated" => stream[s].reply \notin Ids
    BY <1>3, <1>8
  <2> QED BY <1>2, <2>1, <2>2, <2>3, RefusedReads
<1>9. CASE n \in Ids
  <2>1. rows[n] \in Row
    BY <1>2, <1>9, RowTyped
  <2>2. /\ row.root = rows[n].root /\ row.parent = rows[n].parent /\ row.role = rows[n].role
        /\ row.creator = rows[n].creator /\ row.final
        /\ stream[s].pc = "generated" => row.completion = (stream[s].client = Account)
        /\ stream[s].pc # "generated" => row.completion = rows[n].completion
    BY <1>5, <2>1 DEF Saved, Row
  <2>3. /\ rows' = [Unlinked(s) EXCEPT ![n] = row]
        /\ IF where = "done" THEN End(s, where)
           ELSE stream' = [stream EXCEPT ![s].pc = where, ![s].drops = {}]
        /\ Slip(IF stream[s].drops \cap Ids = {} THEN {} ELSE {stream[s].root}, "forked")
    BY <1>7, <1>9 DEF Update
  <2>4. SlipsGrow /\ (stream[s].drops \cap Ids # {} => "forked" \in slips'[stream[s].root])
    BY <1>1, <1>2, <2>3, Slipping DEF Happenings
  <2>5. CASE where = "done"
    <3>1. stream[s].pc = "closing" /\ ~TopIsOpen(s) /\ n = stream[s].user
      BY <1>2, <1>3, <1>6, <2>5
    <3>2. OtherStreams(s) /\ stream'[s].pc = "done" /\ stream'[s].root = m
      BY <1>1, <1>2, <2>3, <2>5, Ending DEF Stopped
    <3>3. StreamKnows(s)' /\ ReplyIsNew(s)' /\ ~Runs(s)'
      BY <3>2, StoppedKnows DEF Stopped
    <3>4. Saves(s, n, row)
      BY <1>1, <1>2, <1>4, <1>9, <2>2, <2>3, <2>4, <3>1, <3>2 DEF Saves
    <3>5. ASSUME NEW k, k = stream[s].root, Whole(k) PROVE Answered(k)'
      <4>1. Answered(m)
        BY <1>1, <1>2, <3>1, <3>5 DEF StreamKnows, WholeFits
      <4>2. Answered(m)'
        BY <1>2, <2>4, <4>1, <3>4, SavedRows DEF Answered, Thread, SlipsGrow
      <4> QED BY <1>1, <3>5, <4>2
    <3> QED BY <1>2, <2>2, <3>1, <3>2, <3>3, <3>4, <3>5, SaveReads, SavesKeep
  <2>6. CASE where = "closing"
    <3>1. stream' = [stream EXCEPT ![s].pc = "closing", ![s].drops = {}]
      BY <2>3, <2>6
    <3>2. /\ stream'[s].pc = "closing" /\ stream'[s].root = m
          /\ stream'[s].parent = stream[s].parent /\ stream'[s].user = stream[s].user
          /\ stream'[s].reply = stream[s].reply /\ stream'[s].top = stream[s].top
          /\ stream'[s].chain = stream[s].chain /\ stream'[s].drops = {} /\ OtherStreams(s)
      BY <1>1, <1>2, <3>1, ReaderFacts DEF StreamType, OtherStreams
    <3>3. Saves(s, n, row)
      BY <1>1, <1>2, <1>4, <1>9, <2>2, <2>3, <2>4, <3>2 DEF Saves
    <3>4. PlaceFits(s)'
      BY <1>1, <1>2, <3>2 DEF PlaceFits
    <3>5. RowsOfStream(s)' \subseteq RowsOfStream(s)
      BY <1>1, <3>2 DEF RowsOfStream
    <3>6. /\ Ids' = Ids /\ rows'[n] = row
          /\ \A k \in Ids : /\ rows'[k].root = rows[k].root /\ rows'[k].role = rows[k].role
                            /\ rows[k].final => rows'[k].final
                            /\ rows[k].parent = None => rows'[k].parent = None
      BY <3>3, SavedRows
    <3>7. \A x \in RowsOfStream(s)' : x <= made' /\ (x \in Ids' => rows'[x].root = m)
      BY <1>1, <1>2, <3>5, <3>6 DEF StreamKnows
    <3>8. ASSUME Whole(m) PROVE Answered(m)'
      <4>1. WholeFits(s)
        BY <1>1, <1>2, <3>8 DEF StreamKnows
      <4>2. CASE stream[s].pc = "closing"
        <5>1. Answered(m)
          BY <1>1, <4>1, <4>2 DEF WholeFits
        <5> QED BY <1>2, <2>4, <3>6, <5>1 DEF Answered, Thread, SlipsGrow
      <4>3. CASE stream[s].pc = "generated"
        <5>1. n = stream[s].reply /\ n # None /\ rows[n].root = m /\ rows[n].role = "assistant"
          BY <1>1, <1>2, <1>3, <1>4, <1>9, <4>1, <4>3 DEF WholeFits, PlaceFits, StreamKnows
        <5>2. n \in Thread(m)' /\ rows'[n].role = "assistant" /\ rows'[n].final
          BY <1>9, <2>2, <3>6, <5>1 DEF Thread
        <5> QED BY <5>2 DEF Answered
      <4> QED BY <1>2, <4>2, <4>3
    <3>9. ASSUME Whole(m) PROVE WholeFits(s)'
      <4>1. WholeFits(s)
        BY <1>1, <1>2, <3>9 DEF StreamKnows
      <4>2. RowsOfStream(s)' \subseteq Ids' \cup {None}
        BY <3>5, <3>6, <4>1 DEF WholeFits
      <4>3. ASSUME NEW x \in {stream[s].user, stream[s].reply, stream[s].top}, x # None
            PROVE  x \in Ids
        BY <4>1, <4>3 DEF WholeFits, RowsOfStream
      <4>4. /\ stream'[s].user # None => rows'[stream'[s].user].role = "user"
            /\ stream'[s].reply # None => rows'[stream'[s].reply].role = "assistant"
            /\ stream'[s].top # None => rows'[stream'[s].top].parent = None
        BY <3>2, <3>6, <4>1, <4>3 DEF WholeFits
      <4> QED BY <3>2, <3>8, <3>9, <4>2, <4>4 DEF WholeFits
    <3>10. ~Whole(m) => "raced" \in slips'[m]
      BY <1>1, <1>2, <2>4 DEF StreamKnows, SlipsGrow
    <3>11. StreamKnows(s)'
      <4>1. Whole(m)' <=> Whole(m)
        BY <1>2 DEF Whole
      <4> QED BY <3>2, <3>4, <3>7, <3>9, <3>10, <4>1 DEF StreamKnows
    <3>12. EndFits(s)' /\ ReplyIsNew(s)'
      BY <3>2 DEF EndFits, ReplyIsNew
    <3>13. stream[s].pc = "generated" => n = stream[s].reply
      BY <1>3
    <3>14. ASSUME NEW k, k = stream[s].root, Whole(k) PROVE Answered(k)'
      BY <1>1, <3>8, <3>14
    <3> QED BY <1>2, <2>2, <3>3, <3>11, <3>12, <3>13, <3>14, SaveReads
  <2> QED BY <1>6, <2>5, <2>6
<1> QED BY <1>8, <1>9

-----------------------------------------------------------------------------
\* A step that no stream takes: no row is made, none becomes final.
LEMMA StillReads ==
  ASSUME MaintenanceInv, ReadersInv, MaintenanceInv', Orderly, Ids' \subseteq Ids,
         UNCHANGED stream, completions' \subseteq completions, clock' <= made',
         \A n \in Ids' : rows'[n].final => rows[n].final,
         \A n \in Ids' : Whole(rows[n].root) => rows'[n].parent = rows[n].parent,
         \A d \in Deletions : DeletionKnows(d)', Ledger'
  PROVE  ReadersInv'
<1>1. PromisesKept
  BY OthersKeep DEF PromisesKept
<1>2. ASSUME NEW s \in Streams
      PROVE  StreamKnows(s)' /\ EndFits(s)' /\ ReplyIsOwn(s)' /\ ReplyIsNew(s)'
  <2>1. StreamKnows(s)' /\ EndFits(s)'
    BY <1>1, OthersKnow
  <2>2. ReplyIsOwn(s) /\ ReplyIsNew(s)
    BY DEF ReadersInv
  <2> QED BY <2>1, <2>2 DEF ReplyIsOwn, ReplyIsNew, Runs
<1>3. ASSUME NEW n \in Ids' PROVE RowShape(n)' /\ RowKept(n)'
  <2>1. TypeOK' /\ RootsExist' /\ n \in Ids' \cap Ids
    BY DEF MaintenanceInv
  <2> QED BY <1>1, <2>1, OldRowsKeep
<1> QED BY <1>2, <1>3 DEF ReadersInv

\* A deletion begins, or is cut off in the middle: a stream on its thread is marked.
LEMMA DeletionTurnsRead ==
  ASSUME MaintenanceInv, ReadersInv, MaintenanceInv', NEW d \in Deletions,
         ReadForDelete(d) \/ CutDeletion(d)
  PROVE  ReadersInv'
<1>1. /\ TypeOK /\ UNCHANGED <<rows, made, completions, clock, stream>>
      /\ deletion \in [Deletions -> DeletionType] /\ deletion[d] \in DeletionType
      /\ Ids' = Ids /\ DeletionKnows(d)
  BY DEF MaintenanceInv, ReadersInv, TypeOK, ReadForDelete, CutDeletion, tableVars, Ids
<1>2. OtherDeletions(d)
  BY <1>1 DEF ReadForDelete, CutDeletion, OtherDeletions
<1>3. /\ made \in Nat /\ Ids \subseteq 1..made /\ Ids \subseteq Id /\ None \notin Ids
      /\ \A n \in Ids : n <= made
  BY ReaderFacts
<1>4. /\ SlipsGrow /\ Deleting \subseteq Deleting'
      /\ \A m \in Deleting' \ Deleting : RunsOn(m) # {} => "raced" \in slips'[m]
      /\ DeletionKnows(d)'
      /\ deletion[d].pc = "deleting" => Excused'
  <2>1. CASE ReadForDelete(d)
    <3>1. PICK m \in Ids :
            /\ rows[m].root = m
            /\ deletion' = [deletion EXCEPT ![d] =
                 [pc |-> "deleting", thread |-> m, todo |-> Thread(m),
                  known |-> {n \in Thread(m) : rows[n].completion}, skipped |-> {}]]
            /\ Slip(IF RunsOn(m) = {} THEN {} ELSE {m}, "raced")
      BY <2>1 DEF ReadForDelete
    <3>2. /\ deletion'[d].pc = "deleting" /\ deletion'[d].thread = m
          /\ deletion'[d].todo = Thread(m)
          /\ deletion'[d].known = {n \in Thread(m) : rows[n].completion}
      BY <1>1, <3>1
    <3>3. SlipsGrow /\ (RunsOn(m) # {} => "raced" \in slips'[m])
      BY <1>1, <1>3, <3>1, Slipping DEF Happenings
    <3>4. deletion[d].pc = "idle"
      BY <2>1 DEF ReadForDelete
    <3>5. Deleting \subseteq Deleting' /\ Deleting' \subseteq Deleting \cup {m}
      BY <1>2, <3>2, <3>4 DEF Deleting, OtherDeletions
    <3>6. DeletionKnows(d)'
      <4>1. \A n \in Thread(m) : n \in Ids /\ rows[n].root = m
        BY DEF Thread
      <4>2. Thread(m)' = Thread(m)
        BY <1>1 DEF Thread
      <4>3. \A n \in deletion'[d].todo \cup deletion'[d].known :
              n <= made' /\ (n \in Ids' => rows'[n].root = m)
        BY <1>1, <1>3, <3>2, <4>1
      <4>4. \A n \in Thread(m)' : rows'[n].completion => n \in deletion'[d].known
        BY <1>1, <3>2, <4>2
      <4>5. \A k : k = deletion'[d].thread => Thread(k)' = Thread(m)'
        BY <3>2
      <4>6. Thread(deletion[d].thread)' = Thread(m)'
        BY <3>2 DEF Thread
      <4> QED BY <1>3, <3>2, <4>3, <4>4, <4>6 DEF DeletionKnows
    <3> QED BY <3>3, <3>4, <3>5, <3>6
  <2>2. CASE CutDeletion(d)
    <3> DEFINE new == [NoDeletion EXCEPT !.pc = "cut", !.thread = deletion[d].thread]
    <3>1. new.pc = "cut" /\ new.thread = deletion[d].thread
      BY DEF NoDeletion
    <3>2. deletion[d].pc = "deleting" /\ deletion' = [deletion EXCEPT ![d] = new]
      BY <2>2 DEF CutDeletion
    <3>3. deletion'[d].pc = "cut" /\ deletion'[d].thread = deletion[d].thread
      <4> HIDE DEF new
      <4> QED BY <1>1, <3>1, <3>2
    <3>4. deletion[d].thread # None /\ deletion[d].thread \in Id
      BY <1>1, <3>2 DEF DeletionKnows, DeletionType, Ref, Id, None
    <3>5. SlipsGrow /\ "halfway" \in slips'[deletion[d].thread]
      BY <1>1, <2>2, <3>4, Slipping DEF CutDeletion, Happenings
    <3>6. Deleting' = Deleting
      BY <1>2, <3>2, <3>3 DEF Deleting, OtherDeletions
    <3>7. DeletionKnows(d)'
      BY <3>3, <3>4 DEF DeletionKnows
    <3> QED BY <3>4, <3>5, <3>6, <3>7 DEF Excused
  <2> QED BY <2>1, <2>2
<1>5. Orderly
  <2>1. \A n \in Ids : n \in Ids' /\ rows'[n] = rows[n]
    BY <1>1
  <2>2. \A n : Expired(n)' <=> Expired(n)
    BY <1>1 DEF Expired
  <2> QED BY <1>1, <1>3, <1>4, <2>1, <2>2 DEF Orderly, RowStays
<1>6. ASSUME NEW e \in Deletions PROVE DeletionKnows(e)'
  <2>1. CASE e = d
    BY <1>4, <2>1
  <2>2. CASE e # d
    BY <1>1, <1>2, <1>5, <2>2, DeletionsKnow DEF OtherDeletions
  <2> QED BY <2>1, <2>2
<1>7. Ledger'
  <2> SUFFICES ASSUME ~Excused', NEW n \in completions PROVE Accounted(n)'
    BY <1>1 DEF Ledger
  <2>1. Accounted(n) /\ deletion[d].pc # "deleting"
    BY <1>4, ExcuseStays DEF ReadersInv, Ledger
  <2>2. ASSUME NEW e \in Deletions, deletion[e].pc = "deleting", n \in deletion[e].known
        PROVE  Accounted(n)'
    <3>1. deletion'[e] = deletion[e]
      BY <1>2, <2>1, <2>2 DEF OtherDeletions
    <3> QED BY <2>2, <3>1 DEF Accounted
  <2> QED BY <1>1, <2>1, <2>2 DEF Accounted
<1>8. clock' <= made'
  BY <1>1 DEF ReadersInv
<1>9. \A n \in Ids' : (rows'[n].final => rows[n].final) /\ rows'[n].parent = rows[n].parent
  BY <1>1
<1> QED BY <1>1, <1>5, <1>6, <1>7, <1>8, <1>9, StillReads

\* Completions, their rows and those who know of them stay.
LEMMA LedgerRests ==
  ASSUME ReadersInv, SlipsGrow, UNCHANGED <<completions, deletion, stream>>, Ids \subseteq Ids',
         \A n \in Ids : rows[n].completion => rows'[n].completion
  PROVE  Ledger'
<1> SUFFICES ASSUME ~Excused', NEW n \in completions PROVE Accounted(n)'
  BY DEF Ledger
<1>1. Accounted(n)
  BY ExcuseStays DEF ReadersInv, Ledger
<1> QED BY <1>1 DEF Accounted

\* Time passes, or nothing happens.
LEMMA TickReads ==
  ASSUME MaintenanceInv, ReadersInv, MaintenanceInv', Tick
  PROVE  ReadersInv'
<1>1. TypeOK /\ UNCHANGED <<rows, made, completions, stream, deletion>> /\ Ids' = Ids
  BY DEF MaintenanceInv, Tick, tableVars, Ids
<1>2. PICK n \in Ids :
        /\ rows[n].creator = Guest /\ clock < n
        /\ \A k \in Ids : rows[k].creator = Guest /\ clock < k => n <= k
        /\ clock' = n
        /\ Slip(IF RunsOn(rows[n].root) = {} THEN {} ELSE {rows[n].root}, "aged")
  BY DEF Tick
<1>3. /\ made \in Nat /\ Ids \subseteq 1..made /\ Ids \subseteq Id /\ clock \in Nat
      /\ \A k \in Ids : k <= made /\ k \in Nat /\ rows[k].root \in Ids
  BY <1>1, ReaderFacts, BoundAssumption DEF TypeOK
<1>4. SlipsGrow /\ (RunsOn(rows[n].root) # {} => "aged" \in slips'[rows[n].root])
  BY <1>1, <1>2, <1>3, Slipping DEF Happenings
<1>5. Deleting' = Deleting
  BY <1>1 DEF Deleting
<1>6. ASSUME NEW k \in Ids, Expired(k)'
      PROVE  Expired(k) \/ RunsOn(rows[k].root) = {} \/ "aged" \in slips'[rows[k].root]
  <2>1. rows[k].creator = Guest /\ k <= n
    BY <1>1, <1>2, <1>6 DEF Expired
  <2>2. CASE k <= clock
    BY <2>1, <2>2 DEF Expired
  <2>3. CASE clock < k
    <3>1. n <= k
      BY <1>2, <2>1, <2>3
    <3>2. k = n
      BY <1>3, <2>1, <3>1
    <3> QED BY <1>4, <3>2
  <2> QED BY <1>3, <2>2, <2>3
<1>7. \A k \in Ids : k \in Ids' /\ rows'[k] = rows[k]
  BY <1>1
<1>8. Orderly
  <2>1. \A k \in Ids' : k <= made => RowStays(k)
    BY <1>1, <1>7 DEF RowStays
  <2>2. \A k \in Ids : rows[k].root \notin Deleting' => k \in Ids'
    BY <1>7
  <2>3. \A k \in Ids' : Expired(k)' =>
          k \in Ids /\ (Expired(k) \/ RunsOn(rows[k].root) = {} \/ "aged" \in slips'[rows[k].root])
    BY <1>1, <1>6
  <2>4. made' \in Nat /\ made <= made'
    BY <1>1, <1>3
  <2> QED BY <1>4, <1>5, <2>1, <2>2, <2>3, <2>4 DEF Orderly
<1>9. \A d \in Deletions : DeletionKnows(d)'
  BY <1>1, <1>7, <1>8, DeletionsKnow
<1>10. Ledger'
  BY <1>1, <1>4, <1>7, LedgerRests
<1>11. clock' <= made' /\ \A k \in Ids' : (rows'[k].final => rows[k].final) /\ rows'[k].parent = rows[k].parent
  BY <1>1, <1>2, <1>3
<1> QED BY <1>1, <1>8, <1>9, <1>10, <1>11, StillReads

LEMMA NothingReads ==
  ASSUME MaintenanceInv, ReadersInv, MaintenanceInv', UNCHANGED vars
  PROVE  ReadersInv'
<1>1. UNCHANGED <<rows, made, completions, clock, stream, deletion, slips>> /\ Ids' = Ids
  BY DEF vars, tableVars, Ids
<1>2. SlipsGrow
  BY <1>1 DEF SlipsGrow
<1>3. Orderly /\ clock' <= made' /\ \A d \in Deletions : DeletionKnows(d)'
  BY <1>1, <1>2, QuietIsOrderly
<1>4. Ledger'
  BY <1>1, <1>2, LedgerRests
<1> QED BY <1>1, <1>3, <1>4, StillReads

\* The rows of the guest become the account's: what could expire no longer does.
LEMMA MigrateReads ==
  ASSUME MaintenanceInv, ReadersInv, MaintenanceInv', Migrate
  PROVE  ReadersInv'
<1>1. /\ TypeOK /\ UNCHANGED <<made, completions, clock, stream, deletion>>
      /\ rows' = [n \in Ids |-> Handed(rows[n])]
  BY DEF MaintenanceInv, Migrate
<1>2. SlipsGrow
  BY <1>1, Slipping DEF Migrate, Happenings
<1>3. Ids' = Ids
  BY <1>1 DEF Ids
<1>4. ASSUME NEW n \in Ids
      PROVE  /\ rows'[n].root = rows[n].root /\ rows'[n].role = rows[n].role
             /\ rows'[n].parent = rows[n].parent /\ rows'[n].final = rows[n].final
             /\ rows'[n].completion = rows[n].completion /\ rows'[n].creator = Account
  <2>1. rows'[n] = Handed(rows[n]) /\ rows[n] \in Row
    BY <1>1, RowTyped
  <2> QED BY <2>1 DEF Handed, Row, Client
<1>5. Deleting' = Deleting /\ \A n \in Ids' : ~Expired(n)'
  BY <1>1, <1>3, <1>4, PeopleAssumption DEF Deleting, Expired
<1>6. made \in Nat /\ Ids \subseteq 1..made
  BY ReaderFacts
<1>7. Orderly
  <2>1. \A n \in Ids : RowStays(n) /\ n \in Ids'
    BY <1>3, <1>4 DEF RowStays
  <2>2. made' = made /\ made \in Nat
    BY <1>1, <1>6
  <2> QED BY <1>2, <1>3, <1>5, <2>1, <2>2 DEF Orderly
<1>8. \A d \in Deletions : DeletionKnows(d)'
  BY <1>1, <1>3, <1>4, <1>7, DeletionsKnow
<1>9. Ledger'
  BY <1>1, <1>2, <1>3, <1>4, LedgerRests
<1>10. clock' <= made' /\ \A k \in Ids' : (rows'[k].final => rows[k].final) /\ rows'[k].parent = rows[k].parent
  BY <1>1, <1>3, <1>4 DEF ReadersInv
<1> QED BY <1>1, <1>3, <1>7, <1>8, <1>9, <1>10, StillReads

-----------------------------------------------------------------------------
\* Rows go from one thread only; the others lose nothing.
OnlyFrom(m) ==
  /\ Ids' \subseteq Ids /\ Ids \ Ids' \subseteq Thread(m)
  /\ \A n \in Ids' :
       /\ rows'[n].root = rows[n].root /\ rows'[n].role = rows[n].role
       /\ rows'[n].final = rows[n].final /\ rows'[n].completion = rows[n].completion
       /\ rows'[n].creator = rows[n].creator
       /\ rows'[n].parent = rows[n].parent \/ (rows'[n].parent = None /\ rows[n].root = m)

\* What names a row is in its thread: a cascade does not leave the thread.
LEMMA CascadeStaysInThread ==
  ASSUME MaintenanceInv, ReadersInv, NEW m, NEW gone \in SUBSET Thread(m), NEW table,
         DOMAIN table = Ids,
         \A n \in Ids : table[n].root = rows[n].root /\ table[n].parent \in {rows[n].parent, None}
  PROVE  Cascade(gone, table) \subseteq Thread(m)
<1>1. Thread(m) \in SUBSET DOMAIN table
  BY DEF Thread, Ids
<1>2. ASSUME NEW n \in DOMAIN table, Names(table[n]) \cap Thread(m) # {}
      PROVE  n \in Thread(m)
  <2>1. /\ n \in Ids /\ RowShape(n) /\ rows[n].root \in Ids
        /\ RowShape(rows[n].root) /\ None \notin Ids
    BY <1>2, ReaderFacts
  <2>2. CASE table[n].root \in Thread(m)
    BY <2>1, <2>2 DEF RowShape, Thread
  <2>3. CASE table[n].parent \in Thread(m)
    <3>1. table[n].parent \in Ids /\ rows[table[n].parent].root = m
      BY <2>3 DEF Thread
    <3>2. rows[n].parent = table[n].parent /\ rows[n].parent # None
      BY <2>1, <3>1
    <3> QED BY <2>1, <3>1, <3>2 DEF RowShape, Thread
  <2> QED BY <1>2, <2>2, <2>3 DEF Names
<1>3. Closed(Thread(m), table)
  BY <1>2 DEF Closed
<1> QED BY <1>1, <1>3 DEF Cascade

\* A thread loses rows to the deletion that has read it.
LEMMA ThreadDwindles ==
  ASSUME MaintenanceInv, ReadersInv, MaintenanceInv', NEW d \in Deletions, OtherDeletions(d),
         deletion[d].pc = "deleting", OnlyFrom(deletion[d].thread),
         UNCHANGED <<made, clock, stream, slips>>, completions' \subseteq completions,
         deletion'[d].pc # "idle", deletion'[d].thread = deletion[d].thread,
         DeletionKnows(d)',
         \A n \in completions' \cap deletion[d].known :
           deletion'[d].pc = "deleting" /\ n \in deletion'[d].known
  PROVE  ReadersInv'
<1>1. PICK m : m = deletion[d].thread
  OBVIOUS
<1>2. /\ made \in Nat /\ Ids \subseteq 1..made /\ DeletionKnows(d) /\ m \in Deleting
      /\ Ids' \subseteq Ids
  BY <1>1, ReaderFacts DEF ReadersInv, Deleting, OnlyFrom
<1>3. Deleting' = Deleting
  BY DEF Deleting, OtherDeletions
<1>4. /\ \A n \in Ids' : RowStays(n)
      /\ \A n \in Ids : rows[n].root \notin Deleting' => n \in Ids'
      /\ \A n \in Ids' : Whole(rows[n].root) => rows'[n].parent = rows[n].parent
  BY <1>1, <1>2, <1>3 DEF OnlyFrom, RowStays, Thread, Whole
<1>5. \A n \in Ids' : Expired(n)' => Expired(n)
  BY DEF OnlyFrom, Expired
<1>6. Orderly
  <2>1. SlipsGrow /\ made' \in Nat /\ made <= made'
    BY <1>2 DEF SlipsGrow
  <2> QED BY <1>2, <1>3, <1>4, <1>5, <2>1 DEF Orderly
<1>7. ASSUME NEW e \in Deletions PROVE DeletionKnows(e)'
  <2>1. \A n \in Ids' : rows'[n].completion => n \in Ids /\ rows[n].completion
    BY DEF OnlyFrom
  <2>2. CASE e # d
    BY <1>6, <2>1, <2>2, DeletionsKnow DEF OtherDeletions
  <2> QED BY <2>2
<1>8. Ledger'
  <2> SUFFICES ASSUME ~Excused', NEW n \in completions' PROVE Accounted(n)'
    BY DEF Ledger
  <2>1. ~Excused /\ Accounted(n)
    BY DEF Excused, ReadersInv, Ledger
  <2>2. ASSUME NEW e \in Deletions, deletion[e].pc = "deleting", n \in deletion[e].known
        PROVE  Accounted(n)'
    BY <2>2 DEF Accounted, OtherDeletions
  <2>3. CASE n \in Ids /\ rows[n].completion
    <3>1. CASE n \in Ids'
      BY <2>3, <3>1 DEF OnlyFrom, Accounted
    <3>2. CASE n \notin Ids'
      <4>1. n \in Thread(m)
        BY <1>1, <2>3, <3>2 DEF OnlyFrom
      <4>2. n \in deletion[d].known
        BY <1>1, <1>2, <2>1, <2>3, <4>1 DEF DeletionKnows
      <4> QED BY <2>2, <4>2
    <3> QED BY <3>1, <3>2
  <2>4. ASSUME NEW s \in Streams, n \in Ids, stream[s].pc = "generated", stream[s].reply = n
        PROVE  Accounted(n)'
    <3>1. Runs(s) /\ n \in RowsOfStream(s)
      BY <2>4 DEF Runs, Stopped, RowsOfStream
    <3>2. Whole(stream[s].root) /\ rows[n].root = stream[s].root
      BY <2>1, <2>4, <3>1, CalmIsWhole DEF ReadersInv, StreamKnows
    <3>3. n \notin Thread(m)
      BY <1>2, <3>2 DEF Thread, Whole
    <3>4. n \in Ids'
      BY <1>1, <2>4, <3>3 DEF OnlyFrom
    <3> QED BY <2>4, <3>4 DEF Accounted
  <2> QED BY <2>1, <2>2, <2>3, <2>4 DEF Accounted
<1>9. clock' <= made' /\ \A n \in Ids' : rows'[n].final => rows[n].final
  BY DEF ReadersInv, OnlyFrom
<1> QED BY <1>2, <1>4, <1>6, <1>7, <1>8, <1>9, StillReads

\* Rows are deleted with what names them.
LEMMA WithoutIsOnlyFrom ==
  ASSUME MaintenanceInv, ReadersInv, NEW m, NEW gone \in SUBSET Thread(m), NEW table,
         DOMAIN table = Ids, rows' = Without(table, gone),
         \A n \in Ids :
           /\ table[n].root = rows[n].root /\ table[n].role = rows[n].role
           /\ table[n].final = rows[n].final /\ table[n].completion = rows[n].completion
           /\ table[n].creator = rows[n].creator
           /\ table[n].parent = rows[n].parent \/ (table[n].parent = None /\ rows[n].root = m)
  PROVE  OnlyFrom(m)
<1> DEFINE lost == Cascade(gone, table)
<1>1. lost \subseteq Thread(m)
  BY CascadeStaysInThread
<1>2. Ids' = Ids \ lost /\ \A n \in Ids' : rows'[n] = table[n]
  BY DEF Without, Ids
<1> HIDE DEF lost
<1> QED BY <1>1, <1>2 DEF OnlyFrom

\* One row goes, with all that is below it.
LEMMA DeleteOneReads ==
  ASSUME MaintenanceInv, ReadersInv, MaintenanceInv', NEW d \in Deletions, DeleteOne(d)
  PROVE  ReadersInv'
<1>1. PICK m : m = deletion[d].thread
  OBVIOUS
<1>2. /\ TypeOK /\ UNCHANGED <<made, completions, clock, stream, slips>>
      /\ deletion[d].pc = "deleting" /\ DeletionKnows(d)
      /\ deletion \in [Deletions -> DeletionType] /\ deletion[d] \in DeletionType
  BY DEF MaintenanceInv, ReadersInv, TypeOK, DeleteOne
<1>3. PICK n \in deletion[d].todo :
        /\ rows' = IF Readable(n) THEN Without(Detached(rows, n), {n}) ELSE rows
        /\ deletion' = [deletion EXCEPT ![d].todo = @ \ {n},
             ![d].skipped = IF n \in Ids /\ Expired(n) THEN @ \cup {n} ELSE @]
  BY DEF DeleteOne
<1>4. /\ OtherDeletions(d)
      /\ deletion'[d].pc = "deleting" /\ deletion'[d].thread = m
      /\ deletion'[d].known = deletion[d].known /\ deletion'[d].todo \subseteq deletion[d].todo
  BY <1>1, <1>2, <1>3 DEF OtherDeletions, DeletionType
<1>5. OnlyFrom(m)
  <2>1. CASE Readable(n)
    <3>1. n \in Thread(m) /\ n # None
      BY <1>1, <1>2, <2>1, ReaderFacts DEF Readable, DeletionKnows, Thread
    <3>2. PICK table : table = Detached(rows, n)
      OBVIOUS
    <3>3. DOMAIN table = Ids
      BY <3>2 DEF Detached, Ids
    <3>4. ASSUME NEW c \in Ids
          PROVE  /\ table[c].root = rows[c].root /\ table[c].role = rows[c].role
                 /\ table[c].final = rows[c].final /\ table[c].completion = rows[c].completion
                 /\ table[c].creator = rows[c].creator
                 /\ table[c].parent = rows[c].parent
                    \/ (table[c].parent = None /\ rows[c].root = m)
      <4>1. table[c] = IF rows[c].parent = n THEN [rows[c] EXCEPT !.parent = None] ELSE rows[c]
        BY <3>2 DEF Detached, Ids
      <4>2. rows[c] \in Row
        BY <1>2, RowTyped
      <4>3. rows[c].parent = n => rows[c].root = m
        BY <3>1, ReaderFacts DEF RowShape, Thread
      <4>4. CASE rows[c].parent = n
        <5>1. table[c] = [rows[c] EXCEPT !.parent = None]
          BY <4>1, <4>4
        <5> QED BY <4>2, <4>3, <4>4, <5>1 DEF Row
      <4>5. CASE rows[c].parent # n
        BY <4>1, <4>5
      <4> QED BY <4>4, <4>5
    <3>5. {n} \in SUBSET Thread(m) /\ rows' = Without(table, {n})
      BY <1>3, <2>1, <3>1, <3>2
    <3> QED BY <3>3, <3>4, <3>5, WithoutIsOnlyFrom
  <2>2. CASE ~Readable(n)
    <3>1. rows' = rows /\ Ids' = Ids
      BY <1>3, <2>2 DEF Ids
    <3> QED BY <3>1 DEF OnlyFrom
  <2> QED BY <2>1, <2>2
<1>6. DeletionKnows(d)'
  <2>1. m # None
    BY <1>1, <1>2 DEF DeletionKnows
  <2>2. ASSUME NEW k \in deletion'[d].todo \cup deletion'[d].known
        PROVE  k <= made' /\ (k \in Ids' => rows'[k].root = m)
    BY <1>1, <1>2, <1>4, <1>5, <2>2 DEF DeletionKnows, OnlyFrom
  <2>3. Excused' <=> Excused
    BY <1>2 DEF Excused
  <2>4. ASSUME ~Excused, NEW k \in Ids', rows'[k].root = m, rows'[k].completion
        PROVE  k \in deletion'[d].known
    <3>1. k \in Thread(m) /\ rows[k].completion
      BY <1>5, <2>4 DEF OnlyFrom, Thread
    <3> QED BY <1>1, <1>2, <1>4, <2>4, <3>1 DEF DeletionKnows
  <2> QED BY <1>4, <2>1, <2>2, <2>3, <2>4 DEF DeletionKnows, Thread
<1> QED BY <1>1, <1>2, <1>4, <1>5, <1>6, ThreadDwindles

\* The completions go, with the rows that still name them.
LEMMA RemoveReads ==
  ASSUME MaintenanceInv, ReadersInv, MaintenanceInv', NEW d \in Deletions, RemoveCompletions(d)
  PROVE  ReadersInv'
<1>1. PICK m : m = deletion[d].thread
  OBVIOUS
<1> DEFINE gone == {n \in Ids \cap deletion[d].known : rows[n].completion}
<1>2. /\ TypeOK /\ UNCHANGED <<made, clock, stream, slips>>
      /\ deletion[d].pc = "deleting" /\ DeletionKnows(d)
      /\ completions' = completions \ deletion[d].known /\ rows' = Without(rows, gone)
      /\ deletion \in [Deletions -> DeletionType] /\ deletion[d] \in DeletionType
      /\ deletion' = [deletion EXCEPT ![d].pc = "done", ![d].known = {}]
  BY DEF MaintenanceInv, ReadersInv, TypeOK, RemoveCompletions, Remove, Related
<1>3. OtherDeletions(d) /\ deletion'[d].pc = "done" /\ deletion'[d].thread = m
  BY <1>1, <1>2 DEF OtherDeletions, DeletionType
<1>4. gone \in SUBSET Thread(m)
  BY <1>1, <1>2 DEF DeletionKnows, Thread
<1> HIDE DEF gone
<1>5. OnlyFrom(m)
  BY <1>2, <1>4, WithoutIsOnlyFrom DEF Ids
<1>6. DeletionKnows(d)'
  BY <1>1, <1>2, <1>3 DEF DeletionKnows
<1>7. completions' \subseteq completions /\ completions' \cap deletion[d].known = {}
  BY <1>2
<1> QED BY <1>1, <1>2, <1>3, <1>5, <1>6, <1>7, ThreadDwindles

-----------------------------------------------------------------------------
\* The first thread is a prompt and its answer.
LEMMA FirstThreadReads ==
  ASSUME NEW who \in Client, MaxRows >= 2, Init, rows = FirstThread(who),
         completions = IF who = Account THEN {2} ELSE {}
  PROVE  /\ \A n \in Ids : RowShape(n) /\ RowKept(n)
         /\ Ledger
<1>1. /\ rows[1].role = "user" /\ rows[1].root = 1 /\ rows[1].parent = None
      /\ rows[1].final /\ ~rows[1].completion
  BY DEF FirstThread
<1>2. /\ rows[2].role = "assistant" /\ rows[2].root = 1 /\ rows[2].parent = 1
      /\ rows[2].final /\ rows[2].completion = (who = Account)
  BY DEF FirstThread
<1>3. Ids = 1..2
  BY FirstTyped DEF Ids
<1>4. Ids = {1, 2} /\ None # 1
  BY <1>3 DEF None
<1>5. Answered(1)
  BY <1>2, <1>4 DEF Answered, Thread
<1>6. RowShape(1) /\ RowKept(1)
  BY <1>1, <1>5 DEF RowShape, RowKept
<1>7. RowShape(2) /\ RowKept(2)
  BY <1>1, <1>2, <1>4, <1>5 DEF RowShape, RowKept
<1>8. Ledger
  BY <1>2, <1>4 DEF Ledger, Accounted
<1> QED BY <1>4, <1>6, <1>7, <1>8

\* Nothing is known at first, and nothing has happened.
LEMMA FirstReads ==
  ASSUME Init
  PROVE  ReadersInv
<1>1. /\ \A n \in Ids : RowShape(n) /\ RowKept(n)
      /\ Ledger
  <2>1. CASE rows = <<>> /\ completions = {}
    <3>1. Ids = {}
      BY <2>1 DEF Ids
    <3> QED BY <2>1, <3>1 DEF Ledger
  <2>2. CASE MaxRows >= 2 /\ rows = FirstThread(Guest) /\ completions = {}
    BY <2>2, FirstThreadReads, PeopleAssumption DEF Client
  <2>3. CASE MaxRows >= 2 /\ rows = FirstThread(Account) /\ completions = {2}
    BY <2>3, FirstThreadReads DEF Client
  <2> QED BY <2>1, <2>2, <2>3 DEF Init
<1>2. clock <= made
  <2>1. made \in 0..MaxRows /\ clock = 0
    BY FirstTables DEF Init
  <2> QED BY <2>1, BoundAssumption
<1>3. ASSUME NEW s \in Streams
      PROVE  StreamKnows(s) /\ EndFits(s) /\ ReplyIsOwn(s) /\ ReplyIsNew(s)
  <2>1. stream[s].pc = "idle" /\ ~Runs(s)
    BY DEF Init, NoStream, Runs, Stopped
  <2> QED BY <2>1 DEF StreamKnows, EndFits, ReplyIsOwn, ReplyIsNew
<1>4. \A d \in Deletions : DeletionKnows(d)
  BY DEF Init, NoDeletion, DeletionKnows
<1> QED BY <1>1, <1>2, <1>3, <1>4 DEF ReadersInv

\* What the readers rely on holds whatever streams, deletions, time and migration do.
THEOREM ReadersAlways == Spec => []ReadersInv
<1>1. Init => ReadersInv
  BY FirstReads
<1>2. MaintenanceInv /\ MaintenanceInv' /\ ReadersInv /\ [Next]_vars => ReadersInv'
  <2> SUFFICES ASSUME MaintenanceInv, MaintenanceInv', ReadersInv, [Next]_vars
               PROVE  ReadersInv'
    OBVIOUS
  <2>1. ASSUME NEW s \in Streams, StreamStep(s) PROVE ReadersInv'
    BY <2>1, ValidateReads, ReadThreadReads, OpeningReads, AddingReads, ShowingReads, NoTurnReads,
       GenerateReads, SavingReads, CutReads DEF StreamStep
  <2>2. ASSUME NEW d \in Deletions, DeletionStep(d) PROVE ReadersInv'
    BY <2>2, DeletionTurnsRead, DeleteOneReads, RemoveReads DEF DeletionStep
  <2> QED BY <2>1, <2>2, MigrateReads, TickReads, NothingReads DEF Next
<1> QED BY <1>1, <1>2, MaintenanceAlways, PTL DEF Spec

\* A completion outlives its message only while its deletion is on the way, or where a
\* request was cut off or the two met (CompletionsGoWithTheirThread).
THEOREM CompletionsFollow == Spec => []CompletionsGoWithTheirThread
<1>1. ReadersInv => CompletionsGoWithTheirThread
  BY DEF ReadersInv, Ledger, Accounted, Excused, CompletionsGoWithTheirThread
<1> QED BY <1>1, ReadersAlways, PTL

\* The ancestors of an accepted message are found, but for rows that have expired, were
\* deleted or were migrated in between: the climb cannot go round, and all it passes is
\* of the thread (AncestorsAreFound).
THEOREM AncestorsAreThere == Spec => []AncestorsAreFound
<1>1. ReadersInv => AncestorsAreFound
  BY DEF ReadersInv, EndFits, Unseen, AncestorsAreFound
<1> QED BY <1>1, ReadersAlways, PTL

\* A stream that has ended after a turn has its thread in the list of its owner, unless
\* another one was to make the root final: that of a root that is a prompt, or one that
\* tore a branch off below a system message; it is under way, was cut off, or had no
\* turn (FinishedThreadsAreListed).
THEOREM FinishedAreListed == Spec => []FinishedThreadsAreListed
<1>1. MaintenanceInv /\ ReadersInv => FinishedThreadsAreListed
  <2> SUFFICES ASSUME MaintenanceInv, ReadersInv PROVE FinishedThreadsAreListed
    OBVIOUS
  <2>1. ASSUME NEW s \in Streams, stream[s].pc = "done", NEW m \in Ids, m = stream[s].root,
               ~Expired(m), m \notin Deleting
        PROVE  \/ m \in Listed(rows[m].creator)
               \/ /\ rows[m].role = "user" \/ "forked" \in slips[m]
                  /\ \/ RunsOn(m) # {} \/ "cut" \in slips[m]
                     \/ /\ rows[m].role = "user"
                        /\ \E q \in Streams : stream[q].pc = "unturned" /\ stream[q].root = m
    <3>1. /\ rows[m].root = m /\ RowKept(m) /\ rows[m].role \in Role
          /\ rows[m].role = "system" => rows[m].final \/ Torn(m)
      BY <2>1, RowTyped, ReaderFacts DEF ReadersInv, EndFits, Whole, Row, MaintenanceInv
    <3>2. rows[m].parent = None /\ rows[m].role # "assistant"
      BY <2>1, <3>1 DEF RowKept, Whole
    <3>3. CASE rows[m].final
      BY <2>1, <3>2, <3>3 DEF Listed
    <3>4. CASE ~rows[m].final /\ rows[m].role = "user"
      <4>1. "cut" \in slips[m] \/ \E q \in Streams : Asks(q, m) \/ Unturned(q, m)
        BY <2>1, <3>1, <3>4 DEF RowKept, Whole
      <4> QED BY <3>4, <4>1 DEF Asks, Unturned, RunsOn
    <3>5. CASE ~rows[m].final /\ rows[m].role = "system"
      <4>1. "forked" \in slips[m] /\ ("cut" \in slips[m] \/ \E q \in Streams : Closes(q, m))
        BY <3>1, <3>5 DEF Torn
      <4> QED BY <4>1 DEF Closes, RunsOn, Runs, Stopped
    <3> QED BY <3>1, <3>2, <3>3, <3>4, <3>5 DEF Role
  <2> QED BY <2>1 DEF FinishedThreadsAreListed
<1> QED BY <1>1, MaintenanceAlways, ReadersAlways, PTL

\* The list shows no thread without a final answer, but where the model's answer was an
\* error: whatever else makes a row final leaves an answer in its thread first
\* (ListedThreadsHaveAnAnswer).
THEOREM ListedAreAnswered == Spec => []ListedThreadsHaveAnAnswer
<1>1. ReadersInv => ListedThreadsHaveAnAnswer
  <2> SUFFICES ASSUME ReadersInv, NEW who \in Client, NEW m \in Listed(who),
                      NEW thread, thread = rows[m].root, thread \notin Deleting
               PROVE  \/ \E n \in Thread(thread) : rows[n].role = "assistant" /\ rows[n].final
                      \/ "error" \in slips[thread]
    BY DEF ListedThreadsHaveAnAnswer
  <2>1. m \in Ids /\ rows[m].final /\ RowKept(m)
    BY DEF Listed, ReadersInv
  <2>2. Answered(thread)
    BY <2>1 DEF RowKept, Whole
  <2> QED BY <2>2 DEF Answered
<1> QED BY <1>1, ReadersAlways, PTL

-----------------------------------------------------------------------------
\* What is shown of a message: itself, the children of what is shown, and else only
\* rows whose parent is shown.
LEMMA ShownFacts ==
  ASSUME NEW h \in Ids
  PROVE  /\ h \in Shown(h) /\ Shown(h) \subseteq Ids
         /\ \A c \in Ids : rows[c].parent \in Shown(h) => c \in Shown(h)
         /\ \A n \in Shown(h) : n # h => rows[n].parent \in Shown(h)
<1>1. h \in Shown(h) /\ Shown(h) \subseteq Ids
  BY DEF Shown
<1>2. ASSUME NEW c \in Ids, rows[c].parent \in Shown(h) PROVE c \in Shown(h)
  <2> SUFFICES ASSUME NEW set \in SUBSET Ids, h \in set,
                      \A k \in Ids : rows[k].parent \in set => k \in set
               PROVE  c \in set
    BY DEF Shown
  <2>1. rows[c].parent \in set
    BY <1>2 DEF Shown
  <2> QED BY <2>1
<1>3. ASSUME NEW n \in Shown(h), n # h, rows[n].parent \notin Shown(h) PROVE FALSE
  <2>1. PICK set : set = Shown(h) \ {n}
    OBVIOUS
  <2>2. set \in SUBSET Ids /\ h \in set
    BY <1>1, <1>3, <2>1
  <2>3. ASSUME NEW c \in Ids, rows[c].parent \in set PROVE c \in set
    BY <1>2, <1>3, <2>1, <2>3
  <2>4. n \in set
    BY <2>2, <2>3 DEF Shown
  <2> QED BY <2>1, <2>4
<1> QED BY <1>1, <1>2, <1>3

\* Each message of a thread is below exactly one of its rows without a parent: a parent
\* is older than its children, so that going up ends, and each row has only one; and
\* only the commit of a stream that found another branch makes more than one such row
\* (EachMessageIsShownOnce).
THEOREM ShownOnce == Spec => []EachMessageIsShownOnce
<1>1. MaintenanceInv /\ ReadersInv => EachMessageIsShownOnce
  <2> SUFFICES ASSUME MaintenanceInv, ReadersInv, NEW m \in WholeThreads
               PROVE  /\ m \in Heads(m)
                      /\ UNION {Shown(h) : h \in Heads(m)} = Thread(m)
                      /\ \A g, h \in Heads(m) : g # h => Shown(g) \cap Shown(h) = {}
                      /\ "forked" \notin slips[m] => Heads(m) = {m}
    BY DEF EachMessageIsShownOnce
  <2>1. m \in Ids /\ rows[m].root = m /\ Whole(m)
    <3>1. PICK n \in Ids : m = rows[n].root
      BY DEF WholeThreads
    <3> QED BY <3>1, ReaderFacts DEF WholeThreads, Whole, RowShape
  <2>2. ASSUME NEW n \in Thread(m)
        PROVE  /\ n \in Ids /\ n \in Nat /\ rows[n].root = m /\ RowKept(n)
               /\ rows[n].parent # None => rows[n].parent \in Thread(m) /\ rows[n].parent < n
    <3>1. n \in Ids /\ rows[n].root = m
      BY DEF Thread
    <3>2. /\ n \in Nat /\ RowKept(n) /\ RowShape(n) /\ rows[n].parent \in Ids \cup {None}
      BY <3>1, ReaderFacts
    <3> QED BY <3>1, <3>2 DEF RowShape, Thread
  <2>3. m \in Heads(m)
    BY <2>1, <2>2 DEF Heads, Thread, RowKept
  <2>4. ASSUME NEW h \in Heads(m)
        PROVE  /\ h \in Thread(m) /\ h \in Ids /\ rows[h].parent = None
               /\ Shown(h) \subseteq Thread(m)
    <3>1. h \in Thread(m) /\ h \in Ids /\ rows[h].parent = None
      BY DEF Heads, Thread
    <3>2. Thread(m) \in SUBSET Ids
      BY DEF Thread
    <3>3. ASSUME NEW c \in Ids, rows[c].parent \in Thread(m) PROVE c \in Thread(m)
      BY <3>3, ReaderFacts DEF RowShape, Thread
    <3>4. Shown(h) \subseteq Thread(m)
      BY <3>1, <3>2, <3>3 DEF Shown
    <3> QED BY <3>1, <3>4
  <2>5. PICK all : all = UNION {Shown(h) : h \in Heads(m)}
    OBVIOUS
  <2>6. ASSUME Thread(m) \ all # {} PROVE FALSE
    <3>1. Thread(m) \ all \in SUBSET Nat
      BY <2>2
    <3>2. PICK n \in Thread(m) \ all : \A k \in Thread(m) \ all : ~(k < n)
      BY <2>6, <3>1, Least
    <3>3. CASE rows[n].parent = None
      <4>1. n \in Heads(m) /\ n \in Ids
        BY <2>2, <3>2, <3>3 DEF Heads
      <4>2. n \in Shown(n)
        BY <4>1, ShownFacts
      <4> QED BY <2>5, <3>2, <4>1, <4>2
    <3>4. CASE rows[n].parent # None
      <4>1. rows[n].parent \in Thread(m) /\ rows[n].parent < n /\ n \in Ids
        BY <2>2, <3>2, <3>4
      <4>2. rows[n].parent \in all
        BY <3>2, <4>1
      <4>3. PICK h \in Heads(m) : rows[n].parent \in Shown(h)
        BY <2>5, <4>2
      <4>4. n \in Shown(h)
        BY <2>4, <4>1, <4>3, ShownFacts
      <4> QED BY <2>5, <3>2, <4>3, <4>4
    <3> QED BY <3>3, <3>4
  <2>7. all = Thread(m)
    BY <2>4, <2>5, <2>6
  <2>8. ASSUME NEW g \in Heads(m), NEW h \in Heads(m), g # h, Shown(g) \cap Shown(h) # {} PROVE FALSE
    <3>1. Shown(g) \cap Shown(h) \in SUBSET Nat
      BY <2>2, <2>4
    <3>2. PICK n \in Shown(g) \cap Shown(h) : \A k \in Shown(g) \cap Shown(h) : ~(k < n)
      BY <2>8, <3>1, Least
    <3>3. None \notin Shown(g) /\ None \notin Shown(h)
      BY <2>4, ReaderFacts DEF Thread
    <3>4. n # g
      BY <2>4, <2>8, <3>2, <3>3, ShownFacts
    <3>5. n # h
      BY <2>4, <2>8, <3>2, <3>3, ShownFacts
    <3>6. rows[n].parent \in Shown(g) /\ rows[n].parent \in Shown(h)
      BY <2>4, <3>2, <3>4, <3>5, ShownFacts
    <3>7. rows[n].parent < n
      BY <2>2, <2>4, <3>2, <3>3, <3>6
    <3> QED BY <3>2, <3>6, <3>7
  <2>9. ASSUME "forked" \notin slips[m], NEW h \in Heads(m), h # m PROVE FALSE
    <3>1. rows[h].root = m /\ rows[h].parent = None /\ RowKept(h)
      BY <2>2, <2>4
    <3>2. Torn(m)
      BY <2>1, <2>9, <3>1 DEF RowKept
    <3> QED BY <2>9, <3>2 DEF Torn
  <2> QED BY <2>3, <2>5, <2>7, <2>8, <2>9
<1> QED BY <1>1, MaintenanceAlways, ReadersAlways, PTL
=============================================================================
