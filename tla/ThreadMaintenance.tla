------------------------- MODULE ThreadMaintenance -------------------------
(***************************************************************************)
(* What happens to threads behind the back of a stream: their owner        *)
(* deletes them (message/message_service.py), the messages of an anonymous *)
(* user are given to the account he has logged in with                     *)
(* (user/user_migrate.py), they expire, or the stream itself is cut off.   *)
(* And what the two readers make of the table: the list of threads and a   *)
(* single thread (thread/get_threads_service.py, get_thread_service.py).   *)
(*                                                                         *)
(* A stream is seen here only where it reads the thread or commits, with   *)
(* one turn and without tools of the server: CreateMessage has the rest of *)
(* it.  Rows are numbered in the order of creation; a number is used    *)
(* once.  A message of an anonymous user is private and expires a day      *)
(* after its creation; no other row expires.  Who created a row therefore  *)
(* decides all three columns that migration changes.                       *)
(***************************************************************************)
EXTENDS Naturals, FiniteSets

CONSTANTS
  Streams,    \* requests that create messages
  Deletions,  \* requests that delete a thread
  Guest,      \* an anonymous user id
  Account,    \* the account the guest logs in with
  MaxRows,    \* rows ever made
  Accidents,  \* how many requests may be cut off
  Horizon     \* only the first so many rows live to expire

ASSUME PeopleAssumption == Guest # Account
ASSUME BoundAssumption  == MaxRows \in Nat /\ Accidents \in Nat /\ Horizon \in Nat

VARIABLES
  rows,         \* the message table: a row for each number in its domain
  made,         \* how many rows were ever made
  completions,  \* the rows whose completion record is committed
  clock,        \* rows of an anonymous user up to this one have expired
  stream,       \* per stream: progress, caller, parent, rows it has made
  deletion,     \* per deletion: progress, thread, rows read and still to do
  migrated,     \* the guest's messages have been migrated
  accidents,    \* requests cut off so far
  slips         \* history, per thread: what came in between

tableVars == <<rows, made, completions>>
vars == <<tableVars, clock, stream, deletion, migrated, accidents, slips>>

-----------------------------------------------------------------------------
None   == 0
Id     == 1..MaxRows
Ref    == 0..MaxRows
Client == {Guest, Account}
Role   == {"system", "user", "assistant"}

Row == [role : Role, root : Id, parent : Ref, creator : Client,
        final : BOOLEAN, completion : BOOLEAN]

Ids == DOMAIN rows
Thread(m) == {n \in Ids : rows[n].root = m}

\* get_expiration_time: one day for an anonymous user, none for others.
Expired(n) == rows[n].creator = Guest /\ n <= clock

\* The WHERE clause that every read but the one for deletion has.
Readable(n) == n \in Ids /\ ~Expired(n)

(***************************************************************************)
(* Foreign keys: a row names a root and a parent that exist, its own number*)
(* included; a row that is deleted takes the rows that name it along.      *)
(***************************************************************************)
Names(row) == {row.root, row.parent}

\* Wrong on purpose: no foreign keys.
Insertable_Always(new, row) == TRUE

Insertable(new, row) == Names(row) \subseteq Ids \cup {new, None}

\* Wrong on purpose: the foreign key of "root" does not cascade.
Closed_ParentOnly(set, table) ==
  \A n \in DOMAIN table : table[n].parent \in set => n \in set

Closed(set, table) == \A n \in DOMAIN table : Names(table[n]) \cap set # {} => n \in set

\* The smallest set that holds the deleted rows and all that name one of it.
Cascade(gone, table) ==
  {n \in DOMAIN table : \A set \in SUBSET DOMAIN table :
                          gone \subseteq set /\ Closed(set, table) => n \in set}

Without(table, gone) == [n \in DOMAIN table \ Cascade(gone, table) |-> table[n]]

-----------------------------------------------------------------------------
(***************************************************************************)
(* A stream, from its validation to the commit that makes its message      *)
(* final.  It fails on a row that is gone, and may be cut off anywhere.    *)
(***************************************************************************)
StreamPC == {"idle", "validated", "opened", "chained", "asked", "replying", "shown",
             "generated", "closing", "done", "unturned", "failed", "lost", "cut"}
Stopped  == {"idle", "done", "unturned", "failed", "lost", "cut"}

NoStream == [pc |-> "idle", client |-> Account, parent |-> None, up |-> None,
             root |-> None, top |-> None, user |-> None, reply |-> None,
             chain |-> {}, drops |-> {}]
StreamType == [pc : StreamPC, client : Client, parent : Ref, up : Ref,
               root : Ref, top : Ref, user : Ref, reply : Ref,
               chain : SUBSET Id,   \* message_chain, from the parent up, and what it made
               drops : SUBSET Id]   \* rows whose NULL parent waits for a commit

Runs(s)   == stream[s].pc \notin Stopped
RunsOn(m) == {s \in Streams : Runs(s) /\ stream[s].root = m}
Deleting  == {deletion[d].thread : d \in {e \in Deletions : deletion[e].pc # "idle"}}

Go(s, where) == stream' = [stream EXCEPT ![s].pc = where]

\* What a request knew goes with it.
End(s, where) ==
  stream' = [stream EXCEPT ![s] = [NoStream EXCEPT !.pc = where, !.root = stream[s].root]]
Slip(threads, what) ==
  slips' = [m \in Id |-> IF m \in threads THEN slips[m] \cup {what} ELSE slips[m]]

\* Wrong on purpose: only the parent is looked up, not the root.
Postable_ParentOnly(who, p) ==
  Readable(p) /\ rows[p].role # "user" /\ rows[p].creator = who

\* The validators: a prompt goes under a message of another role, in a thread
\* whose root can be read and is the caller's.
Postable(who, p) ==
  /\ Readable(p) /\ rows[p].role # "user"
  /\ Readable(rows[p].root) /\ rows[rows[p].root].creator = who

\* A prompt for a new thread, or under a message.
Validate(s) ==
  /\ stream[s].pc = "idle"
  /\ \E who \in Client, p \in {None} \cup Ids :
       /\ p # None => Postable(who, p)
       /\ stream' = [stream EXCEPT ![s] =
            [NoStream EXCEPT !.pc = "validated", !.client = who, !.parent = p,
               !.up = IF p = None THEN None ELSE rows[p].parent,
               !.root = IF p = None THEN None ELSE rows[p].root]]
       /\ Slip(IF p = None THEN {} ELSE {rows[p].root} \cap Deleting, "raced")
  /\ UNCHANGED <<tableVars, clock, deletion, migrated, accidents>>

(***************************************************************************)
(* setup_msg_thread: the parent is read again, but keeps the columns that  *)
(* validation has read; its ancestors are looked up among the rows of the  *)
(* thread that can be read.                                                *)
(***************************************************************************)
Above(s, n) == IF n = stream[s].parent THEN stream[s].up ELSE rows[n].parent

\* The rows that the climb passes, from the parent on; one that is missing ends it.
Climb(s) ==
  LET at == {n \in Thread(stream[s].root) : Readable(n)}
  IN  {n \in Ids : \A set \in SUBSET Ids :
         /\ stream[s].parent \in set
         /\ \A c \in set : Above(s, c) \in at => Above(s, c) \in set
         => n \in set}

\* The row without a parent, None if the climb does not come to it.
TopOf(s) ==
  LET tops == {n \in Climb(s) : Above(s, n) = None}
  IN  IF tops = {} THEN None ELSE CHOOSE n \in tops : TRUE

\* A missing parent is a 404, a missing ancestor a KeyError.
ReadThread(s) ==
  /\ stream[s].pc = "validated"
  /\ stream[s].parent # None
  /\ IF ~Readable(stream[s].parent)
     THEN End(s, "failed")
     ELSE LET top == TopOf(s)
          IN  IF top = None
              THEN End(s, "lost")
              ELSE stream' = [stream EXCEPT ![s].top = top, ![s].chain = Climb(s),
                                            ![s].pc = "chained"]
  /\ UNCHANGED <<tableVars, clock, deletion, migrated, accidents, slips>>

\* MessageRepository.add; a foreign key that does not hold fails the request.
Insert(s, row, field, where) ==
  /\ made < MaxRows
  /\ IF Insertable(made + 1, row)
     THEN /\ rows' = [n \in Ids \cup {made + 1} |-> IF n = made + 1 THEN row ELSE rows[n]]
          /\ made' = made + 1
          /\ stream' = [stream EXCEPT ![s].pc = where, ![s].root = row.root,
                          ![s].chain = @ \cup {made + 1},
                          ![s].top = IF stream[s].top = None THEN made + 1 ELSE @,
                          ![s][field] = made + 1]
     ELSE End(s, "failed") /\ UNCHANGED <<rows, made>>
  /\ UNCHANGED <<completions, clock, deletion, migrated, accidents, slips>>

\* Wrong on purpose: the prompt of the model is final as it is.
NewRow_FinalSystem(s, role, parent) ==
  [role |-> role, root |-> IF stream[s].root = None THEN made + 1 ELSE stream[s].root,
   parent |-> parent, creator |-> stream[s].client, final |-> role = "system",
   completion |-> FALSE]

\* Wrong on purpose: a row is its own root unless it says otherwise.
NewRow_OwnRoot(s, role, parent) ==
  [role |-> role, root |-> made + 1, parent |-> parent, creator |-> stream[s].client,
   final |-> FALSE, completion |-> FALSE]

NewRow(s, role, parent) ==
  [role |-> role, root |-> IF stream[s].root = None THEN made + 1 ELSE stream[s].root,
   parent |-> parent, creator |-> stream[s].client, final |-> FALSE, completion |-> FALSE]

\* A new thread starts with the model's system prompt, if it has one.
AddSystem(s) ==
  /\ stream[s].pc = "validated" /\ stream[s].parent = None
  /\ Insert(s, NewRow(s, "system", None), "parent", "opened")

StartThread(s) ==
  /\ stream[s].pc = "validated" /\ stream[s].parent = None
  /\ Go(s, "opened")
  /\ UNCHANGED <<tableVars, clock, deletion, migrated, accidents, slips>>

\* Two tools of a new thread have one name: its system message is there by now.
ToolsConflict(s) ==
  /\ stream[s].pc = "opened"
  /\ End(s, "failed")
  /\ UNCHANGED <<tableVars, clock, deletion, migrated, accidents, slips>>

AddUser(s) ==
  /\ stream[s].pc \in {"opened", "chained"}
  /\ Insert(s, NewRow(s, "user", stream[s].parent), "user", "asked")

\* repair_children: a message of the chain has its successor as its only child;
\* another stored child loses its parent, with the next commit.
Siblings(s) == {c \in Ids \ stream[s].chain : rows[c].parent \in stream[s].chain}

\* has_pending_tool_calls: no turn, the prompt waits for the client's answers.
\* Whether a reply above has calls, and who has answered them, is left open.
ShowPending(s) ==
  /\ stream[s].pc = "asked"
  /\ \E n \in stream[s].chain \cap Ids : rows[n].role = "assistant" /\ rows[n].final
  /\ stream' = [stream EXCEPT ![s].pc = "closing", ![s].drops = Siblings(s)]
  /\ UNCHANGED <<tableVars, clock, deletion, migrated, accidents, slips>>

\* max_steps of zero or less: the loop is skipped, nothing becomes final.
NoTurn(s) ==
  /\ stream[s].pc = "asked"
  /\ End(s, "unturned")
  /\ UNCHANGED <<tableVars, clock, deletion, migrated, accidents, slips>>

AddReply(s) ==
  /\ stream[s].pc = "asked"
  /\ Insert(s, NewRow(s, "assistant", stream[s].user), "reply", "replying")

ShowReply(s) ==
  /\ stream[s].pc = "replying"
  /\ stream' = [stream EXCEPT ![s].pc = "shown", ![s].drops = Siblings(s)]
  /\ UNCHANGED <<tableVars, clock, deletion, migrated, accidents, slips>>

\* completion.Store.create: a transaction of its own.
Create(n) == completions' = completions \cup {n}

\* The reply has come; only callers who are logged in get a completion record.
Generate(s) ==
  /\ stream[s].pc = "shown"
  /\ IF stream[s].client = Account THEN Create(stream[s].reply) ELSE UNCHANGED completions
  /\ Go(s, "generated")
  /\ UNCHANGED <<rows, made, clock, deletion, migrated, accidents, slips>>

\* An ErrorChunk ends the turn: no completion, and the reply stays as it is.
GenerateError(s) ==
  /\ stream[s].pc = "shown"
  /\ Go(s, "closing")
  /\ Slip({stream[s].root}, "error")
  /\ UNCHANGED <<tableVars, clock, deletion, migrated, accidents>>

\* The table with the NULL parents that the stream has flushed.
Unlinked(s) == [n \in Ids |-> IF n \in stream[s].drops THEN [rows[n] EXCEPT !.parent = None]
                              ELSE rows[n]]

\* MessageRepository.update; the UPDATE of a row that is gone raises.
Update(s, n, row, where) ==
  /\ IF n \in Ids
     THEN /\ rows' = [Unlinked(s) EXCEPT ![n] = row]
          /\ IF where = "done" THEN End(s, where)
             ELSE stream' = [stream EXCEPT ![s].pc = where, ![s].drops = {}]
          /\ Slip(IF stream[s].drops \cap Ids = {} THEN {} ELSE {stream[s].root}, "forked")
     ELSE UNCHANGED <<rows, slips>> /\ End(s, "failed")
  /\ UNCHANGED <<made, completions, clock, deletion, migrated, accidents>>

Saved(s, n) == [rows[n] EXCEPT !.final = TRUE, !.completion = stream[s].client = Account]

SaveReply(s) ==
  /\ stream[s].pc = "generated"
  /\ Update(s, stream[s].reply, Saved(s, stream[s].reply), "closing")

\* Wrong on purpose: the system message stays as it is.
TopIsOpen_Never(s) == FALSE

\* finalize_messages: the system message of the chain if it is not final, ...
TopIsOpen(s) ==
  stream[s].top \in Ids /\ rows[stream[s].top].role = "system" /\ ~rows[stream[s].top].final

FinalizeSystem(s) ==
  /\ stream[s].pc = "closing" /\ TopIsOpen(s)
  /\ Update(s, stream[s].top, [rows[stream[s].top] EXCEPT !.final = TRUE], "closing")

\* ... and the message of the request.
FinalizeUser(s) ==
  /\ stream[s].pc = "closing" /\ ~TopIsOpen(s)
  /\ Update(s, stream[s].user, [rows[stream[s].user] EXCEPT !.final = TRUE], "done")

\* The client goes away, the model fails, PostgreSQL ends a deadlock: the rest of the stream never runs.
Cut(s) ==
  /\ Runs(s)
  /\ accidents < Accidents
  /\ accidents' = accidents + 1
  /\ End(s, "cut")
  /\ Slip({stream[s].root}, "cut")
  /\ UNCHANGED <<tableVars, clock, deletion, migrated>>

-----------------------------------------------------------------------------
(***************************************************************************)
(* delete_message: read the rows of the thread, expired ones included,     *)
(* delete them one by one, then their completions.                         *)
(***************************************************************************)
DeletionPC == {"idle", "deleting", "done", "cut"}
NoDeletion == [pc |-> "idle", thread |-> None, todo |-> {}, known |-> {}, skipped |-> {}]
DeletionType == [pc : DeletionPC, thread : Ref, todo : SUBSET Id, known : SUBSET Id,
                 skipped : SUBSET Id]

ReadForDelete(d) ==
  /\ deletion[d].pc = "idle"
  /\ \E m \in Ids :
       /\ rows[m].root = m
       /\ deletion' = [deletion EXCEPT ![d] =
            [pc |-> "deleting", thread |-> m, todo |-> Thread(m),
             known |-> {n \in Thread(m) : rows[n].completion}, skipped |-> {}]]
       /\ Slip(IF RunsOn(m) = {} THEN {} ELSE {m}, "raced")
  /\ UNCHANGED <<tableVars, clock, stream, migrated, accidents>>

\* The session sets the parent of a deleted row's children to NULL first.
Detached(table, n) ==
  [c \in DOMAIN table |-> IF table[c].parent = n THEN [table[c] EXCEPT !.parent = None]
                          ELSE table[c]]

\* MessageRepository.delete finds no row that has expired.
DeleteOne(d) ==
  /\ deletion[d].pc = "deleting"
  /\ \E n \in deletion[d].todo :
       /\ rows' = IF Readable(n) THEN Without(Detached(rows, n), {n}) ELSE rows
       /\ deletion' = [deletion EXCEPT ![d].todo = @ \ {n},
                         ![d].skipped = IF n \in Ids /\ Expired(n) THEN @ \cup {n} ELSE @]
  /\ UNCHANGED <<made, completions, clock, stream, migrated, accidents, slips>>

\* Wrong on purpose: the completions are forgotten.
Related_None(d) == {}

Related(d) == deletion[d].known

\* completion.Store.remove; the foreign key of "completion" cascades, too.
Remove(ids) ==
  /\ completions' = completions \ ids
  /\ rows' = Without(rows, {n \in Ids \cap ids : rows[n].completion})

RemoveCompletions(d) ==
  /\ deletion[d].pc = "deleting" /\ deletion[d].todo = {}
  /\ Remove(Related(d))
  /\ deletion' = [deletion EXCEPT ![d].pc = "done", ![d].known = {}]
  /\ UNCHANGED <<made, clock, stream, migrated, accidents, slips>>

\* The server stops in the middle.
CutDeletion(d) ==
  /\ deletion[d].pc = "deleting"
  /\ accidents < Accidents
  /\ accidents' = accidents + 1
  /\ deletion' = [deletion EXCEPT ![d] =
       [NoDeletion EXCEPT !.pc = "cut", !.thread = deletion[d].thread]]
  /\ Slip({deletion[d].thread}, "halfway")
  /\ UNCHANGED <<tableVars, clock, stream, migrated>>

-----------------------------------------------------------------------------
(***************************************************************************)
(* migrate_messages_to_new_user: one UPDATE for all rows of the guest.     *)
(***************************************************************************)
\* Wrong on purpose: only finished messages are handed over.
Handed_Final(row) ==
  IF row.creator = Guest /\ row.final THEN [row EXCEPT !.creator = Account] ELSE row

Handed(row) == IF row.creator = Guest THEN [row EXCEPT !.creator = Account] ELSE row

Migrate ==
  /\ ~migrated
  /\ migrated' = TRUE
  /\ rows' = [n \in Ids |-> Handed(rows[n])]
  /\ Slip({stream[s].root : s \in {q \in Streams : Runs(q) /\ stream[q].client = Guest}},
          "moved")
  /\ UNCHANGED <<made, completions, clock, stream, deletion, accidents>>

\* Time passes: the rows of the guest that were created first expire first.
Tick ==
  /\ \E n \in Ids :
       /\ rows[n].creator = Guest /\ clock < n /\ n <= Horizon
       /\ \A k \in Ids : rows[k].creator = Guest /\ clock < k => n <= k
       /\ clock' = n
       /\ Slip(IF RunsOn(rows[n].root) = {} THEN {} ELSE {rows[n].root}, "aged")
  /\ UNCHANGED <<tableVars, stream, deletion, migrated, accidents>>

-----------------------------------------------------------------------------
\* No thread, or one of each kind of owner: a prompt and its answer.
FirstThread(who) ==
  <<[role |-> "user", root |-> 1, parent |-> None, creator |-> who, final |-> TRUE,
     completion |-> FALSE],
    [role |-> "assistant", root |-> 1, parent |-> 1, creator |-> who, final |-> TRUE,
     completion |-> who = Account]>>

Init ==
  /\ \/ rows = <<>> /\ completions = {}
     \/ /\ MaxRows >= 2
        /\ \/ rows = FirstThread(Guest) /\ completions = {}
           \/ rows = FirstThread(Account) /\ completions = {2}
  /\ made = Cardinality(DOMAIN rows)
  /\ clock = 0
  /\ stream = [s \in Streams |-> NoStream]
  /\ deletion = [d \in Deletions |-> NoDeletion]
  /\ migrated = FALSE
  /\ accidents = 0
  /\ slips = [m \in Id |-> {}]

StreamStep(s) ==
  \/ Validate(s) \/ ReadThread(s) \/ AddSystem(s) \/ StartThread(s)
  \/ ToolsConflict(s) \/ AddUser(s) \/ ShowPending(s) \/ NoTurn(s) \/ AddReply(s)
  \/ ShowReply(s) \/ Generate(s) \/ GenerateError(s) \/ SaveReply(s) \/ FinalizeSystem(s)
  \/ FinalizeUser(s) \/ Cut(s)

DeletionStep(d) ==
  ReadForDelete(d) \/ DeleteOne(d) \/ RemoveCompletions(d) \/ CutDeletion(d)

Next ==
  \/ \E s \in Streams : StreamStep(s)
  \/ \E d \in Deletions : DeletionStep(d)
  \/ Migrate
  \/ Tick

Spec == Init /\ [][Next]_vars

-----------------------------------------------------------------------------
(***************************************************************************)
(* What the readers show.                                                  *)
(***************************************************************************)
\* get_threads_for_user
Listed(who) ==
  {m \in Ids : rows[m].creator = who /\ rows[m].final /\ rows[m].parent = None
               /\ ~Expired(m)}

\* get_message_with_children: the root if it has not expired, and below it
\* every child, expired or not.
Shown(m) == {n \in Ids : \A set \in SUBSET Ids :
                m \in set /\ (\A c \in Ids : rows[c].parent \in set => c \in set) => n \in set}

-----------------------------------------------------------------------------
\* Rows, streams and deletions keep their types; rows name rows that exist.
TypeOK ==
  /\ DOMAIN rows \subseteq 1..made /\ made \in 0..MaxRows
  /\ \A n \in Ids : rows[n] \in Row /\ Names(rows[n]) \subseteq Ids \cup {None}
  /\ completions \subseteq 1..made
  /\ clock \in 0..MaxRows /\ migrated \in BOOLEAN /\ accidents \in 0..Accidents
  /\ stream \in [Streams -> StreamType]
  /\ deletion \in [Deletions -> DeletionType]
  /\ slips \in [Id -> SUBSET {"cut", "raced", "halfway", "moved", "aged", "error", "forked"}]

\* When a deletion is over no row of its thread is left, and no stream that was
\* under way adds one later; unless the root had expired when its turn came, for
\* MessageRepository.delete looks for rows that have not.
DeletedThreadsStayDeleted ==
  \A d \in Deletions : deletion[d].pc = "done" /\ deletion[d].thread \notin deletion[d].skipped
    => Thread(deletion[d].thread) = {}

\* "Remove related rows in Completion table" (message_service.py): a completion
\* outlives its message only while the deletion is on its way, or when a stream
\* was cut off before it saved the reply, a deletion and a stream met, or a
\* deletion was cut off.
CompletionsGoWithTheirThread ==
  \A n \in completions \ Ids :
    \/ \E d \in Deletions : deletion[d].pc = "deleting" /\ n \in deletion[d].known
    \/ \E m \in Id : slips[m] \cap {"cut", "raced", "halfway"} # {}

\* The rows of a thread have one owner, whoever migrates meanwhile, unless a
\* stream of the anonymous user was under way on the thread.
ThreadsHaveOneOwner ==
  \A n \in Ids : "moved" \notin slips[rows[n].root]
    => rows[n].root \in Ids /\ rows[n].creator = rows[rows[n].root].creator

\* The roots of threads that no deletion has begun on.
WholeThreads == {rows[n].root : n \in Ids} \ Deleting

Heads(m) == {h \in Thread(m) : rows[h].parent = None}

\* Streams that branch a thread tear pieces off it, but none of its messages is
\* lost or shown twice: each is below exactly one row without a parent, of its own
\* thread, and whoever opens one of those sees nothing of another thread.  Only
\* the commit of a stream that found another branch leaves a piece: else the
\* root is the only such row and opening it shows the whole thread.
EachMessageIsShownOnce ==
  \A m \in WholeThreads :
    /\ m \in Heads(m)
    /\ UNION {Shown(h) : h \in Heads(m)} = Thread(m)
    /\ \A g, h \in Heads(m) : g # h => Shown(g) \cap Shown(h) = {}
    /\ "forked" \notin slips[m] => Heads(m) = {m}

\* What the list shows belongs to a thread with an answer: never to one that has
\* only the system message of a request that failed on its tools, or a prompt
\* whose stream raised or had no turn.  A thread without an answer is listed when
\* the model's answer ended in an ErrorChunk: then the prompt becomes final.
ListedThreadsHaveAnAnswer ==
  \A who \in Client : \A m \in Listed(who) :
    LET thread == rows[m].root
    IN  \/ \E n \in Thread(thread) : rows[n].role = "assistant" /\ rows[n].final
        \/ "error" \in slips[thread]
        \/ thread \in Deleting

\* A stream that ends after a turn has its thread in the owner's list, unless
\* another one was to make the root final: the stream of a root that is a prompt,
\* or, where the streams have branched, one that still has the root in its chain;
\* and that one is under way, was cut off, or had no turn.
FinishedThreadsAreListed ==
  \A s \in Streams : stream[s].pc = "done" =>
    LET m == stream[s].root
        Unturned == \E q \in Streams : stream[q].pc = "unturned" /\ stream[q].root = m
    IN  \/ m \notin Ids \/ Expired(m)
        \/ m \in Listed(rows[m].creator)
        \/ /\ rows[m].role = "user" \/ "forked" \in slips[m]
           /\ RunsOn(m) # {} \/ "cut" \in slips[m] \/ (rows[m].role = "user" /\ Unturned)
        \/ m \in Deleting

\* The ancestors of a message that validation has accepted are there when the
\* thread is read, but for rows that expired, were deleted or were left to the
\* anonymous user by a migration in between.
AncestorsAreFound ==
  \A s \in Streams : stream[s].pc = "lost" =>
    slips[stream[s].root] \cap {"aged", "raced", "moved"} # {}
=============================================================================
