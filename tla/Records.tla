------------------------------- MODULE Records -------------------------------
(***************************************************************************)
(* Labels on messages and datachips (v3.py, dao/label.py, dao/datachip.py).*)
(* A request looks before it writes, and every look and every write is a   *)
(* transaction of its own, on a connection of the pool: requests of one    *)
(* user, the migration of his messages to an account and the deletion of   *)
(* the message meet in between.                                            *)
(***************************************************************************)
EXTENDS Naturals, FiniteSets, Functions

CONSTANTS
  Requests,  \* requests about records
  Visitor,   \* the client id of the person without an account
  Member,    \* and with one
  Messages,  \* messages that exist at first
  ChipNames, \* names of datachips
  Nobody     \* the record of no request

VARIABLES
  labels,   \* rows of label, by id
  chips,    \* rows of datachip, by their ref: creator and name
  messages, \* messages that exist
  request,  \* per request: progress, who makes it, what it is about
  date,     \* of the last deletion
  overlaps  \* history: <<message, creator>> labelled twice at a time, or by a migration

recordVars == <<labels, chips, messages, request, date, overlaps>>

-----------------------------------------------------------------------------
Creators == {Visitor, Member}
Refs     == Creators \X ChipNames
Open    == 0
\* first: history, the creator before a migration.
Label    == [message : Messages, first : Creators, creator : Creators, deleted : Nat]
Chip     == [creator : Creators, deleted : BOOLEAN]

NoRecord == [pc |-> "idle", creator |-> Visitor, about |-> Nobody]
RecordPC == {"idle", "create", "insert", "delete", "patch", "done", "refused", "failed"}

Go(r, pc) == request' = [request EXCEPT ![r].pc = pc]
Ask(r, pc, who, what) ==
  request' = [request EXCEPT ![r] = [pc |-> pc, creator |-> who, about |-> what]]

\* get_list, of one message and creator: deleted labels do not count.
GetList(m, who) ==
  {l \in DOMAIN labels : /\ labels[l].message = m /\ labels[l].creator = who
                         /\ labels[l].deleted = Open}

\* The total that comes with a page is read off its first row: none, none.
\* Neither offset nor limit is given here, and the page is the list.
Total(page) == Cardinality(page)

-----------------------------------------------------------------------------
(***************************************************************************)
(* Labels                                                                  *)
(***************************************************************************)
\* Wrong on purpose: the user's earlier label is not looked for.
IsUnlabelled_Always(m, who) == TRUE

IsUnlabelled(m, who) == Total(GetList(m, who)) = 0

\* create_label: 400 without the message, 422 with a label of this user.
CheckLabel(r) ==
  /\ request[r].pc = "idle"
  /\ \E m \in Messages, who \in Creators :
       Ask(r, IF m \in messages /\ IsUnlabelled(m, who) THEN "insert" ELSE "refused", who, m)
  /\ UNCHANGED <<labels, chips, messages, date, overlaps>>

\* The requests that have looked for a label of this user and found none.
Rivals(r) == {q \in Requests \ {r} : request[q] = request[r]}

\* Store.create, or the foreign key refuses a label on a message that is gone.
InsertLabel(r) ==
  LET m == request[r].about
  IN  /\ request[r].pc = "insert"
      /\ IF m \in messages
         THEN /\ labels' = [l \in DOMAIN labels \cup {r} |->
                   IF l # r THEN labels[l]
                   ELSE [message |-> m, first |-> request[r].creator,
                         creator |-> request[r].creator, deleted |-> Open]]
              /\ overlaps' = overlaps \cup {<<m, request[q].creator>> : q \in Rivals(r)}
              /\ Go(r, "done")
         ELSE Go(r, "failed") /\ UNCHANGED <<labels, overlaps>>
      /\ UNCHANGED <<chips, messages, date>>

\* Wrong on purpose: anybody deletes a label.
MayDelete_Anybody(who, l) == TRUE

MayDelete(who, l) == labels[l].creator = who

\* delete_label: 404 without the label, 403 for the label of another.
FindLabel(r) ==
  /\ request[r].pc = "idle"
  /\ \E l \in Requests, who \in Creators :
       Ask(r, IF l \in DOMAIN labels /\ MayDelete(who, l) THEN "delete" ELSE "refused", who, l)
  /\ UNCHANGED <<labels, chips, messages, date, overlaps>>

\* COALESCE(deleted, NOW()).
DeletedOn(old, now) == IF old = Open THEN now ELSE old

DeleteLabel(r) ==
  LET l == request[r].about
  IN  /\ request[r].pc = "delete"
      /\ date' = date + 1
      /\ labels' = IF l \in DOMAIN labels
                   THEN [labels EXCEPT ![l].deleted = DeletedOn(@, date + 1)] ELSE labels
      /\ Go(r, IF l \in DOMAIN labels THEN "done" ELSE "refused")
      /\ UNCHANGED <<chips, messages, overlaps>>

\* migrate_messages_to_new_user, its first statement.
MigrateLabels(r) ==
  /\ request[r].pc = "idle"
  /\ labels' = [l \in DOMAIN labels |-> [labels[l] EXCEPT !.creator = Member]]
  /\ overlaps' = overlaps \cup {<<m, Member>> : m \in {n \in messages :
       /\ GetList(n, Visitor) # {}
       /\ \/ GetList(n, Member) # {} \/ <<n, Visitor>> \in overlaps
          \/ \E q \in Requests : request[q] = [pc |-> "insert", creator |-> Member, about |-> n]}}
  /\ Go(r, "done")
  /\ UNCHANGED <<chips, messages, date>>

\* A message is deleted, and its labels with it: see ThreadMaintenance.
DeleteMessage(r) ==
  /\ request[r].pc = "idle"
  /\ \E m \in messages :
       /\ messages' = messages \ {m}
       /\ labels' = Restrict(labels, {l \in DOMAIN labels : labels[l].message # m})
  /\ Go(r, "done")
  /\ UNCHANGED <<chips, date, overlaps>>

-----------------------------------------------------------------------------
(***************************************************************************)
(* Datachips                                                               *)
(***************************************************************************)
\* Store.create: refs are unique, those of deleted chips among them.
CreateChip(r) ==
  /\ request[r].pc = "idle"
  /\ \E ref \in Refs :
       IF ref \in DOMAIN chips
       THEN Go(r, "refused") /\ UNCHANGED chips
       ELSE /\ chips' = [c \in DOMAIN chips \cup {ref} |->
                 IF c = ref THEN [creator |-> ref[1], deleted |-> FALSE] ELSE chips[c]]
            /\ Go(r, "done")
  /\ UNCHANGED <<labels, messages, date, overlaps>>

\* patch_datachip: 404 without the chip, 403 for the chip of another.
FindChip(r) ==
  /\ request[r].pc = "idle"
  /\ \E ref \in Refs, who \in Creators :
       Ask(r, IF ref \in DOMAIN chips /\ chips[ref].creator = who THEN "patch" ELSE "refused",
           who, ref)
  /\ UNCHANGED <<labels, chips, messages, date, overlaps>>

\* Store.update: a chip can be deleted, brought back, or left as it is.
PatchChip(r) ==
  /\ request[r].pc = "patch"
  /\ \E deleted \in {TRUE, FALSE, chips[request[r].about].deleted} :
       chips' = [chips EXCEPT ![request[r].about].deleted = deleted]
  /\ Go(r, "done")
  /\ UNCHANGED <<labels, messages, date, overlaps>>

-----------------------------------------------------------------------------
RecordInit ==
  /\ labels = [l \in {} |-> Nobody]
  /\ chips = [c \in {} |-> Nobody]
  /\ messages = Messages
  /\ request = [r \in Requests |-> NoRecord]
  /\ date = Open
  /\ overlaps = {}

RecordNext ==
  \E r \in Requests :
    \/ CheckLabel(r) \/ InsertLabel(r) \/ FindLabel(r) \/ DeleteLabel(r)
    \/ MigrateLabels(r) \/ DeleteMessage(r)
    \/ CreateChip(r) \/ FindChip(r) \/ PatchChip(r)

RecordSpec == RecordInit /\ [][RecordNext]_recordVars

-----------------------------------------------------------------------------
RecordTypeOK ==
  /\ DOMAIN labels \subseteq Requests /\ \A l \in DOMAIN labels : labels[l] \in Label
  /\ DOMAIN chips \subseteq Refs /\ \A c \in DOMAIN chips : chips[c] \in Chip
  /\ messages \subseteq Messages
  /\ \A r \in Requests : request[r].pc \in RecordPC /\ request[r].creator \in Creators
  /\ date \in Nat /\ overlaps \subseteq Messages \X Creators

\* A user has one open label on a message, which the interface shows as his
\* rating, unless two of his requests met, or a migration brought a second.
OneOpenLabelEach ==
  \A m \in Messages, who \in Creators :
    Cardinality(GetList(m, who)) > 1 => <<m, who>> \in overlaps

\* A label is deleted once, on a request of its creator: of him who was it
\* when the request looked, for a migration may give it away in between.
LabelsAreDeletedByTheirCreator ==
  [][\A l \in DOMAIN labels \cap DOMAIN labels' :
       labels'[l].deleted # labels[l].deleted =>
         /\ labels[l].deleted = Open
         /\ \E r \in Requests : /\ request[r].pc = "delete" /\ request'[r].pc = "done"
                                /\ request[r].about = l
                                /\ request[r].creator \in {labels[l].first, labels[l].creator}]_recordVars
=============================================================================
