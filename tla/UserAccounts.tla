---------------------------- MODULE UserAccounts ----------------------------
(***************************************************************************)
(* The table olmo_user and the requests that write it: PUT /user           *)
(* (user/user_service.py) and PUT /migrate-user (user/user_migrate.py).    *)
(* Each call of dao/user.py is a transaction of its own, so requests meet  *)
(* between what they read and what they write.  GET /whoami tells, from a  *)
(* row, what the user has accepted.                                        *)
(*                                                                         *)
(* A person comes first without an account, later with one.  Dates are     *)
(* those the client sends: a day passes with everything he says.  The id   *)
(* that a client may send with the dates is the one of its own row.        *)
(***************************************************************************)
EXTENDS Naturals, FiniteSets

CONSTANTS
  Calls,        \* requests that write users
  Guest,        \* the client id of the person without an account
  Account,      \* and with one
  Collections,  \* what can be accepted beside the terms: data, media
  TermsUpdate,  \* LAST_TERMS_UPDATE_DATE
  LastDay       \* dates are 1..LastDay

ASSUME ClientsAssumption == Guest # Account
ASSUME DatesAssumption   == LastDay \in Nat /\ TermsUpdate \in 1..LastDay

VARIABLES
  users,     \* rows of olmo_user, by the order of their creation
  contacts,  \* logged-in users that HubSpot knows
  call,      \* per request: progress, what it asks for, what it has read
  today,     \* the last date anyone has sent
  said,      \* history: the last dates of each client that were stored
  flaws      \* history, per client: what went wrong between two requests

userVars == <<users, contacts, call, today, said, flaws>>

-----------------------------------------------------------------------------
Never    == 0
Date     == Never..LastDay
Terms    == "terms"
Purposes == {Terms} \cup Collections
Clients  == {Guest, Account}
Consent  == [accepted : [Purposes -> Date], revoked : [Purposes -> Date]]
User     == [client : Clients, accepted : [Purposes -> Date], revoked : [Purposes -> Date]]

Silent == [accepted |-> [p \in Purposes |-> Never], revoked |-> [p \in Purposes |-> Never]]

NoRow == 0
RowsOf(who) == {n \in DOMAIN users : users[n].client = who}
Latest(a, b) == [p \in Purposes |-> IF a[p] > b[p] THEN a[p] ELSE b[p]]

\* COALESCE(new, old), column by column.
Coalesce(new, old) == [p \in Purposes |-> IF new[p] = Never THEN old[p] ELSE new[p]]

-----------------------------------------------------------------------------
(***************************************************************************)
(* dao/user.py                                                             *)
(***************************************************************************)
\* get_by_client: fetchone, any row if there are several.
GetByClient(who, found) ==
  IF RowsOf(who) = {} THEN found = NoRow ELSE found \in RowsOf(who)

\* one_or_none, in the FastAPI service: a second row is an error.
IsOneOrNone(who) == Cardinality(RowsOf(who)) <= 1

\* update: every row of the client.
Updated(who, dates) ==
  [n \in DOMAIN users |-> IF n \in RowsOf(who)
     THEN [client |-> who, accepted |-> Coalesce(dates.accepted, users[n].accepted),
           revoked |-> Coalesce(dates.revoked, users[n].revoked)]
     ELSE users[n]]

\* Wrong on purpose: an INSERT whose answer is lost is sent again.
Created_Twice(who, dates) ==
  LET k == Cardinality(DOMAIN users)
  IN  [n \in DOMAIN users \cup {k + 1, k + 2} |->
         IF n \in DOMAIN users THEN users[n]
         ELSE [client |-> who, accepted |-> dates.accepted, revoked |-> dates.revoked]]

\* create: the table refuses a row without the date of the terms.
Creatable(dates) == dates.accepted[Terms] # Never
Created(who, dates) ==
  [n \in DOMAIN users \cup {Cardinality(DOMAIN users) + 1} |->
     IF n \in DOMAIN users THEN users[n]
     ELSE [client |-> who, accepted |-> dates.accepted, revoked |-> dates.revoked]]

-----------------------------------------------------------------------------
NoCall == [pc |-> "idle", client |-> Guest, dates |-> Silent, found |-> NoRow,
           own |-> NoRow, previous |-> Silent]
CallPC == {"idle", "upsert", "store", "contact", "migrate", "merge", "move",
           "done", "failed"}

Set(c, pc) == call' = [call EXCEPT ![c].pc = pc]
Flaw(who, what) == flaws' = [flaws EXCEPT ![who] = @ \cup what]

\* What each request that is stored adds to what is known of a client.
Heard(dates, before) ==
  [accepted |-> Latest(dates.accepted, before.accepted),
   revoked  |-> Latest(dates.revoked, before.revoked)]

\* A request that arrives after a later one, or that creates a second row, as
\* it was before the first one that it looked.
Overtaken(dates, before) ==
  IF \E p \in Purposes : \/ dates.accepted[p] \in 1..(before.accepted[p] - 1)
                         \/ dates.revoked[p] \in 1..(before.revoked[p] - 1)
  THEN {"late"} ELSE {}
Doubled(who, found) == IF RowsOf(who) # {} /\ found = NoRow THEN {"doubled"} ELSE {}

\* The client sends the date of the day for what its user accepts or revokes.
SayConsent(c) ==
  /\ call[c].pc = "idle"
  /\ today < LastDay
  /\ today' = today + 1
  /\ \E who \in Clients, yes, no \in SUBSET Purposes :
       /\ yes \cap no = {} /\ yes \cup no # {}
       /\ call' = [call EXCEPT ![c] = [NoCall EXCEPT !.pc = "upsert", !.client = who,
            !.dates = [accepted |-> [p \in Purposes |-> IF p \in yes THEN today + 1 ELSE Never],
                       revoked  |-> [p \in Purposes |-> IF p \in no THEN today + 1 ELSE Never]]]]
  /\ UNCHANGED <<users, contacts, said, flaws>>

\* upsert_user: look the user up, ...
LookUp(c) ==
  /\ call[c].pc = "upsert"
  /\ \E found \in {NoRow} \cup DOMAIN users :
       /\ GetByClient(call[c].client, found)
       /\ call' = [call EXCEPT ![c].pc = "store", ![c].found = found]
  /\ UNCHANGED <<users, contacts, today, said, flaws>>

IsNew(c) == call[c].found = NoRow

\* ... update him if he was there, ...
UpdateUser(c) ==
  /\ call[c].pc = "store" /\ ~IsNew(c)
  /\ users' = Updated(call[c].client, call[c].dates)
  /\ said' = [said EXCEPT ![call[c].client] = Heard(call[c].dates, @)]
  /\ Flaw(call[c].client, Overtaken(call[c].dates, said[call[c].client]))
  /\ Set(c, "done")
  /\ UNCHANGED <<contacts, today>>

\* ... create him if he was not.
CreateUser(c) ==
  /\ call[c].pc = "store" /\ IsNew(c)
  /\ IF Creatable(call[c].dates)
     THEN /\ users' = Created(call[c].client, call[c].dates)
          /\ said' = [said EXCEPT ![call[c].client] = Heard(call[c].dates, @)]
          /\ Flaw(call[c].client, Doubled(call[c].client, call[c].found))
          /\ Set(c, IF call[c].client = Account THEN "contact" ELSE "done")
     ELSE Set(c, "failed") /\ UNCHANGED <<users, said, flaws>>
  /\ UNCHANGED <<contacts, today>>

\* create_contact: HubSpot is asked first, and may answer anything.
CreateContact(c) ==
  /\ call[c].pc = "contact"
  /\ contacts' \in {contacts, contacts \cup {call[c].client}}
  /\ Set(c, "done")
  /\ UNCHANGED <<users, today, said, flaws>>

-----------------------------------------------------------------------------
(***************************************************************************)
(* migrate_user_from_anonymous_user                                        *)
(***************************************************************************)
ReadPrevious(c) ==
  /\ call[c].pc = "idle"
  /\ \E found \in {NoRow} \cup DOMAIN users :
       /\ GetByClient(Guest, found)
       /\ call' = [call EXCEPT ![c].pc = "migrate", ![c].found = found,
            ![c].previous = IF found = NoRow THEN Silent
                            ELSE [accepted |-> users[found].accepted,
                                  revoked  |-> users[found].revoked]]
  /\ UNCHANGED <<users, contacts, today, said, flaws>>

\* The row of the account: the dates to be stored are settled with it.
ReadNew(c) ==
  /\ call[c].pc = "migrate"
  /\ \E found \in {NoRow} \cup DOMAIN users :
       /\ GetByClient(Account, found)
       /\ call' = [call EXCEPT ![c].pc = "merge", ![c].own = found,
            ![c].dates = IF found = NoRow THEN call[c].previous
                         ELSE [Silent EXCEPT !.accepted =
                                 Latest(call[c].previous.accepted, users[found].accepted)]]
  /\ UNCHANGED <<users, contacts, today, said, flaws>>

\* Both rows exist: the later dates of acceptance go to the account; the
\* dates of revocation are not carried over.
MergeUsers(c) ==
  /\ call[c].pc = "merge" /\ call[c].found # NoRow /\ call[c].own # NoRow
  /\ users' = Updated(Account, call[c].dates)
  /\ said' = [said EXCEPT ![Account] = Heard(call[c].previous, @)]
  /\ Flaw(Account, Overtaken(call[c].dates, said[Account]) \cup
            (IF \E p \in Purposes : call[c].previous.revoked[p] # Never
             THEN {"not carried"} ELSE {}))
  /\ Set(c, "move")
  /\ UNCHANGED <<contacts, today>>

\* Only the anonymous user exists: his row is copied.
CopyUser(c) ==
  /\ call[c].pc = "merge" /\ call[c].found # NoRow /\ call[c].own = NoRow
  /\ users' = Created(Account, call[c].dates)
  /\ said' = [said EXCEPT ![Account] = Heard(call[c].dates, @)]
  /\ Flaw(Account, Doubled(Account, call[c].own))
  /\ Set(c, "move")
  /\ UNCHANGED <<contacts, today>>

KeepUsers(c) ==
  /\ call[c].pc = "merge" /\ call[c].found = NoRow
  /\ Set(c, "move")
  /\ UNCHANGED <<users, contacts, today, said, flaws>>

\* Files and messages follow: see ThreadMaintenance.
MoveMessages(c) ==
  /\ call[c].pc = "move"
  /\ Set(c, "done")
  /\ UNCHANGED <<users, contacts, today, said, flaws>>

-----------------------------------------------------------------------------
UserInit ==
  /\ users = <<>>
  /\ contacts = {}
  /\ call = [c \in Calls |-> NoCall]
  /\ today = Never
  /\ said = [who \in Clients |-> Silent]
  /\ flaws = [who \in Clients |-> {}]

UserNext ==
  \E c \in Calls :
    \/ SayConsent(c) \/ LookUp(c) \/ UpdateUser(c) \/ CreateUser(c) \/ CreateContact(c)
    \/ ReadPrevious(c) \/ ReadNew(c) \/ MergeUsers(c) \/ CopyUser(c) \/ KeepUsers(c)
    \/ MoveMessages(c)

UserSpec == UserInit /\ [][UserNext]_userVars

-----------------------------------------------------------------------------
(***************************************************************************)
(* GET /whoami, of both services, from the row of the user.                *)
(***************************************************************************)
\* Wrong on purpose: terms of any date will do.
HasAcceptedTerms_Ever(user) == user.accepted[Terms] # Never

HasAcceptedTerms(user) ==
  /\ user.accepted[Terms] # Never
  /\ \/ user.accepted[Terms] >= TermsUpdate
     \/ user.revoked[Terms] # Never /\ user.revoked[Terms] >= TermsUpdate

HasAcceptedCollection(user, p) ==
  user.accepted[p] # Never /\ (user.revoked[p] = Never \/ user.revoked[p] < user.accepted[p])

-----------------------------------------------------------------------------
UserTypeOK ==
  /\ DOMAIN users \subseteq 1..Cardinality(Calls)
  /\ \A n \in DOMAIN users : users[n] \in User
  /\ contacts \subseteq {Account}
  /\ \A c \in Calls : /\ call[c].pc \in CallPC /\ call[c].client \in Clients
                      /\ call[c].dates \in Consent /\ call[c].previous \in Consent
                      /\ {call[c].found, call[c].own} \subseteq {NoRow} \cup DOMAIN users
  /\ today \in Date
  /\ said \in [Clients -> Consent]

\* A client has one row, as both services take for granted: who am I cannot be
\* answered to him with a second one.  Only two first requests of
\* a client that have both found no row make two.
OneRowPerClient ==
  \A who \in Clients : IsOneOrNone(who) \/ "doubled" \in flaws[who]

\* Someone who has revoked the terms, and has accepted older ones only.  The
\* comment and the condition below it (user_blueprint.py:53-65) answer for him
\* in opposite ways, by whether he revoked before or after the latest terms.
HasLeftOlderTerms(who) ==
  /\ said[who].accepted[Terms] \in 1..(TermsUpdate - 1)
  /\ said[who].revoked[Terms] # Never

\* Whoami tells of a user that he has accepted the latest terms exactly when he
\* has said so since they came, and what it tells of the collection of data and
\* media is his last word, that of his time without an account included: but for
\* requests that overtook each other, rows that were doubled, and the revocations
\* that the migration does not carry over.  Nothing is claimed about the terms
\* for a user who has left older ones.
ConsentIsTheLastWord ==
  \A n \in DOMAIN users : LET who == users[n].client
    IN  flaws[who] = {} =>
          /\ \/ HasLeftOlderTerms(who)
             \/ HasAcceptedTerms(users[n]) <=> said[who].accepted[Terms] >= TermsUpdate
          /\ \A p \in Collections :
               HasAcceptedCollection(users[n], p) <=> said[who].accepted[p] > said[who].revoked[p]
=============================================================================
