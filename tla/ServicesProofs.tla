--------------------------- MODULE ServicesProofs ---------------------------
(***************************************************************************)
(* What holds of users and of records for any number of requests, clients, *)
(* dates and messages, and that it holds of the services side by side.     *)
(*                                                                         *)
(* Users: the row of a client says what the last dates he sent say, column *)
(* by column, as long as nothing has gone wrong with him.  A migration     *)
(* settles the dates of the account a while before it stores them, so the  *)
(* inductive invariant says of a call that is under way what the dates it  *)
(* carries still have to do with the rows.                                 *)
(***************************************************************************)
EXTENDS MCServices, ModelAdminProofs

-----------------------------------------------------------------------------
(***************************************************************************)
(* Users                                                                   *)
(***************************************************************************)
Rows == Cardinality(DOMAIN users)

CallRecord == [pc : CallPC, client : Clients, dates : Consent, found : Nat, own : Nat,
               previous : Consent]

Wrongs == {"late", "doubled", "not carried"}

AccountTypes ==
  /\ Rows \in Nat
  /\ users \in [1..Rows -> User]
  /\ contacts \subseteq {Account}
  /\ call \in [Calls -> CallRecord]
  /\ today \in Date
  /\ said \in [Clients -> Consent]
  /\ flaws \in [Clients -> SUBSET Wrongs]

\* A client has one row unless two were made, ...
RowIsSingle(who) == "doubled" \in flaws[who] \/ \A m, n \in RowsOf(who) : m = n

\* ... has said nothing before he has one, ...
RowIsFirst(who) == RowsOf(who) = {} => said[who] = Silent

\* ... and it holds his last dates.
RowIsHeard(who) ==
  flaws[who] = {} => \A n \in RowsOf(who) : /\ users[n].accepted = said[who].accepted
                                            /\ users[n].revoked = said[who].revoked

\* What a call has found is still there: no row is ever deleted.
FoundStays(c) ==
  /\ {call[c].found, call[c].own} \subseteq {NoRow} \cup DOMAIN users
  /\ call[c].pc = "store" /\ call[c].found # NoRow => RowsOf(call[c].client) # {}
  /\ call[c].pc = "merge" /\ call[c].own # NoRow => RowsOf(Account) # {}
  /\ call[c].pc = "contact" => call[c].client = Account

\* The dates that a migration is going to store are those of the anonymous
\* user, or the later ones of his and of those the account had then, which
\* are no later than those the account has now.
MergeFits(c) ==
  call[c].pc = "merge" =>
    /\ call[c].own = NoRow => call[c].dates = call[c].previous
    /\ call[c].own # NoRow => call[c].dates.revoked = Silent.revoked
    /\ call[c].own # NoRow /\ flaws[Account] = {} => \A p \in Purposes :
         /\ call[c].previous.accepted[p] <= call[c].dates.accepted[p]
         /\ \/ call[c].dates.accepted[p] = call[c].previous.accepted[p]
            \/ call[c].dates.accepted[p] <= said[Account].accepted[p]

AccountInv ==
  /\ AccountTypes
  /\ \A who \in Clients : RowIsSingle(who) /\ RowIsFirst(who) /\ RowIsHeard(who)
  /\ \A c \in Calls : FoundStays(c) /\ MergeFits(c)

\* A date that is not sent keeps the old one, and one that is sent is no
\* earlier: column by column the row then holds the later one.
LEMMA CoalesceIsLatest ==
  ASSUME NEW a \in [Purposes -> Date], NEW b \in [Purposes -> Date],
         \A p \in Purposes : a[p] \notin 1..(b[p] - 1)
  PROVE  Coalesce(a, b) = Latest(a, b)
<1>1. ASSUME NEW p \in Purposes
      PROVE  (IF a[p] = Never THEN b[p] ELSE a[p]) = IF a[p] > b[p] THEN a[p] ELSE b[p]
  <2>1. a[p] \in Nat /\ b[p] \in Nat /\ (a[p] = 0 \/ a[p] >= b[p])
    BY DatesAssumption DEF Date, Never
  <2> QED
    BY <2>1 DEF Never
<1> QED
  BY <1>1, Zenon DEF Coalesce, Latest

\* Later dates and dates put together are dates.
LEMMA DatesStayDates ==
  ASSUME NEW a \in [Purposes -> Date], NEW b \in [Purposes -> Date]
  PROVE  Coalesce(a, b) \in [Purposes -> Date] /\ Latest(a, b) \in [Purposes -> Date]
BY DEF Coalesce, Latest

\* Of three columns of dates the later ones of two hold when the dates that
\* were settled earlier are stored: either they are those of the anonymous
\* user, or the account has said nothing since.
LEMMA MergedAreLatest ==
  ASSUME NEW d \in [Purposes -> Date], NEW x \in [Purposes -> Date], NEW s \in [Purposes -> Date],
         \A p \in Purposes : x[p] <= d[p] /\ (d[p] = x[p] \/ d[p] <= s[p]),
         \A p \in Purposes : d[p] \notin 1..(s[p] - 1)
  PROVE  Coalesce(d, s) = Latest(x, s)
<1>1. ASSUME NEW p \in Purposes
      PROVE  (IF d[p] = Never THEN s[p] ELSE d[p]) = IF x[p] > s[p] THEN x[p] ELSE s[p]
  <2>1. d[p] \in Nat /\ x[p] \in Nat /\ s[p] \in Nat
    BY DatesAssumption DEF Date, Never
  <2>2. x[p] <= d[p] /\ (d[p] = x[p] \/ d[p] <= s[p]) /\ (d[p] = 0 \/ d[p] >= s[p])
    BY <2>1
  <2> QED
    BY <2>1, <2>2 DEF Never
<1> QED
  BY <1>1, Zenon DEF Coalesce, Latest

\* Who has said nothing so far has said last what he says now.
LEMMA FirstWordIsLast ==
  ASSUME NEW a \in [Purposes -> Date]
  PROVE  /\ Latest(a, Silent.accepted) = a /\ Latest(a, Silent.revoked) = a
         /\ Coalesce(Silent.revoked, a) = a /\ Latest(Silent.revoked, a) = a
<1>1. \A p \in Purposes : a[p] \in Nat
  BY DatesAssumption DEF Date, Never
<1>2. /\ Silent.accepted = [p \in Purposes |-> 0]
      /\ Silent.revoked = [p \in Purposes |-> 0]
  BY DEF Silent, Never
<1>3. Latest(a, Silent.accepted) = a /\ Latest(a, Silent.revoked) = a
  BY <1>1, <1>2 DEF Latest
<1>4. Coalesce(Silent.revoked, a) = a
  BY <1>1, <1>2 DEF Coalesce, Never
<1>5. Latest(Silent.revoked, a) = a
  <2>1. \A p \in Purposes : (IF 0 > a[p] THEN 0 ELSE a[p]) = a[p]
    BY <1>1
  <2> QED
    BY <1>2, <2>1 DEF Latest
<1> QED
  BY <1>3, <1>4, <1>5

\* Nothing said is a consent like any other.
LEMMA SilentIsConsent == Silent \in Consent /\ \A p \in Purposes : Silent.accepted[p] = 0 /\ Silent.revoked[p] = 0
BY DatesAssumption DEF Silent, Consent, Date, Never

-----------------------------------------------------------------------------
\* The calls but one carry what they did, and it still fits: rows are only
\* added to, and what is known of a client only becomes later.
LEMMA Onwards ==
  ASSUME AccountInv, NEW q \in Calls, call'[q] = call[q],
         DOMAIN users \subseteq DOMAIN users',
         \A n \in DOMAIN users : users'[n].client = users[n].client,
         flaws'[Account] = {} => flaws[Account] = {},
         said'[Account].accepted \in [Purposes -> Date],
         \A p \in Purposes : said[Account].accepted[p] <= said'[Account].accepted[p]
  PROVE  FoundStays(q)' /\ MergeFits(q)'
<1>1. \A who : RowsOf(who) \subseteq RowsOf(who)'
  BY DEF RowsOf
<1>2. FoundStays(q) /\ MergeFits(q)
  BY DEF AccountInv
<1>3. FoundStays(q)'
  BY <1>1, <1>2 DEF FoundStays
<1>4. ASSUME call[q].pc = "merge", call[q].own # NoRow, flaws'[Account] = {}, NEW p \in Purposes
      PROVE  /\ call[q].previous.accepted[p] <= call[q].dates.accepted[p]
             /\ \/ call[q].dates.accepted[p] = call[q].previous.accepted[p]
                \/ call[q].dates.accepted[p] <= said'[Account].accepted[p]
  <2>1. /\ call[q].previous.accepted[p] <= call[q].dates.accepted[p]
        /\ \/ call[q].dates.accepted[p] = call[q].previous.accepted[p]
           \/ call[q].dates.accepted[p] <= said[Account].accepted[p]
    BY <1>2, <1>4 DEF MergeFits
  <2>2. call[q] \in CallRecord /\ said[Account] \in Consent
    BY DEF AccountInv, AccountTypes, Clients
  <2>3. call[q].dates.accepted[p] \in Nat /\ said[Account].accepted[p] \in Nat /\ said'[Account].accepted[p] \in Nat
    BY <2>2, DatesAssumption DEF CallRecord, Consent, Date, Never
  <2> QED
    BY <2>1, <2>3
<1>5. MergeFits(q)'
  BY <1>2, <1>4 DEF MergeFits
<1> QED
  BY <1>3, <1>5

\* A call that moves and writes no row keeps everything, if what it carries
\* fits.
LEMMA RowsKept ==
  ASSUME AccountInv, UNCHANGED <<users, said, flaws>>, NEW c \in Calls,
         contacts' \subseteq {Account}, today' \in Date,
         NEW d \in CallRecord, call' = [call EXCEPT ![c] = d],
         (FoundStays(c) /\ MergeFits(c))'
  PROVE  AccountInv'
<1> USE DEF AccountInv
<1>1. AccountTypes'
  <2>1. call' \in [Calls -> CallRecord]
    BY DEF AccountTypes
  <2>2. Rows' = Rows
    BY DEF Rows
  <2> QED
    BY <2>1, <2>2 DEF AccountTypes
<1>2. ASSUME NEW who \in Clients
      PROVE  (RowIsSingle(who) /\ RowIsFirst(who) /\ RowIsHeard(who))'
  BY DEF RowIsSingle, RowIsFirst, RowIsHeard, RowsOf
<1>3. ASSUME NEW q \in Calls
      PROVE  (FoundStays(q) /\ MergeFits(q))'
  <2>1. CASE q = c
    BY <2>1
  <2>2. CASE q # c
    <3>1. call'[q] = call[q]
      BY <2>2 DEF AccountTypes
    <3> QED
      BY <3>1 DEF FoundStays, MergeFits, RowsOf
  <2> QED
    BY <2>1, <2>2
<1> QED
  BY <1>1, <1>2, <1>3

\* An update reaches every row of a client.  If nothing has gone wrong with
\* him there is one, and it holds his last dates again.
LEMMA RowsUpdated ==
  ASSUME AccountInv, NEW who \in Clients, NEW dates \in Consent, NEW word \in Consent,
         NEW what \in SUBSET Wrongs, NEW c \in Calls, NEW pc \in {"done", "move"},
         RowsOf(who) # {},
         users' = Updated(who, dates),
         said' = [said EXCEPT ![who] = word],
         flaws' = [flaws EXCEPT ![who] = @ \cup what],
         call' = [call EXCEPT ![c].pc = pc], UNCHANGED <<contacts, today>>,
         \A p \in Purposes : said[who].accepted[p] <= word.accepted[p],
         flaws[who] = {} /\ what = {} =>
           /\ Coalesce(dates.accepted, said[who].accepted) = word.accepted
           /\ Coalesce(dates.revoked, said[who].revoked) = word.revoked
  PROVE  AccountInv'
<1>1. /\ users \in [1..Rows -> User] /\ Rows \in Nat /\ DOMAIN users = 1..Rows
      /\ call \in [Calls -> CallRecord] /\ said \in [Clients -> Consent]
      /\ flaws \in [Clients -> SUBSET Wrongs]
  BY DEF AccountInv, AccountTypes
<1>2. DOMAIN users' = DOMAIN users /\ Rows' = Rows
  BY DEF Updated, Rows
<1>3. /\ dates.accepted \in [Purposes -> Date] /\ dates.revoked \in [Purposes -> Date]
      /\ word.accepted \in [Purposes -> Date]
  BY DEF Consent
<1>4. ASSUME NEW n \in DOMAIN users
      PROVE  users'[n] \in User /\ users'[n].client = users[n].client
  <2>1. users[n] \in User
    BY <1>1
  <2>2. CASE n \notin RowsOf(who)
    BY <2>1, <2>2 DEF Updated
  <2>3. CASE n \in RowsOf(who)
    <3>1. users'[n] = [client |-> who, accepted |-> Coalesce(dates.accepted, users[n].accepted),
                       revoked |-> Coalesce(dates.revoked, users[n].revoked)]
      BY <2>3 DEF Updated
    <3>2. users[n].accepted \in [Purposes -> Date] /\ users[n].revoked \in [Purposes -> Date]
      BY <2>1 DEF User
    <3>3. /\ Coalesce(dates.accepted, users[n].accepted) \in [Purposes -> Date]
          /\ Coalesce(dates.revoked, users[n].revoked) \in [Purposes -> Date]
      BY <1>3, <3>2, DatesStayDates
    <3>4. users[n].client = who
      BY <2>3 DEF RowsOf
    <3> QED
      BY <3>1, <3>3, <3>4 DEF User
  <2> QED
    BY <2>2, <2>3
<1>5. \A k : RowsOf(k)' = RowsOf(k)
  BY <1>2, <1>4 DEF RowsOf
<1>6. AccountTypes'
  <2>1. users' \in [1..Rows' -> User]
    BY <1>1, <1>2, <1>4 DEF Updated
  <2>2. call' \in [Calls -> CallRecord]
    BY ZenonT(40), <1>1 DEF CallRecord, CallPC
  <2>3. said' \in [Clients -> Consent] /\ flaws' \in [Clients -> SUBSET Wrongs]
    BY <1>1
  <2> QED
    BY <1>1, <1>2, <2>1, <2>2, <2>3 DEF AccountInv, AccountTypes
<1>7. ASSUME NEW k \in Clients
      PROVE  (RowIsSingle(k) /\ RowIsFirst(k) /\ RowIsHeard(k))'
  <2>1. RowIsSingle(k) /\ RowIsFirst(k) /\ RowIsHeard(k)
    BY DEF AccountInv
  <2>2. flaws[k] \subseteq flaws'[k]
    BY <1>1
  <2>3. RowIsSingle(k)'
    BY <1>5, <2>1, <2>2 DEF RowIsSingle
  <2>4. RowIsFirst(k)'
    BY <1>1, <1>5, <2>1 DEF RowIsFirst
  <2>5. RowIsHeard(k)'
    <3>1. CASE k # who
      <4>1. said'[k] = said[k] /\ \A n \in RowsOf(k) : users'[n] = users[n]
        BY <1>1, <3>1 DEF Updated, RowsOf
      <4> QED
        BY <1>5, <2>1, <2>2, <4>1 DEF RowIsHeard
    <3>2. CASE k = who
      <4> SUFFICES ASSUME flaws'[who] = {}, NEW n \in RowsOf(who)
                   PROVE  /\ users'[n].accepted = said'[who].accepted
                          /\ users'[n].revoked = said'[who].revoked
        BY <1>5, <3>2 DEF RowIsHeard
      <4>1. flaws[who] = {} /\ what = {}
        BY <1>1
      <4>2. users[n].accepted = said[who].accepted /\ users[n].revoked = said[who].revoked
        BY <2>1, <3>2, <4>1 DEF RowIsHeard
      <4>3. /\ users'[n].accepted = Coalesce(dates.accepted, users[n].accepted)
            /\ users'[n].revoked = Coalesce(dates.revoked, users[n].revoked)
        BY DEF Updated, RowsOf
      <4>4. said'[who] = word
        BY <1>1
      <4> QED
        BY <4>1, <4>2, <4>3, <4>4
    <3> QED
      BY <3>1, <3>2
  <2> QED
    BY <2>3, <2>4, <2>5
<1>8. ASSUME NEW q \in Calls
      PROVE  (FoundStays(q) /\ MergeFits(q))'
  <2>1. CASE q = c
    <3>1. FoundStays(c)
      BY DEF AccountInv
    <3>2. call'[c].pc = pc /\ call'[c].found = call[c].found /\ call'[c].own = call[c].own
      BY <1>1 DEF CallRecord
    <3> QED
      BY <1>2, <2>1, <3>1, <3>2 DEF FoundStays, MergeFits
  <2>2. CASE q # c
    <3>1. call'[q] = call[q]
      BY <1>1, <2>2
    <3>2. Account \in Clients
      BY DEF Clients
    <3>3. flaws'[Account] = {} => flaws[Account] = {}
      BY <1>1, <3>2
    <3>4. said'[Account].accepted \in [Purposes -> Date]
      BY <1>1, <1>3, <3>2 DEF Consent
    <3>5. \A p \in Purposes : said[Account].accepted[p] <= said'[Account].accepted[p]
      <4>1. CASE who = Account
        BY <1>1, <4>1
      <4>2. CASE who # Account
        <5>1. said'[Account] = said[Account] /\ said[Account].accepted \in [Purposes -> Date]
          BY <1>1, <3>2, <4>2 DEF Consent
        <5> QED
          BY <5>1, DatesAssumption DEF Date, Never
      <4> QED
        BY <4>1, <4>2
    <3> QED
      BY <1>2, <1>4, <3>1, <3>3, <3>4, <3>5, Onwards
  <2> QED
    BY <2>1, <2>2
<1> QED
  BY <1>6, <1>7, <1>8 DEF AccountInv

\* A row that is added is the first of its client, unless two were made.
LEMMA RowAdded ==
  ASSUME AccountInv, NEW who \in Clients, NEW dates \in Consent, NEW c \in Calls, NEW pc \in {"done", "move", "contact"},
         pc = "contact" => call[c].client = Account,
         users' = Created(who, dates),
         said' = [said EXCEPT ![who] = Heard(dates, @)],
         flaws' = [flaws EXCEPT ![who] = @ \cup Doubled(who, NoRow)],
         call' = [call EXCEPT ![c].pc = pc], UNCHANGED <<contacts, today>>
  PROVE  AccountInv'
<1>1. /\ users \in [1..Rows -> User] /\ Rows \in Nat /\ DOMAIN users = 1..Rows
      /\ call \in [Calls -> CallRecord] /\ said \in [Clients -> Consent]
      /\ flaws \in [Clients -> SUBSET Wrongs]
  BY DEF AccountInv, AccountTypes
<1> DEFINE row == [client |-> who, accepted |-> dates.accepted, revoked |-> dates.revoked]
<1>2. row \in User
  BY DEF User, Consent
<1>3. /\ DOMAIN users' = 1..(Rows + 1)
      /\ users' = [n \in 1..(Rows + 1) |-> IF n \in 1..Rows THEN users[n] ELSE row]
  BY <1>1 DEF Created, Rows
<1>4. Rows' = Rows + 1
  <2> DEFINE last == Rows + 1
  <2>1. 1 \in Int /\ last \in Int /\ ~(1 > last) /\ last - 1 + 1 = last
    BY <1>1
  <2> HIDE DEF last
  <2>2. Cardinality(1..last) = last
    <3>1. Cardinality(1..last) = IF 1 > last THEN 0 ELSE last - 1 + 1
      BY <2>1, FS_Interval, Zenon
    <3> QED
      BY <2>1, <3>1
  <2> QED
    BY <1>3, <2>2 DEF Rows, last
<1>5. (\A n \in 1..Rows : users'[n] = users[n]) /\ users'[Rows + 1] = row
  BY <1>1, <1>3
<1>6. RowsOf(who)' = RowsOf(who) \cup {Rows + 1} /\ \A k : k # who => RowsOf(k)' = RowsOf(k)
  <2>1. row.client = who
    OBVIOUS
  <2> HIDE DEF row
  <2> QED
    BY <1>1, <1>3, <1>5, <2>1 DEF RowsOf
<1>7. /\ Doubled(who, NoRow) \in SUBSET Wrongs
      /\ Doubled(who, NoRow) = {} => RowsOf(who) = {}
      /\ RowsOf(who) # {} => "doubled" \in Doubled(who, NoRow)
  BY DEF Doubled, Wrongs
<1> DEFINE what == Doubled(who, NoRow)
           word == Heard(dates, said[who])
<1>8. word \in Consent /\ \A p \in Purposes : said[who].accepted[p] <= word.accepted[p]
  <2>1. /\ dates.accepted \in [Purposes -> Date] /\ dates.revoked \in [Purposes -> Date]
        /\ said[who].accepted \in [Purposes -> Date] /\ said[who].revoked \in [Purposes -> Date]
    BY <1>1 DEF Consent
  <2>2. word.accepted = Latest(dates.accepted, said[who].accepted) /\ word.revoked = Latest(dates.revoked, said[who].revoked)
    BY DEF Heard
  <2>3. word \in Consent
    <3>1. word = [accepted |-> word.accepted, revoked |-> word.revoked]
      BY DEF Heard
    <3> QED
      BY <2>1, <2>2, <3>1, DatesStayDates DEF Consent
  <2>4. \A p \in Purposes : dates.accepted[p] \in Nat /\ said[who].accepted[p] \in Nat
    BY <2>1, DatesAssumption DEF Date, Never
  <2>5. \A p \in Purposes : said[who].accepted[p] <= Latest(dates.accepted, said[who].accepted)[p]
    BY <2>4 DEF Latest
  <2> QED
    BY <2>2, <2>3, <2>5
<1>9. said' = [said EXCEPT ![who] = word] /\ flaws' = [flaws EXCEPT ![who] = @ \cup what]
  OBVIOUS
<1> HIDE DEF what, word
<1>10. AccountTypes'
  <2>1. users' \in [1..Rows' -> User]
    <3> HIDE DEF row
    <3> QED
      BY <1>1, <1>2, <1>3, <1>4
  <2>2. call' \in [Calls -> CallRecord]
    BY ZenonT(40), <1>1 DEF CallRecord, CallPC
  <2>3. said' \in [Clients -> Consent]
    BY <1>1, <1>8, <1>9
  <2>4. flaws' \in [Clients -> SUBSET Wrongs]
    BY <1>1, <1>7, <1>9 DEF what
  <2> QED
    BY <1>1, <1>4, <2>1, <2>2, <2>3, <2>4 DEF AccountInv, AccountTypes
<1>11. ASSUME NEW k \in Clients
       PROVE  (RowIsSingle(k) /\ RowIsFirst(k) /\ RowIsHeard(k))'
  <2>1. RowIsSingle(k) /\ RowIsFirst(k) /\ RowIsHeard(k)
    BY DEF AccountInv
  <2>2. CASE k # who
    <3>1. said'[k] = said[k] /\ flaws'[k] = flaws[k] /\ \A n \in RowsOf(k) : users'[n] = users[n]
      BY <1>1, <1>5, <1>9, <2>2 DEF RowsOf
    <3> QED
      BY <1>6, <2>1, <2>2, <3>1 DEF RowIsSingle, RowIsFirst, RowIsHeard
  <2>3. CASE k = who
    <3>1. flaws'[who] = flaws[who] \cup what
      BY <1>1, <1>9
    <3>2. RowIsSingle(who)'
      BY <1>6, <1>7, <3>1 DEF RowIsSingle, what
    <3>3. RowIsFirst(who)'
      BY <1>6 DEF RowIsFirst
    <3>4. RowIsHeard(who)'
      <4> SUFFICES ASSUME flaws'[who] = {}, NEW n \in RowsOf(who)'
                   PROVE  /\ users'[n].accepted = said'[who].accepted
                          /\ users'[n].revoked = said'[who].revoked
        BY DEF RowIsHeard
      <4>1. RowsOf(who) = {}
        BY <1>7, <3>1 DEF what
      <4>2. n = Rows + 1 /\ said[who] = Silent
        BY <1>6, <2>1, <2>3, <4>1 DEF RowIsFirst
      <4>3. said'[who] = word
        BY <1>1, <1>9
      <4>4. word.accepted = dates.accepted /\ word.revoked = dates.revoked
        <5>1. dates.accepted \in [Purposes -> Date] /\ dates.revoked \in [Purposes -> Date]
          BY DEF Consent
        <5> QED
          BY <4>2, <5>1, FirstWordIsLast DEF word, Heard
      <4>5. users'[n].accepted = dates.accepted /\ users'[n].revoked = dates.revoked
        BY <1>5, <4>2
      <4> QED
        BY <4>3, <4>4, <4>5
    <3> QED
      BY <2>3, <3>2, <3>3, <3>4
  <2> QED
    BY <2>2, <2>3
<1>12. ASSUME NEW q \in Calls
       PROVE  (FoundStays(q) /\ MergeFits(q))'
  <2>1. CASE q = c
    <3>1. FoundStays(c)
      BY DEF AccountInv
    <3>2. /\ call'[c].pc = pc /\ call'[c].found = call[c].found /\ call'[c].own = call[c].own
          /\ call'[c].client = call[c].client
      BY <1>1 DEF CallRecord
    <3>3. DOMAIN users \subseteq DOMAIN users'
      BY <1>1, <1>3
    <3> QED
      BY <2>1, <3>1, <3>2, <3>3 DEF FoundStays, MergeFits
  <2>2. CASE q # c
    <3>1. call'[q] = call[q]
      BY <1>1, <2>2
    <3>2. Account \in Clients
      BY DEF Clients
    <3>3. flaws'[Account] = {} => flaws[Account] = {}
      BY <1>1, <1>9, <3>2
    <3>4. said'[Account].accepted \in [Purposes -> Date]
      <4>1. said'[Account] \in Consent
        BY <1>1, <1>8, <1>9, <3>2
      <4> QED
        BY <4>1 DEF Consent
    <3>5. \A p \in Purposes : said[Account].accepted[p] <= said'[Account].accepted[p]
      <4>1. CASE who = Account
        BY <1>1, <1>8, <1>9, <4>1
      <4>2. CASE who # Account
        <5>1. said'[Account] = said[Account] /\ said[Account].accepted \in [Purposes -> Date]
          BY <1>1, <1>9, <3>2, <4>2 DEF Consent
        <5> QED
          BY <5>1, DatesAssumption DEF Date, Never
      <4> QED
        BY <4>1, <4>2
    <3>6. DOMAIN users \subseteq DOMAIN users' /\ \A n \in DOMAIN users : users'[n].client = users[n].client
      BY <1>1, <1>3, <1>5
    <3> QED
      BY <3>1, <3>3, <3>4, <3>5, <3>6, Onwards
  <2> QED
    BY <2>1, <2>2
<1> QED
  BY <1>10, <1>11, <1>12 DEF AccountInv

\* The dates of a row are dates, and an account that is asked for has a row.
LEMMA FoundFits ==
  ASSUME AccountInv, NEW who, NEW n, GetByClient(who, n)
  PROVE  /\ n \in Nat /\ n \in {NoRow} \cup DOMAIN users
         /\ n # NoRow => /\ RowsOf(who) # {} /\ n \in RowsOf(who)
                         /\ [accepted |-> users[n].accepted, revoked |-> users[n].revoked] \in Consent
<1>1. Rows \in Nat /\ users \in [1..Rows -> User]
  BY DEF AccountInv, AccountTypes
<1>2. CASE RowsOf(who) = {}
  BY <1>2 DEF GetByClient, NoRow
<1>3. CASE RowsOf(who) # {}
  <2>1. n \in RowsOf(who) /\ n \in 1..Rows /\ n \in DOMAIN users
    BY <1>1, <1>3 DEF GetByClient, RowsOf
  <2>2. users[n] \in User
    BY <1>1, <2>1
  <2>3. [accepted |-> users[n].accepted, revoked |-> users[n].revoked] \in Consent
    BY <2>2 DEF User, Consent
  <2> QED
    BY <1>1, <1>3, <2>1, <2>3
<1> QED
  BY <1>2, <1>3

\* What a call says is put together of dates of the day and silence.
LEMMA SayConsentKeeps ==
  ASSUME AccountInv, NEW c \in Calls, SayConsent(c)
  PROVE  AccountInv'
<1>1. PICK who \in Clients, yes, no \in SUBSET Purposes :
        /\ yes \cap no = {} /\ yes \cup no # {}
        /\ call' = [call EXCEPT ![c] = [NoCall EXCEPT !.pc = "upsert", !.client = who,
            !.dates = [accepted |-> [p \in Purposes |-> IF p \in yes THEN today + 1 ELSE Never],
                       revoked  |-> [p \in Purposes |-> IF p \in no THEN today + 1 ELSE Never]]]]
  BY DEF SayConsent
<1> DEFINE dates == [accepted |-> [p \in Purposes |-> IF p \in yes THEN today + 1 ELSE Never],
                     revoked  |-> [p \in Purposes |-> IF p \in no THEN today + 1 ELSE Never]]
           d == [NoCall EXCEPT !.pc = "upsert", !.client = who, !.dates = dates]
<1>2. call' = [call EXCEPT ![c] = d]
  BY <1>1
<1>3. today \in Date /\ today + 1 \in Date /\ Never \in Date
  BY DatesAssumption DEF AccountInv, AccountTypes, SayConsent, Date, Never
<1>4. dates \in Consent
  BY <1>3 DEF Consent
<1> HIDE DEF dates
<1>5. NoCall \in CallRecord /\ NoCall.found = NoRow /\ NoCall.own = NoRow
  BY SilentIsConsent DEF NoCall, CallRecord, CallPC, NoRow, Clients
<1>6. d \in CallRecord /\ d.pc = "upsert" /\ d.found = NoRow /\ d.own = NoRow
  BY <1>4, <1>5 DEF CallRecord, CallPC
<1> HIDE DEF d
<1>7. call'[c] = d
  BY <1>2 DEF AccountInv, AccountTypes
<1>8. (FoundStays(c) /\ MergeFits(c))'
  <2>1. call'[c].pc = "upsert" /\ call'[c].found = NoRow /\ call'[c].own = NoRow
    BY <1>6, <1>7
  <2> QED
    BY <2>1 DEF FoundStays, MergeFits
<1>9. UNCHANGED <<users, said, flaws>> /\ contacts' \subseteq {Account} /\ today' \in Date
  BY <1>3 DEF SayConsent, AccountInv, AccountTypes
<1> QED
  BY <1>2, <1>6, <1>8, <1>9, RowsKept

\* A step that only goes on keeps everything.
LEMMA GoingOnKeeps ==
  ASSUME AccountInv, NEW c \in Calls, NEW pc \in CallPC \ {"store", "merge", "contact"},
         call' = [call EXCEPT ![c].pc = pc], UNCHANGED <<users, said, flaws, today>>,
         contacts' \subseteq {Account}
  PROVE  AccountInv'
<1> DEFINE d == [call[c] EXCEPT !.pc = pc]
<1>1. call \in [Calls -> CallRecord] /\ today \in Date
  BY DEF AccountInv, AccountTypes
<1>2. d \in CallRecord /\ call' = [call EXCEPT ![c] = d]
  BY <1>1 DEF CallRecord
<1>3. call'[c].pc = pc /\ call'[c].found = call[c].found /\ call'[c].own = call[c].own
  BY <1>1 DEF CallRecord
<1>4. FoundStays(c)
  BY DEF AccountInv
<1>5. (FoundStays(c) /\ MergeFits(c))'
  BY <1>3, <1>4 DEF FoundStays, MergeFits
<1> HIDE DEF d
<1> QED
  BY <1>1, <1>2, <1>5, RowsKept

\* A user that is looked up is one of those with the id.
LEMMA LookUpKeeps ==
  ASSUME AccountInv, NEW c \in Calls, LookUp(c)
  PROVE  AccountInv'
<1>1. PICK found \in {NoRow} \cup DOMAIN users :
        /\ GetByClient(call[c].client, found)
        /\ call' = [call EXCEPT ![c].pc = "store", ![c].found = found]
  BY DEF LookUp
<1>2. call \in [Calls -> CallRecord] /\ today \in Date /\ contacts \subseteq {Account}
  BY DEF AccountInv, AccountTypes
<1>3. found \in Nat /\ (found # NoRow => RowsOf(call[c].client) # {})
  <2>1. PICK who : who = call[c].client
    OBVIOUS
  <2> QED
    BY <1>1, <2>1, FoundFits
<1> DEFINE d == [call[c] EXCEPT !.pc = "store", !.found = found]
<1>4. d \in CallRecord /\ call' = [call EXCEPT ![c] = d]
  BY <1>1, <1>2, <1>3 DEF CallRecord, CallPC
<1>5. /\ call'[c].pc = "store" /\ call'[c].found = found /\ call'[c].own = call[c].own
      /\ call'[c].client = call[c].client
  BY <1>1, <1>2 DEF CallRecord
<1>6. UNCHANGED <<users, said, flaws, contacts, today>>
  BY DEF LookUp
<1>7. FoundStays(c)
  BY DEF AccountInv
<1>8. (FoundStays(c) /\ MergeFits(c))'
  BY <1>1, <1>3, <1>5, <1>6, <1>7 DEF FoundStays, MergeFits, RowsOf
<1> HIDE DEF d
<1> QED
  BY <1>2, <1>4, <1>6, <1>8, RowsKept

\* What is read of the anonymous user is a consent.
LEMMA ReadPreviousKeeps ==
  ASSUME AccountInv, NEW c \in Calls, ReadPrevious(c)
  PROVE  AccountInv'
<1>1. PICK found \in {NoRow} \cup DOMAIN users :
        /\ GetByClient(Guest, found)
        /\ call' = [call EXCEPT ![c].pc = "migrate", ![c].found = found,
             ![c].previous = IF found = NoRow THEN Silent
                             ELSE [accepted |-> users[found].accepted,
                                   revoked  |-> users[found].revoked]]
  BY DEF ReadPrevious
<1> DEFINE said0 == IF found = NoRow THEN Silent
                    ELSE [accepted |-> users[found].accepted, revoked |-> users[found].revoked]
<1>2. call \in [Calls -> CallRecord] /\ today \in Date /\ contacts \subseteq {Account}
  BY DEF AccountInv, AccountTypes
<1>3. found \in Nat /\ said0 \in Consent
  BY <1>1, FoundFits, SilentIsConsent
<1>4. call' = [call EXCEPT ![c].pc = "migrate", ![c].found = found, ![c].previous = said0]
  BY <1>1
<1> HIDE DEF said0
<1> DEFINE d == [call[c] EXCEPT !.pc = "migrate", !.found = found, !.previous = said0]
<1>5. d \in CallRecord /\ call' = [call EXCEPT ![c] = d]
  BY <1>2, <1>3, <1>4 DEF CallRecord, CallPC
<1>6. call'[c].pc = "migrate" /\ call'[c].found = found /\ call'[c].own = call[c].own
  BY <1>2, <1>4 DEF CallRecord
<1>7. UNCHANGED <<users, said, flaws, contacts, today>>
  BY DEF ReadPrevious
<1>8. FoundStays(c)
  BY DEF AccountInv
<1>9. (FoundStays(c) /\ MergeFits(c))'
  BY <1>1, <1>6, <1>7, <1>8 DEF FoundStays, MergeFits
<1> HIDE DEF d
<1> QED
  BY <1>2, <1>5, <1>7, <1>9, RowsKept

\* The dates a migration settles are the later ones of the two rows, and the
\* row of the account holds what it has said last.
LEMMA ReadNewKeeps ==
  ASSUME AccountInv, NEW c \in Calls, ReadNew(c)
  PROVE  AccountInv'
<1>1. PICK found \in {NoRow} \cup DOMAIN users :
        /\ GetByClient(Account, found)
        /\ call' = [call EXCEPT ![c].pc = "merge", ![c].own = found,
             ![c].dates = IF found = NoRow THEN call[c].previous
                          ELSE [Silent EXCEPT !.accepted =
                                  Latest(call[c].previous.accepted, users[found].accepted)]]
  BY DEF ReadNew
<1>2. call \in [Calls -> CallRecord] /\ today \in Date /\ contacts \subseteq {Account} /\ call[c].previous \in Consent
  BY DEF AccountInv, AccountTypes, CallRecord
<1>3. /\ found \in Nat
      /\ found # NoRow => RowsOf(Account) # {} /\ found \in RowsOf(Account)
      /\ found # NoRow => [accepted |-> users[found].accepted, revoked |-> users[found].revoked] \in Consent
  BY <1>1, FoundFits
<1> DEFINE x == call[c].previous
           late == [Silent EXCEPT !.accepted = Latest(x.accepted, users[found].accepted)]
           dates == IF found = NoRow THEN x ELSE late
<1>4. x.accepted \in [Purposes -> Date]
  BY <1>2 DEF Consent
<1>5. ASSUME found # NoRow
      PROVE  /\ users[found].accepted \in [Purposes -> Date]
             /\ late \in Consent /\ late.revoked = Silent.revoked
             /\ late.accepted = Latest(x.accepted, users[found].accepted)
  <2>1. users[found].accepted \in [Purposes -> Date]
    BY <1>3, <1>5 DEF Consent
  <2>2. Latest(x.accepted, users[found].accepted) \in [Purposes -> Date]
    BY <1>4, <2>1, DatesStayDates
  <2> QED
    BY <2>1, <2>2, SilentIsConsent DEF Consent, Silent
<1>6. dates \in Consent /\ call' = [call EXCEPT ![c].pc = "merge", ![c].own = found, ![c].dates = dates]
  BY <1>1, <1>2, <1>5
<1>7. found = NoRow => dates = x
  OBVIOUS
<1>8. found # NoRow => dates = late
  OBVIOUS
<1> HIDE DEF dates, late, x
<1> DEFINE d == [call[c] EXCEPT !.pc = "merge", !.own = found, !.dates = dates]
<1>9. d \in CallRecord /\ call' = [call EXCEPT ![c] = d]
  BY <1>2, <1>3, <1>6 DEF CallRecord, CallPC
<1>10. /\ call'[c].pc = "merge" /\ call'[c].own = found /\ call'[c].found = call[c].found
       /\ call'[c].dates = dates /\ call'[c].previous = x
  BY <1>2, <1>6 DEF CallRecord, x
<1>11. UNCHANGED <<users, said, flaws, contacts, today>>
  BY DEF ReadNew
<1>12. FoundStays(c)
  BY DEF AccountInv
<1>13. FoundStays(c)'
  BY <1>1, <1>3, <1>10, <1>11, <1>12 DEF FoundStays, RowsOf
<1>14. ASSUME found # NoRow, flaws[Account] = {}, NEW p \in Purposes
       PROVE  /\ x.accepted[p] <= dates.accepted[p]
              /\ dates.accepted[p] = x.accepted[p] \/ dates.accepted[p] <= said[Account].accepted[p]
  <2>1. users[found].accepted = said[Account].accepted
    BY <1>3, <1>14 DEF AccountInv, RowIsHeard, Clients
  <2>2. dates.accepted[p] = IF x.accepted[p] > said[Account].accepted[p] THEN x.accepted[p] ELSE said[Account].accepted[p]
    BY <1>5, <1>8, <1>14, <2>1 DEF Latest
  <2>3. x.accepted[p] \in Nat /\ said[Account].accepted[p] \in Nat
    BY <1>4, <1>5, <1>14, <2>1, DatesAssumption DEF Date, Never
  <2> QED
    BY <2>2, <2>3
<1>15. found # NoRow => dates.revoked = Silent.revoked
  BY <1>5, <1>8
<1>16. MergeFits(c)'
  BY <1>7, <1>10, <1>11, <1>14, <1>15 DEF MergeFits
<1> HIDE DEF d
<1> QED
  BY <1>2, <1>9, <1>11, <1>13, <1>16, RowsKept

\* What is heard is a consent, and no earlier than what was heard before.
LEMMA HeardIsConsent ==
  ASSUME NEW dates \in Consent, NEW before \in Consent
  PROVE  /\ Heard(dates, before) \in Consent
         /\ \A p \in Purposes : before.accepted[p] <= Heard(dates, before).accepted[p]
<1>1. /\ dates.accepted \in [Purposes -> Date] /\ dates.revoked \in [Purposes -> Date]
      /\ before.accepted \in [Purposes -> Date] /\ before.revoked \in [Purposes -> Date]
  BY DEF Consent
<1>2. /\ Heard(dates, before).accepted = Latest(dates.accepted, before.accepted)
      /\ Heard(dates, before).revoked = Latest(dates.revoked, before.revoked)
      /\ Heard(dates, before) = [accepted |-> Heard(dates, before).accepted, revoked |-> Heard(dates, before).revoked]
  BY DEF Heard
<1>3. Heard(dates, before) \in Consent
  BY <1>1, <1>2, DatesStayDates DEF Consent
<1>4. \A p \in Purposes : dates.accepted[p] \in Nat /\ before.accepted[p] \in Nat
  BY <1>1, DatesAssumption DEF Date, Never
<1>5. \A p \in Purposes : before.accepted[p] <= Latest(dates.accepted, before.accepted)[p]
  BY <1>4 DEF Latest
<1> QED
  BY <1>2, <1>3, <1>5

\* An update that is not overtaken stores the last word of its client.
LEMMA UpdateUserKeeps ==
  ASSUME AccountInv, NEW c \in Calls, UpdateUser(c)
  PROVE  AccountInv'
<1>1. call \in [Calls -> CallRecord] /\ said \in [Clients -> Consent]
  BY DEF AccountInv, AccountTypes
<1>2. PICK who \in Clients : who = call[c].client
  BY <1>1 DEF CallRecord
<1>3. PICK dates \in Consent : dates = call[c].dates
  BY <1>1 DEF CallRecord
<1> DEFINE word == Heard(dates, said[who])
           what == Overtaken(dates, said[who])
<1>4. /\ RowsOf(who) # {}
      /\ users' = Updated(who, dates) /\ said' = [said EXCEPT ![who] = word]
      /\ flaws' = [flaws EXCEPT ![who] = @ \cup what]
      /\ call' = [call EXCEPT ![c].pc = "done"] /\ UNCHANGED <<contacts, today>>
  BY <1>1, <1>2, <1>3 DEF UpdateUser, IsNew, Flaw, Set, AccountInv, FoundStays
<1>5. word \in Consent /\ \A p \in Purposes : said[who].accepted[p] <= word.accepted[p]
  BY <1>1, HeardIsConsent
<1>6. what \in SUBSET Wrongs
  BY DEF Overtaken, Wrongs
<1>7. ASSUME what = {}
      PROVE  /\ Coalesce(dates.accepted, said[who].accepted) = word.accepted
             /\ Coalesce(dates.revoked, said[who].revoked) = word.revoked
  <2>1. \A p \in Purposes : /\ dates.accepted[p] \notin 1..(said[who].accepted[p] - 1)
                            /\ dates.revoked[p] \notin 1..(said[who].revoked[p] - 1)
    BY <1>7, Zenon DEF Overtaken
  <2>2. /\ dates.accepted \in [Purposes -> Date] /\ dates.revoked \in [Purposes -> Date]
        /\ said[who].accepted \in [Purposes -> Date] /\ said[who].revoked \in [Purposes -> Date]
    BY <1>1 DEF Consent
  <2>3. /\ word.accepted = Latest(dates.accepted, said[who].accepted)
        /\ word.revoked = Latest(dates.revoked, said[who].revoked)
    BY DEF Heard
  <2>4. Coalesce(dates.accepted, said[who].accepted) = Latest(dates.accepted, said[who].accepted)
    BY <2>1, <2>2, CoalesceIsLatest
  <2>5. Coalesce(dates.revoked, said[who].revoked) = Latest(dates.revoked, said[who].revoked)
    BY <2>1, <2>2, CoalesceIsLatest
  <2> QED
    BY <2>3, <2>4, <2>5
<1> HIDE DEF what, word
<1> QED
  BY <1>4, <1>5, <1>6, <1>7, RowsUpdated

\* A user that is created is new, or is made twice.
LEMMA CreateUserKeeps ==
  ASSUME AccountInv, NEW c \in Calls, CreateUser(c)
  PROVE  AccountInv'
<1>1. call \in [Calls -> CallRecord]
  BY DEF AccountInv, AccountTypes
<1>2. PICK who \in Clients : who = call[c].client
  BY <1>1 DEF CallRecord
<1>3. PICK dates \in Consent : dates = call[c].dates
  BY <1>1 DEF CallRecord
<1>4. CASE Creatable(dates)
  <2>1. PICK pc \in {"contact", "done"} : pc = IF who = Account THEN "contact" ELSE "done"
    OBVIOUS
  <2>2. call[c].found = NoRow
    BY DEF CreateUser, IsNew
  <2>3. /\ users' = Created(who, dates) /\ said' = [said EXCEPT ![who] = Heard(dates, @)]
        /\ flaws' = [flaws EXCEPT ![who] = @ \cup Doubled(who, NoRow)]
        /\ call' = [call EXCEPT ![c].pc = pc] /\ UNCHANGED <<contacts, today>>
    BY <1>2, <1>3, <1>4, <2>1, <2>2 DEF CreateUser, Flaw, Set
  <2>4. pc = "contact" => call[c].client = Account
    BY <1>2, <2>1
  <2> QED
    BY <2>3, <2>4, RowAdded
<1>5. CASE ~Creatable(dates)
  <2>1. /\ call' = [call EXCEPT ![c].pc = "failed"] /\ UNCHANGED <<users, said, flaws, today>>
        /\ contacts' \subseteq {Account}
    BY <1>3, <1>5 DEF CreateUser, Set, AccountInv, AccountTypes
  <2>2. "failed" \in CallPC \ {"store", "merge", "contact"}
    BY DEF CallPC
  <2> QED
    BY <2>1, <2>2, GoingOnKeeps
<1> QED
  BY <1>4, <1>5

\* Dates that were settled a while ago and stored now are the last word of
\* both clients, unless the account has spoken later or its dates of
\* revocation were lost.
LEMMA MergeUsersKeeps ==
  ASSUME AccountInv, NEW c \in Calls, MergeUsers(c)
  PROVE  AccountInv'
<1>1. /\ call \in [Calls -> CallRecord] /\ said \in [Clients -> Consent] /\ Account \in Clients
      /\ flaws \in [Clients -> SUBSET Wrongs]
  BY DEF AccountInv, AccountTypes, Clients
<1>2. PICK x \in Consent : x = call[c].previous
  BY <1>1 DEF CallRecord
<1>3. PICK dates \in Consent : dates = call[c].dates
  BY <1>1 DEF CallRecord
<1>4. PICK s \in Consent : s = said[Account]
  BY <1>1
<1> DEFINE word == Heard(x, s)
           lost == IF \E p \in Purposes : x.revoked[p] # Never THEN {"not carried"} ELSE {}
           what == Overtaken(dates, s) \cup lost
<1>5. /\ users' = Updated(Account, dates) /\ said' = [said EXCEPT ![Account] = word]
      /\ flaws' = [flaws EXCEPT ![Account] = @ \cup what]
      /\ call' = [call EXCEPT ![c].pc = "move"] /\ UNCHANGED <<contacts, today>>
  BY <1>2, <1>3, <1>4 DEF MergeUsers, Flaw, Set
<1>6. FoundStays(c) /\ MergeFits(c) /\ call[c].pc = "merge" /\ call[c].own # NoRow
  BY DEF AccountInv, MergeUsers
<1>7. RowsOf(Account) # {}
  BY <1>6 DEF FoundStays
<1>8. word \in Consent /\ \A p \in Purposes : s.accepted[p] <= word.accepted[p]
  BY HeardIsConsent
<1>9. what \in SUBSET Wrongs
  BY DEF Overtaken, Wrongs
<1>10. ASSUME flaws[Account] = {}, what = {}
       PROVE  /\ Coalesce(dates.accepted, s.accepted) = word.accepted
              /\ Coalesce(dates.revoked, s.revoked) = word.revoked
  <2>1. \A p \in Purposes : dates.accepted[p] \notin 1..(s.accepted[p] - 1)
    BY <1>10, Zenon DEF Overtaken
  <2>2. \A p \in Purposes : x.revoked[p] = Never
    BY <1>10, Zenon
  <2>3. \A p \in Purposes : x.accepted[p] <= dates.accepted[p]
                            /\ (dates.accepted[p] = x.accepted[p] \/ dates.accepted[p] <= s.accepted[p])
    BY <1>2, <1>3, <1>4, <1>6, <1>10 DEF MergeFits
  <2>4. dates.revoked = Silent.revoked
    BY <1>3, <1>6 DEF MergeFits
  <2>5. /\ dates.accepted \in [Purposes -> Date] /\ x.accepted \in [Purposes -> Date] /\ x.revoked \in [Purposes -> Date]
        /\ s.accepted \in [Purposes -> Date] /\ s.revoked \in [Purposes -> Date]
    BY DEF Consent
  <2>6. x.revoked = Silent.revoked
    BY <2>2, <2>5 DEF Silent
  <2>7. word.accepted = Latest(x.accepted, s.accepted) /\ word.revoked = Latest(x.revoked, s.revoked)
    BY DEF Heard
  <2>8. Coalesce(dates.accepted, s.accepted) = Latest(x.accepted, s.accepted)
    BY <2>1, <2>3, <2>5, MergedAreLatest
  <2>9. Coalesce(dates.revoked, s.revoked) = s.revoked /\ Latest(x.revoked, s.revoked) = s.revoked
    BY <2>4, <2>5, <2>6, FirstWordIsLast
  <2> QED
    BY <2>7, <2>8, <2>9
<1> HIDE DEF what, word
<1> QED
  BY <1>1, <1>4, <1>5, <1>7, <1>8, <1>9, <1>10, RowsUpdated

\* The row of the anonymous user that is copied is the first of the account,
\* or a second one.
LEMMA CopyUserKeeps ==
  ASSUME AccountInv, NEW c \in Calls, CopyUser(c)
  PROVE  AccountInv'
<1>1. call \in [Calls -> CallRecord] /\ Account \in Clients
  BY DEF AccountInv, AccountTypes, Clients
<1>2. PICK dates \in Consent : dates = call[c].dates
  BY <1>1 DEF CallRecord
<1>3. call[c].own = NoRow
  BY DEF CopyUser
<1>4. /\ users' = Created(Account, dates) /\ said' = [said EXCEPT ![Account] = Heard(dates, @)]
      /\ flaws' = [flaws EXCEPT ![Account] = @ \cup Doubled(Account, NoRow)]
      /\ call' = [call EXCEPT ![c].pc = "move"] /\ UNCHANGED <<contacts, today>>
  BY <1>2, <1>3 DEF CopyUser, Flaw, Set
<1> QED
  BY <1>1, <1>4, RowAdded

\* Neither HubSpot nor the messages that follow touch the table.
LEMMA OtherCallsKeep ==
  ASSUME AccountInv, NEW c \in Calls, CreateContact(c) \/ KeepUsers(c) \/ MoveMessages(c)
  PROVE  AccountInv'
<1>1. contacts \subseteq {Account} /\ FoundStays(c)
  BY DEF AccountInv, AccountTypes
<1>2. {"done", "move"} \subseteq CallPC \ {"store", "merge", "contact"}
  BY DEF CallPC
<1>3. CASE CreateContact(c)
  <2>1. contacts' \subseteq {Account}
    BY <1>1, <1>3 DEF CreateContact, FoundStays
  <2> QED
    BY <1>2, <1>3, <2>1, GoingOnKeeps DEF CreateContact, Set
<1>4. CASE KeepUsers(c) \/ MoveMessages(c)
  BY <1>1, <1>2, <1>4, GoingOnKeeps DEF KeepUsers, MoveMessages, Set
<1> QED
  BY <1>3, <1>4

\* The inductive invariant of the users.
THEOREM AccountAlways == UserSpec => []AccountInv
<1>1. UserInit => AccountInv
  <2> SUFFICES ASSUME UserInit
               PROVE  AccountInv
    OBVIOUS
  <2> USE DEF UserInit
  <2>1. DOMAIN users = {} /\ Rows = 0 /\ \A who : RowsOf(who) = {}
    BY FS_EmptySet DEF Rows, RowsOf
  <2>2. NoCall \in CallRecord /\ NoCall.pc = "idle" /\ NoCall.found = NoRow /\ NoCall.own = NoRow
    BY SilentIsConsent DEF NoCall, CallRecord, CallPC, NoRow, Clients
  <2>3. AccountTypes
    <3>1. users \in [1..0 -> User]
      BY <2>1
    <3>2. call \in [Calls -> CallRecord] /\ said \in [Clients -> Consent]
      BY <2>2, SilentIsConsent
    <3> QED
      BY <2>1, <3>1, <3>2, DatesAssumption DEF AccountTypes, Date, Never
  <2>4. \A who \in Clients : RowIsSingle(who) /\ RowIsFirst(who) /\ RowIsHeard(who)
    BY <2>1 DEF RowIsSingle, RowIsFirst, RowIsHeard
  <2>5. \A c \in Calls : FoundStays(c) /\ MergeFits(c)
    <3> TAKE c \in Calls
    <3>1. call[c].pc = "idle" /\ call[c].found = NoRow /\ call[c].own = NoRow
      BY <2>2
    <3> QED
      BY <3>1 DEF FoundStays, MergeFits
  <2> QED
    BY <2>3, <2>4, <2>5 DEF AccountInv
<1>2. AccountInv /\ [UserNext]_userVars => AccountInv'
  <2> SUFFICES ASSUME AccountInv, [UserNext]_userVars
               PROVE  AccountInv'
    OBVIOUS
  <2>1. CASE UNCHANGED userVars
    BY <2>1 DEF AccountInv, AccountTypes, Rows, RowIsSingle, RowIsFirst, RowIsHeard, RowsOf, FoundStays, MergeFits,
         userVars
  <2>2. CASE UserNext
    <3>1. PICK c \in Calls :
            \/ SayConsent(c) \/ LookUp(c) \/ UpdateUser(c) \/ CreateUser(c) \/ CreateContact(c)
            \/ ReadPrevious(c) \/ ReadNew(c) \/ MergeUsers(c) \/ CopyUser(c) \/ KeepUsers(c)
            \/ MoveMessages(c)
      BY <2>2 DEF UserNext
    <3> QED
      BY <3>1, SayConsentKeeps, LookUpKeeps, UpdateUserKeeps, CreateUserKeeps, ReadPreviousKeeps, ReadNewKeeps,
         MergeUsersKeeps, CopyUserKeeps, OtherCallsKeep
  <2> QED
    BY <2>1, <2>2
<1> QED
  BY <1>1, <1>2, PTL DEF UserSpec

\* However many first requests and migrations meet, a client has one row, for
\* who am I to be answered from, unless two of them found none.
THEOREM RowsAreSingle == UserSpec => []OneRowPerClient
<1>1. AccountInv => OneRowPerClient
  <2> SUFFICES ASSUME AccountInv, NEW who \in Clients, "doubled" \notin flaws[who]
               PROVE  Cardinality(RowsOf(who)) <= 1
    BY DEF OneRowPerClient, IsOneOrNone
  <2>1. \A m, n \in RowsOf(who) : m = n
    BY DEF AccountInv, RowIsSingle
  <2>2. CASE RowsOf(who) = {}
    BY <2>2, FS_EmptySet
  <2>3. CASE RowsOf(who) # {}
    <3>1. PICK n : n \in RowsOf(who)
      BY <2>3
    <3>2. RowsOf(who) = {n}
      BY <2>1, <3>1
    <3>3. Cardinality({n}) = 1
      BY FS_Singleton
    <3> QED
      BY <3>2, <3>3
  <2> QED
    BY <2>2, <2>3
<1> QED
  BY <1>1, AccountAlways, PTL

\* Whoami tells the last word of its user, before and after he has an
\* account, for any dates and any number of requests: but for requests that
\* overtook each other, doubled rows and revocations that were not carried over,
\* and nothing is claimed of the terms for those who have left older ones.
THEOREM LastWordIsTold == UserSpec => []ConsentIsTheLastWord
<1>1. AccountInv => ConsentIsTheLastWord
  <2> SUFFICES ASSUME AccountInv, NEW n \in DOMAIN users, flaws[users[n].client] = {}
               PROVE  /\ \/ HasLeftOlderTerms(users[n].client)
                         \/ HasAcceptedTerms(users[n])
                              <=> said[users[n].client].accepted[Terms] >= TermsUpdate
                      /\ \A p \in Collections :
                           HasAcceptedCollection(users[n], p)
                             <=> said[users[n].client].accepted[p] > said[users[n].client].revoked[p]
    BY DEF ConsentIsTheLastWord
  <2>1. users[n] \in User /\ said \in [Clients -> Consent]
    BY DEF AccountInv, AccountTypes
  <2>2. PICK who \in Clients : who = users[n].client
    BY <2>1 DEF User
  <2>3. n \in RowsOf(who)
    BY <2>2 DEF RowsOf
  <2>4. users[n].accepted = said[who].accepted /\ users[n].revoked = said[who].revoked
    BY <2>2, <2>3 DEF AccountInv, RowIsHeard
  <2>5. ASSUME ~HasLeftOlderTerms(who)
        PROVE  HasAcceptedTerms(users[n]) <=> said[who].accepted[Terms] >= TermsUpdate
    <3>1. Terms \in Purposes
      BY DEF Purposes
    <3>2. said[who].accepted[Terms] \in Nat /\ said[who].revoked[Terms] \in Nat
      BY <2>1, <3>1, DatesAssumption DEF Consent, Date, Never
    <3> QED
      BY <2>4, <2>5, <3>2, DatesAssumption DEF HasAcceptedTerms, HasLeftOlderTerms, Never
  <2>6. ASSUME NEW p \in Collections
        PROVE  HasAcceptedCollection(users[n], p) <=> said[who].accepted[p] > said[who].revoked[p]
    <3>1. p \in Purposes
      BY DEF Purposes
    <3>2. said[who].accepted[p] \in Nat /\ said[who].revoked[p] \in Nat
      BY <2>1, <3>1, DatesAssumption DEF Consent, Date, Never
    <3> QED
      BY <2>4, <3>2 DEF HasAcceptedCollection, Never
  <2> QED
    BY <2>2, <2>5, <2>6
<1> QED
  BY <1>1, AccountAlways, PTL

-----------------------------------------------------------------------------
(***************************************************************************)
(* Records.  A request acts on what it has looked at: one that has found   *)
(* no label of its user has none to meet, unless another did as it did or  *)
(* a migration brought one; and one that has found its user's label still  *)
(* has it, given away at most.                                             *)
(***************************************************************************)
RecordRequest == [pc : RecordPC, creator : Creators, about : Messages \cup Requests \cup Refs \cup {Nobody}]

RecordTypes ==
  /\ labels \in UNION {[set -> Label] : set \in SUBSET Requests} /\ IsFiniteSet(DOMAIN labels)
  /\ chips \in UNION {[set -> Chip] : set \in SUBSET Refs}
  /\ messages \subseteq Messages
  /\ request \in [Requests -> RecordRequest]
  /\ date \in Nat /\ overlaps \subseteq Messages \X Creators

\* A label is made once, on a message that is there, and belongs to him who
\* made it or to the account.
LabelFits(l) ==
  /\ request[l].pc = "done"
  /\ labels[l].message \in messages
  /\ labels[l].creator \in {labels[l].first, Member}

AskedFits(r) ==
  /\ request[r].pc = "insert" =>
       /\ request[r].about \in Messages
       /\ GetList(request[r].about, request[r].creator) # {} =>
            <<request[r].about, request[r].creator>> \in overlaps
  /\ request[r].pc = "delete" =>
       /\ request[r].about \in Requests /\ request[request[r].about].pc = "done"
       /\ request[r].about \in DOMAIN labels =>
            request[r].creator \in {labels[request[r].about].first, labels[request[r].about].creator}
  /\ request[r].pc = "patch" => request[r].about \in DOMAIN chips

OpenOnce(m, who) == <<m, who>> \in overlaps \/ \A k, l \in GetList(m, who) : k = l

RecordInv ==
  /\ RecordTypes
  /\ \A l \in DOMAIN labels : LabelFits(l)
  /\ \A r \in Requests : AskedFits(r)
  /\ \A m \in Messages, who \in Creators : OpenOnce(m, who)

\* A table of labels is one of some requests.
LEMMA LabelTable ==
  ASSUME NEW f, f = [l \in DOMAIN f |-> f[l]], DOMAIN f \subseteq Requests, \A l \in DOMAIN f : f[l] \in Label
  PROVE  f \in UNION {[set -> Label] : set \in SUBSET Requests}
<1>1. f \in [DOMAIN f -> Label]
  OBVIOUS
<1> QED
  BY <1>1

\* A request that moves and touches no label keeps everything, if what it is
\* going to do fits.
LEMMA AskingKeeps ==
  ASSUME RecordInv, NEW r \in Requests, NEW d \in RecordRequest, request' = [request EXCEPT ![r] = d],
         request[r].pc # "done", UNCHANGED <<labels, messages, overlaps>>, date' \in Nat,
         chips' \in UNION {[set -> Chip] : set \in SUBSET Refs}, DOMAIN chips \subseteq DOMAIN chips',
         AskedFits(r)'
  PROVE  RecordInv'
<1>1. request \in [Requests -> RecordRequest] /\ DOMAIN labels \subseteq Requests
  BY DEF RecordInv, RecordTypes
<1>2. request' \in [Requests -> RecordRequest] /\ \A q \in Requests \ {r} : request'[q] = request[q]
  BY <1>1
<1>3. RecordTypes'
  BY <1>2 DEF RecordInv, RecordTypes
<1>4. \A m, who : GetList(m, who)' = GetList(m, who)
  BY DEF GetList
<1>5. ASSUME NEW l \in DOMAIN labels'
      PROVE  LabelFits(l)'
  <2>1. LabelFits(l) /\ l \in Requests
    BY <1>1, <1>5 DEF RecordInv
  <2>2. l # r
    BY <2>1 DEF LabelFits
  <2> QED
    BY <1>2, <2>1, <2>2 DEF LabelFits
<1>6. ASSUME NEW q \in Requests
      PROVE  AskedFits(q)'
  <2>1. CASE q = r
    BY <2>1
  <2>2. CASE q # r
    <3>1. AskedFits(q) /\ request'[q] = request[q]
      BY <1>2, <2>2 DEF RecordInv
    <3>2. request[q].pc = "delete" => request'[request[q].about].pc = "done"
      <4> SUFFICES ASSUME request[q].pc = "delete"
                   PROVE  request'[request[q].about].pc = "done"
        OBVIOUS
      <4>1. request[q].about \in Requests \ {r} /\ request[request[q].about].pc = "done"
        BY <3>1 DEF AskedFits
      <4> QED
        BY <1>2, <4>1
    <3>3. PICK m, who : m = request[q].about /\ who = request[q].creator
      OBVIOUS
    <3>4. request'[q].pc = "insert" => m \in Messages /\ (GetList(m, who)' # {} => <<m, who>> \in overlaps')
      BY <1>4, <3>1, <3>3 DEF AskedFits
    <3> QED
      BY <3>1, <3>2, <3>3, <3>4 DEF AskedFits
  <2> QED
    BY <2>1, <2>2
<1>7. ASSUME NEW m \in Messages, NEW who \in Creators
      PROVE  OpenOnce(m, who)'
  BY <1>4 DEF RecordInv, OpenOnce
<1> QED
  BY <1>3, <1>5, <1>6, <1>7 DEF RecordInv

\* A request that asks for nothing more fits.
LEMMA GoneFits ==
  ASSUME RecordInv, NEW r \in Requests, NEW pc \in {"done", "refused", "failed"}, Go(r, pc)
  PROVE  /\ [request[r] EXCEPT !.pc = pc] \in RecordRequest
         /\ request' = [request EXCEPT ![r] = [request[r] EXCEPT !.pc = pc]]
         /\ AskedFits(r)'
<1>1. request \in [Requests -> RecordRequest]
  BY DEF RecordInv, RecordTypes
<1>2. request'[r].pc = pc
  BY <1>1 DEF Go, RecordRequest
<1> QED
  BY <1>1, <1>2 DEF Go, RecordRequest, RecordPC, AskedFits

\* Looking for a label of one's own: there is none to meet.
LEMMA CheckLabelKeeps ==
  ASSUME RecordInv, NEW r \in Requests, CheckLabel(r)
  PROVE  RecordInv'
<1>1. PICK m \in Messages, who \in Creators :
        Ask(r, IF m \in messages /\ IsUnlabelled(m, who) THEN "insert" ELSE "refused", who, m)
  BY DEF CheckLabel
<1> DEFINE pc == IF m \in messages /\ IsUnlabelled(m, who) THEN "insert" ELSE "refused"
           d == [pc |-> pc, creator |-> who, about |-> m]
<1>2. request' = [request EXCEPT ![r] = d] /\ d \in RecordRequest
  BY <1>1 DEF Ask, RecordRequest, RecordPC
<1>3. request'[r] = d
  BY <1>2 DEF RecordInv, RecordTypes
<1>4. UNCHANGED <<labels, chips, messages, date, overlaps>>
  BY DEF CheckLabel
<1>5. pc = "insert" => GetList(m, who) = {}
  <2> SUFFICES ASSUME IsUnlabelled(m, who)
               PROVE  GetList(m, who) = {}
    OBVIOUS
  <2>1. Cardinality(GetList(m, who)) = 0
    BY DEF IsUnlabelled, Total
  <2>2. IsFiniteSet(DOMAIN labels) /\ GetList(m, who) \subseteq DOMAIN labels
    BY DEF RecordInv, RecordTypes, GetList
  <2>3. IsFiniteSet(GetList(m, who))
    BY <2>2, FS_Subset
  <2> QED
    BY <2>1, <2>3, FS_EmptySet
<1>6. AskedFits(r)'
  <2>1. PICK n, k : n = m /\ k = who
    OBVIOUS
  <2>2. pc = "insert" => GetList(n, k)' = {}
    BY <1>4, <1>5, <2>1 DEF GetList
  <2>3. request'[r].pc = pc /\ request'[r].creator = k /\ request'[r].about = n /\ n \in Messages
    BY <1>3, <2>1
  <2>4. pc \in {"insert", "refused"}
    OBVIOUS
  <2> HIDE DEF pc
  <2> QED
    BY <2>2, <2>3, <2>4 DEF AskedFits
<1>7. request[r].pc = "idle" /\ date' \in Nat /\ chips' \in UNION {[set -> Chip] : set \in SUBSET Refs}
  BY <1>4 DEF CheckLabel, RecordInv, RecordTypes
<1> HIDE DEF d
<1> QED
  BY <1>2, <1>4, <1>6, <1>7, AskingKeeps

\* Looking for a label to delete: it is one of one's own.
LEMMA FindLabelKeeps ==
  ASSUME RecordInv, NEW r \in Requests, FindLabel(r)
  PROVE  RecordInv'
<1>1. PICK l \in Requests, who \in Creators :
        Ask(r, IF l \in DOMAIN labels /\ MayDelete(who, l) THEN "delete" ELSE "refused", who, l)
  BY DEF FindLabel
<1> DEFINE pc == IF l \in DOMAIN labels /\ MayDelete(who, l) THEN "delete" ELSE "refused"
           d == [pc |-> pc, creator |-> who, about |-> l]
<1>2. request' = [request EXCEPT ![r] = d] /\ d \in RecordRequest
  BY <1>1 DEF Ask, RecordRequest, RecordPC
<1>3. request'[r].pc = pc /\ request'[r].creator = who /\ request'[r].about = l
  BY <1>2 DEF RecordInv, RecordTypes
<1>4. UNCHANGED <<labels, chips, messages, date, overlaps>> /\ request[r].pc = "idle"
  BY DEF FindLabel
<1>5. pc = "delete" => l \in DOMAIN labels /\ labels[l].creator = who /\ request'[l].pc = "done"
  <2> SUFFICES ASSUME l \in DOMAIN labels, MayDelete(who, l)
               PROVE  l \in DOMAIN labels /\ labels[l].creator = who /\ request'[l].pc = "done"
    OBVIOUS
  <2>1. request[l].pc = "done" /\ l # r
    BY <1>4 DEF RecordInv, LabelFits
  <2> QED
    BY <1>2, <2>1 DEF MayDelete, RecordInv, RecordTypes
<1>6. AskedFits(r)'
  <2>1. pc \in {"delete", "refused"}
    OBVIOUS
  <2> HIDE DEF pc
  <2> QED
    BY <1>3, <1>4, <1>5, <2>1 DEF AskedFits
<1>7. date' \in Nat /\ chips' \in UNION {[set -> Chip] : set \in SUBSET Refs}
  BY <1>4 DEF RecordInv, RecordTypes
<1> HIDE DEF d
<1> QED
  BY <1>2, <1>4, <1>6, <1>7, AskingKeeps

\* Chips are added and changed, never removed.
LEMMA ChipsKeep ==
  ASSUME RecordInv, NEW r \in Requests, CreateChip(r) \/ FindChip(r) \/ PatchChip(r)
  PROVE  RecordInv'
<1>1. /\ chips \in UNION {[set -> Chip] : set \in SUBSET Refs} /\ date \in Nat
      /\ request \in [Requests -> RecordRequest]
  BY DEF RecordInv, RecordTypes
<1>2. chips \in [DOMAIN chips -> Chip] /\ DOMAIN chips \subseteq Refs
  BY <1>1
<1>3. CASE CreateChip(r)
  <2>1. PICK ref \in Refs :
          IF ref \in DOMAIN chips
          THEN Go(r, "refused") /\ UNCHANGED chips
          ELSE /\ chips' = [c \in DOMAIN chips \cup {ref} |->
                    IF c = ref THEN [creator |-> ref[1], deleted |-> FALSE] ELSE chips[c]]
               /\ Go(r, "done")
    BY <1>3 DEF CreateChip
  <2>2. PICK pc \in {"done", "refused"} : Go(r, pc)
    BY <2>1
  <2>3. /\ [request[r] EXCEPT !.pc = pc] \in RecordRequest
        /\ request' = [request EXCEPT ![r] = [request[r] EXCEPT !.pc = pc]] /\ AskedFits(r)'
    BY <2>2, GoneFits
  <2>4. chips' \in UNION {[set -> Chip] : set \in SUBSET Refs} /\ DOMAIN chips \subseteq DOMAIN chips'
    <3>1. CASE ref \in DOMAIN chips
      BY <1>1, <2>1, <3>1
    <3>2. CASE ref \notin DOMAIN chips
      <4>1. ref[1] \in Creators
        BY DEF Refs
      <4>2. [creator |-> ref[1], deleted |-> FALSE] \in Chip
        BY <4>1 DEF Chip
      <4>3. chips' \in [DOMAIN chips \cup {ref} -> Chip]
        BY <1>2, <2>1, <3>2, <4>2
      <4> QED
        BY <1>2, <4>3
    <3> QED
      BY <3>1, <3>2
  <2> DEFINE d == [request[r] EXCEPT !.pc = pc]
  <2>5. d \in RecordRequest /\ request' = [request EXCEPT ![r] = d]
    BY <2>3
  <2> HIDE DEF d
  <2> QED
    BY <1>1, <1>3, <2>3, <2>4, <2>5, AskingKeeps DEF CreateChip
<1>4. CASE FindChip(r)
  <2>1. PICK ref \in Refs, who \in Creators :
          Ask(r, IF ref \in DOMAIN chips /\ chips[ref].creator = who THEN "patch" ELSE "refused", who, ref)
    BY <1>4 DEF FindChip
  <2> DEFINE at == IF ref \in DOMAIN chips /\ chips[ref].creator = who THEN "patch" ELSE "refused"
             d == [pc |-> at, creator |-> who, about |-> ref]
  <2>2. request' = [request EXCEPT ![r] = d] /\ d \in RecordRequest
    BY <2>1 DEF Ask, RecordRequest, RecordPC
  <2>3. request'[r].pc = at /\ request'[r].about = ref /\ at \in {"patch", "refused"} /\ (at = "patch" => ref \in DOMAIN chips)
    BY <1>1, <2>2
  <2> HIDE DEF at, d
  <2>4. UNCHANGED <<labels, chips, messages, date, overlaps>> /\ request[r].pc = "idle"
    BY <1>4 DEF FindChip
  <2>5. AskedFits(r)'
    BY <2>3, <2>4 DEF AskedFits
  <2> QED
    BY <1>1, <2>2, <2>4, <2>5, AskingKeeps
<1>5. CASE PatchChip(r)
  <2>1. request[r].about \in DOMAIN chips
    BY <1>5 DEF PatchChip, RecordInv, AskedFits
  <2>2. PICK ref \in DOMAIN chips : ref = request[r].about
    BY <2>1
  <2>3. PICK deleted \in {TRUE, FALSE, chips[ref].deleted} : chips' = [chips EXCEPT ![ref].deleted = deleted]
    BY <1>5, <2>2 DEF PatchChip
  <2>4. chips[ref] \in Chip /\ deleted \in BOOLEAN
    BY <1>2 DEF Chip
  <2>5. [chips[ref] EXCEPT !.deleted = deleted] \in Chip
    BY <2>4 DEF Chip
  <2>6. chips' \in [DOMAIN chips -> Chip] /\ DOMAIN chips' = DOMAIN chips
    BY <1>2, <2>3, <2>5
  <2>7. Go(r, "done")
    BY <1>5 DEF PatchChip
  <2> DEFINE d == [request[r] EXCEPT !.pc = "done"]
  <2>8. d \in RecordRequest /\ request' = [request EXCEPT ![r] = d] /\ AskedFits(r)'
    BY <2>7, GoneFits
  <2> HIDE DEF d
  <2>9. chips' \in UNION {[set -> Chip] : set \in SUBSET Refs}
    BY <1>2, <2>6
  <2> QED
    BY <1>1, <1>5, <2>6, <2>8, <2>9, AskingKeeps DEF PatchChip
<1> QED
  BY <1>3, <1>4, <1>5

\* A label that is made is the only open one of its user on its message, or
\* the history says that another was made meanwhile; whoever is about to make
\* the same one is a rival.
LEMMA InsertLabelKeeps ==
  ASSUME RecordInv, NEW r \in Requests, InsertLabel(r)
  PROVE  RecordInv'
<1>1. /\ request \in [Requests -> RecordRequest] /\ overlaps \subseteq Messages \X Creators
      /\ labels = [l \in DOMAIN labels |-> labels[l]] /\ DOMAIN labels \subseteq Requests
      /\ \A l \in DOMAIN labels : labels[l] \in Label
      /\ IsFiniteSet(DOMAIN labels) /\ date \in Nat
  BY DEF RecordInv, RecordTypes
<1>2. request[r].pc = "insert" /\ UNCHANGED <<chips, messages, date>>
  BY DEF InsertLabel
<1>3. PICK m, who : m = request[r].about /\ who = request[r].creator
  OBVIOUS
<1>4. m \in Messages /\ who \in Creators /\ (GetList(m, who) # {} => <<m, who>> \in overlaps)
  BY <1>1, <1>2, <1>3 DEF RecordInv, AskedFits, RecordRequest
<1>5. CASE m \notin messages
  <2>1. Go(r, "failed") /\ UNCHANGED <<labels, overlaps>>
    BY <1>3, <1>5 DEF InsertLabel
  <2> DEFINE d == [request[r] EXCEPT !.pc = "failed"]
  <2>2. d \in RecordRequest /\ request' = [request EXCEPT ![r] = d] /\ AskedFits(r)'
    BY <2>1, GoneFits
  <2> HIDE DEF d
  <2>3. chips' \in UNION {[set -> Chip] : set \in SUBSET Refs} /\ date' \in Nat
    BY <1>2 DEF RecordInv, RecordTypes
  <2> QED
    BY <1>2, <2>1, <2>2, <2>3, AskingKeeps
<1>6. CASE m \in messages
  <2> DEFINE row == [message |-> m, first |-> who, creator |-> who, deleted |-> Open]
  <2>1. /\ labels' = [l \in DOMAIN labels \cup {r} |-> IF l # r THEN labels[l] ELSE row]
        /\ overlaps' = overlaps \cup {<<m, request[q].creator>> : q \in Rivals(r)}
        /\ Go(r, "done")
    BY <1>3, <1>6 DEF InsertLabel
  <2>2. row \in Label /\ row.message = m /\ row.creator = who /\ row.first = who /\ row.deleted = Open
    BY <1>4 DEF Label, Open
  <2> HIDE DEF row
  <2>3. r \notin DOMAIN labels
    BY <1>2 DEF RecordInv, LabelFits
  <2>4. /\ DOMAIN labels' = DOMAIN labels \cup {r} /\ labels'[r] = row
        /\ \A l \in DOMAIN labels : labels'[l] = labels[l]
    BY <2>1, <2>3
  <2>5. /\ request'[r].pc = "done" /\ \A q \in Requests \ {r} : request'[q] = request[q]
        /\ request' \in [Requests -> RecordRequest]
    BY <1>1, <2>1 DEF Go, RecordRequest, RecordPC
  <2>6. overlaps \subseteq overlaps' /\ overlaps' \subseteq Messages \X Creators
    <3>1. \A q \in Rivals(r) : request[q].creator \in Creators
      BY <1>1 DEF Rivals, RecordRequest
    <3> QED
      BY <1>1, <1>4, <2>1, <3>1
  <2>7. RecordTypes'
    <3>1. labels' \in UNION {[set -> Label] : set \in SUBSET Requests}
      <4>1. labels' = [l \in DOMAIN labels' |-> labels'[l]] /\ DOMAIN labels' \subseteq Requests
        BY <1>1, <2>1, <2>4
      <4>2. \A l \in DOMAIN labels' : labels'[l] \in Label
        BY <1>1, <2>2, <2>4
      <4> QED
        BY <4>1, <4>2, LabelTable
    <3>2. IsFiniteSet(DOMAIN labels')
      <4>1. IsFiniteSet(DOMAIN labels \cup {r})
        BY <1>1, FS_AddElement
      <4> QED
        BY <2>4, <4>1
    <3> QED
      BY <1>2, <2>5, <2>6, <3>1, <3>2 DEF RecordInv, RecordTypes
  <2>8. ASSUME NEW l \in DOMAIN labels'
        PROVE  LabelFits(l)'
    <3>1. CASE l = r
      BY <1>2, <1>6, <2>2, <2>4, <2>5, <3>1 DEF LabelFits
    <3>2. CASE l # r
      <4>1. LabelFits(l) /\ l \in DOMAIN labels
        BY <2>4, <3>2 DEF RecordInv
      <4> QED
        BY <1>1, <1>2, <2>4, <2>5, <3>2, <4>1 DEF LabelFits
    <3> QED
      BY <3>1, <3>2
  <2>9. GetList(m, who)' = GetList(m, who) \cup {r}
    BY <2>2, <2>4 DEF GetList
  <2>10. \A n, k : <<n, k>> # <<m, who>> => GetList(n, k)' = GetList(n, k)
    BY <2>2, <2>3, <2>4 DEF GetList
  <2>11. ASSUME NEW q \in Requests
         PROVE  AskedFits(q)'
    <3>1. CASE q = r
      BY <2>5, <3>1 DEF AskedFits
    <3>2. CASE q # r
      <4>1. AskedFits(q) /\ request'[q] = request[q]
        BY <2>5, <3>2 DEF RecordInv
      <4>2. PICK n, k : n = request[q].about /\ k = request[q].creator
        OBVIOUS
      <4>3. ASSUME request[q].pc = "insert", GetList(n, k)' # {}
            PROVE  <<n, k>> \in overlaps'
        <5>1. CASE <<n, k>> = <<m, who>>
          <6>1. request[q].pc = request[r].pc /\ request[q].creator = request[r].creator /\ request[q].about = request[r].about
            BY <1>2, <1>3, <4>2, <4>3, <5>1
          <6>2. request[q] \in RecordRequest /\ request[r] \in RecordRequest
            BY <1>1
          <6>3. request[q] = request[r]
            BY <6>1, <6>2 DEF RecordRequest
          <6>4. q \in Rivals(r)
            BY <3>2, <6>3 DEF Rivals
          <6> QED
            BY <2>1, <4>2, <5>1, <6>4
        <5>2. CASE <<n, k>> # <<m, who>>
          BY <2>6, <2>10, <4>1, <4>2, <4>3, <5>2 DEF AskedFits
        <5> QED
          BY <5>1, <5>2
      <4>4. request'[q].pc = "insert" => n \in Messages /\ (GetList(n, k)' # {} => <<n, k>> \in overlaps')
        BY <4>1, <4>2, <4>3 DEF AskedFits
      <4>5. ASSUME request[q].pc = "delete"
            PROVE  /\ request[q].about \in Requests /\ request'[request[q].about].pc = "done"
                   /\ request[q].about \in DOMAIN labels' =>
                        request[q].creator \in {labels'[request[q].about].first, labels'[request[q].about].creator}
        <5>1. PICK l \in Requests : l = request[q].about /\ request[l].pc = "done"
          BY <4>1, <4>5 DEF AskedFits
        <5>2. l # r
          BY <1>2, <5>1
        <5> QED
          BY <2>4, <2>5, <4>1, <4>5, <5>1, <5>2 DEF AskedFits
      <4>6. request[q].pc = "patch" => request[q].about \in DOMAIN chips'
        BY <1>2, <4>1 DEF AskedFits
      <4> QED
        BY <4>1, <4>2, <4>4, <4>5, <4>6 DEF AskedFits
    <3> QED
      BY <3>1, <3>2
  <2>12. ASSUME NEW n \in Messages, NEW k \in Creators
         PROVE  OpenOnce(n, k)'
    <3>1. OpenOnce(n, k)
      BY DEF RecordInv
    <3>2. CASE <<n, k>> = <<m, who>>
      <4>1. n = m /\ k = who
        BY <3>2
      <4> QED
        BY <1>4, <2>6, <2>9, <4>1 DEF OpenOnce
    <3>3. CASE <<n, k>> # <<m, who>>
      BY <2>6, <2>10, <3>1, <3>3 DEF OpenOnce
    <3> QED
      BY <3>2, <3>3
  <2> QED
    BY <2>7, <2>8, <2>11, <2>12 DEF RecordInv
<1> QED
  BY <1>5, <1>6

\* A label that is deleted is open no more; nothing else changes.
LEMMA DeleteLabelKeeps ==
  ASSUME RecordInv, NEW r \in Requests, DeleteLabel(r)
  PROVE  RecordInv'
<1>1. /\ request \in [Requests -> RecordRequest] /\ date \in Nat
      /\ labels = [l \in DOMAIN labels |-> labels[l]] /\ DOMAIN labels \subseteq Requests
      /\ \A l \in DOMAIN labels : labels[l] \in Label
      /\ IsFiniteSet(DOMAIN labels)
  BY DEF RecordInv, RecordTypes
<1>2. request[r].pc = "delete" /\ UNCHANGED <<chips, messages, overlaps>> /\ date' = date + 1
  BY DEF DeleteLabel
<1>3. PICK pc \in {"done", "refused"} : Go(r, pc)
  BY DEF DeleteLabel
<1>4. /\ request'[r].pc = pc /\ \A q \in Requests \ {r} : request'[q] = request[q]
      /\ request' \in [Requests -> RecordRequest]
  BY <1>1, <1>3 DEF Go, RecordRequest, RecordPC
<1>5. PICK about : about = request[r].about
  OBVIOUS
<1>6. labels' = IF about \in DOMAIN labels
                THEN [labels EXCEPT ![about].deleted = DeletedOn(@, date + 1)] ELSE labels
  BY <1>5 DEF DeleteLabel
<1>7. DOMAIN labels' = DOMAIN labels
  BY <1>1, <1>6
<1>8. ASSUME NEW l \in DOMAIN labels
      PROVE  /\ labels'[l] \in Label /\ labels'[l].message = labels[l].message
             /\ labels'[l].first = labels[l].first /\ labels'[l].creator = labels[l].creator
             /\ labels'[l].deleted = Open => labels[l].deleted = Open
  <2>1. labels[l] \in Label /\ date + 1 \in Nat /\ date + 1 # 0
    BY <1>1
  <2>2. CASE l = about
    <3>1. labels'[l] = [labels[l] EXCEPT !.deleted = DeletedOn(labels[l].deleted, date + 1)]
      BY <1>6, <2>2
    <3>2. DeletedOn(labels[l].deleted, date + 1) \in Nat /\ DeletedOn(labels[l].deleted, date + 1) # Open
      BY <2>1 DEF DeletedOn, Label, Open
    <3> QED
      BY <2>1, <3>1, <3>2 DEF Label
  <2>3. CASE l # about
    <3>1. labels'[l] = labels[l]
      BY <1>6, <2>3
    <3> QED
      BY <2>1, <3>1
  <2> QED
    BY <2>2, <2>3
<1>9. \A m, who : GetList(m, who)' \subseteq GetList(m, who)
  BY <1>7, <1>8 DEF GetList
<1>10. RecordTypes'
  <2>1. labels' \in UNION {[set -> Label] : set \in SUBSET Requests}
    <3>1. labels' = [l \in DOMAIN labels' |-> labels'[l]]
      BY <1>1, <1>6
    <3> QED
      BY <1>1, <1>7, <1>8, <3>1, LabelTable
  <2> QED
    BY <1>1, <1>2, <1>4, <1>7, <2>1 DEF RecordInv, RecordTypes
<1>11. ASSUME NEW l \in DOMAIN labels'
       PROVE  LabelFits(l)'
  <2>1. LabelFits(l) /\ l \in DOMAIN labels /\ l \in Requests
    BY <1>1, <1>7 DEF RecordInv
  <2>2. l # r
    BY <1>2, <2>1 DEF LabelFits
  <2> QED
    BY <1>2, <1>4, <1>8, <2>1, <2>2 DEF LabelFits
<1>12. ASSUME NEW q \in Requests
       PROVE  AskedFits(q)'
  <2>1. CASE q = r
    BY <1>4, <2>1 DEF AskedFits
  <2>2. CASE q # r
    <3>1. AskedFits(q) /\ request'[q] = request[q]
      BY <1>4, <2>2 DEF RecordInv
    <3>2. PICK n, k : n = request[q].about /\ k = request[q].creator
      OBVIOUS
    <3>3. request'[q].pc = "insert" => n \in Messages /\ (GetList(n, k)' # {} => <<n, k>> \in overlaps')
      BY <1>2, <1>9, <3>1, <3>2 DEF AskedFits
    <3>4. ASSUME request[q].pc = "delete"
          PROVE  /\ n \in Requests /\ request'[n].pc = "done"
                 /\ n \in DOMAIN labels' => k \in {labels'[n].first, labels'[n].creator}
      <4>1. n \in Requests /\ request[n].pc = "done" /\ (n \in DOMAIN labels => k \in {labels[n].first, labels[n].creator})
        BY <3>1, <3>2, <3>4 DEF AskedFits
      <4>2. n # r
        BY <1>2, <4>1
      <4> QED
        BY <1>4, <1>7, <1>8, <4>1, <4>2
    <3>5. request[q].pc = "patch" => n \in DOMAIN chips'
      BY <1>2, <3>1, <3>2 DEF AskedFits
    <3> QED
      BY <3>1, <3>2, <3>3, <3>4, <3>5 DEF AskedFits
  <2> QED
    BY <2>1, <2>2
<1>13. ASSUME NEW m \in Messages, NEW who \in Creators
       PROVE  OpenOnce(m, who)'
  <2>1. OpenOnce(m, who)
    BY DEF RecordInv
  <2> QED
    BY <1>2, <1>9, <2>1 DEF OpenOnce
<1> QED
  BY <1>10, <1>11, <1>12, <1>13 DEF RecordInv

\* A migration gives every label to the account; where that makes two, or may
\* make two with one that is about to be made, the history says so.
LEMMA MigrateLabelsKeeps ==
  ASSUME RecordInv, NEW r \in Requests, MigrateLabels(r)
  PROVE  RecordInv'
<1>1. /\ request \in [Requests -> RecordRequest] /\ date \in Nat
      /\ DOMAIN labels \subseteq Requests /\ \A l \in DOMAIN labels : labels[l] \in Label
      /\ IsFiniteSet(DOMAIN labels) /\ messages \subseteq Messages /\ overlaps \subseteq Messages \X Creators
      /\ Member \in Creators /\ Visitor \in Creators
  BY DEF RecordInv, RecordTypes, Creators
<1>2. request[r].pc = "idle" /\ UNCHANGED <<chips, messages, date>> /\ Go(r, "done")
  BY DEF MigrateLabels
<1>3. /\ request'[r].pc = "done" /\ \A q \in Requests \ {r} : request'[q] = request[q]
      /\ request' \in [Requests -> RecordRequest]
  BY <1>1, <1>2 DEF Go, RecordRequest, RecordPC
<1>4. labels' = [l \in DOMAIN labels |-> [labels[l] EXCEPT !.creator = Member]]
  BY DEF MigrateLabels
<1>5. DOMAIN labels' = DOMAIN labels
  BY <1>4
<1>6. ASSUME NEW l \in DOMAIN labels
      PROVE  /\ labels'[l] \in Label /\ labels'[l].message = labels[l].message
             /\ labels'[l].first = labels[l].first /\ labels'[l].creator = Member
             /\ labels'[l].deleted = labels[l].deleted
  <2>1. labels'[l] = [labels[l] EXCEPT !.creator = Member] /\ labels[l] \in Label
    BY <1>1, <1>4
  <2> QED
    BY <1>1, <2>1 DEF Label
<1>7. ASSUME NEW l \in DOMAIN labels
      PROVE  labels[l].creator \in {Visitor, Member} /\ labels[l].message \in messages
  <2>1. labels[l] \in Label /\ LabelFits(l)
    BY <1>1 DEF RecordInv
  <2> QED
    BY <2>1 DEF Label, LabelFits, Creators
<1>8. \A m : GetList(m, Member)' = GetList(m, Visitor) \cup GetList(m, Member)
  BY <1>5, <1>6, <1>7 DEF GetList
<1>9. \A m, who : who # Member => GetList(m, who)' = {}
  BY <1>5, <1>6 DEF GetList
<1>10. /\ overlaps \subseteq overlaps'
       /\ \A m \in messages :
            /\ GetList(m, Visitor) # {}
            /\ \/ GetList(m, Member) # {} \/ <<m, Visitor>> \in overlaps
               \/ \E q \in Requests : request[q] = [pc |-> "insert", creator |-> Member, about |-> m]
            => <<m, Member>> \in overlaps'
       /\ overlaps' \subseteq Messages \X Creators
  <2> DEFINE again == {n \in messages :
               /\ GetList(n, Visitor) # {}
               /\ \/ GetList(n, Member) # {} \/ <<n, Visitor>> \in overlaps
                  \/ \E q \in Requests : request[q] = [pc |-> "insert", creator |-> Member, about |-> n]}
  <2>1. overlaps' = overlaps \cup {<<m, Member>> : m \in again}
    BY Zenon DEF MigrateLabels
  <2>2. again \subseteq Messages
    BY <1>1
  <2>3. \A m \in messages :
          /\ GetList(m, Visitor) # {}
          /\ \/ GetList(m, Member) # {} \/ <<m, Visitor>> \in overlaps
             \/ \E q \in Requests : request[q] = [pc |-> "insert", creator |-> Member, about |-> m]
          => m \in again
    BY Zenon
  <2> HIDE DEF again
  <2>4. \A m \in again : <<m, Member>> \in overlaps'
    BY <2>1
  <2>5. overlaps \subseteq overlaps' /\ overlaps' \subseteq Messages \X Creators
    BY <1>1, <2>1, <2>2
  <2> QED
    BY <2>3, <2>4, <2>5
<1>11. RecordTypes'
  <2>1. labels' \in UNION {[set -> Label] : set \in SUBSET Requests}
    <3>1. labels' = [l \in DOMAIN labels' |-> labels'[l]]
      BY <1>4
    <3> QED
      BY <1>1, <1>5, <1>6, <3>1, LabelTable
  <2> QED
    BY <1>1, <1>2, <1>3, <1>5, <1>10, <2>1 DEF RecordInv, RecordTypes
<1>12. ASSUME NEW l \in DOMAIN labels'
       PROVE  LabelFits(l)'
  <2>1. LabelFits(l) /\ l \in DOMAIN labels /\ l \in Requests
    BY <1>1, <1>5 DEF RecordInv
  <2>2. l # r
    BY <1>2, <2>1 DEF LabelFits
  <2> QED
    BY <1>2, <1>3, <1>6, <2>1, <2>2 DEF LabelFits
<1>13. ASSUME NEW q \in Requests
       PROVE  AskedFits(q)'
  <2>1. CASE q = r
    BY <1>3, <2>1 DEF AskedFits
  <2>2. CASE q # r
    <3>1. AskedFits(q) /\ request'[q] = request[q] /\ request[q] \in RecordRequest
      BY <1>1, <1>3, <2>2 DEF RecordInv
    <3>2. PICK n, k : n = request[q].about /\ k = request[q].creator
      OBVIOUS
    <3>3. ASSUME request[q].pc = "insert", GetList(n, k)' # {}
          PROVE  <<n, k>> \in overlaps'
      <4>1. k = Member
        BY <1>9, <3>3
      <4>2. GetList(n, Member) # {} => <<n, Member>> \in overlaps'
        BY <1>10, <3>1, <3>2, <3>3, <4>1 DEF AskedFits
      <4>3. CASE GetList(n, Visitor) # {}
        <5>1. n \in messages
          BY <1>7, <4>3 DEF GetList
        <5>2. request[q] = [pc |-> "insert", creator |-> Member, about |-> n]
          BY <3>1, <3>2, <3>3, <4>1 DEF RecordRequest
        <5> QED
          BY <1>10, <4>1, <4>3, <5>1, <5>2
      <4>4. CASE GetList(n, Visitor) = {}
        BY <1>8, <3>3, <4>1, <4>2, <4>4
      <4> QED
        BY <4>3, <4>4
    <3>4. request'[q].pc = "insert" => n \in Messages /\ (GetList(n, k)' # {} => <<n, k>> \in overlaps')
      BY <3>1, <3>2, <3>3 DEF AskedFits
    <3>5. ASSUME request[q].pc = "delete"
          PROVE  /\ n \in Requests /\ request'[n].pc = "done"
                 /\ n \in DOMAIN labels' => k \in {labels'[n].first, labels'[n].creator}
      <4>1. n \in Requests /\ request[n].pc = "done" /\ (n \in DOMAIN labels => k \in {labels[n].first, labels[n].creator})
        BY <3>1, <3>2, <3>5 DEF AskedFits
      <4>2. n # r
        BY <1>2, <4>1
      <4>3. n \in DOMAIN labels => labels[n].creator \in {labels[n].first, Member}
        BY DEF RecordInv, LabelFits
      <4> QED
        BY <1>3, <1>5, <1>6, <4>1, <4>2, <4>3
    <3>6. request[q].pc = "patch" => n \in DOMAIN chips'
      BY <1>2, <3>1, <3>2 DEF AskedFits
    <3> QED
      BY <3>1, <3>2, <3>4, <3>5, <3>6 DEF AskedFits
  <2> QED
    BY <2>1, <2>2
<1>14. ASSUME NEW m \in Messages, NEW who \in Creators
       PROVE  OpenOnce(m, who)'
  <2>1. OpenOnce(m, Member) /\ OpenOnce(m, Visitor)
    BY <1>1 DEF RecordInv
  <2>2. CASE who # Member
    BY <1>9, <2>2 DEF OpenOnce
  <2>3. CASE who = Member
    <3>1. GetList(m, who)' = GetList(m, Visitor) \cup GetList(m, Member)
      BY <1>8, <2>3
    <3>2. CASE GetList(m, Visitor) = {}
      BY <1>10, <2>1, <2>3, <3>1, <3>2 DEF OpenOnce
    <3>3. CASE GetList(m, Visitor) # {}
      <4>1. m \in messages
        BY <1>7, <3>3 DEF GetList
      <4>2. GetList(m, Member) # {} \/ <<m, Visitor>> \in overlaps => <<m, Member>> \in overlaps'
        BY <1>10, <3>3, <4>1
      <4> QED
        BY <2>1, <2>3, <3>1, <4>2 DEF OpenOnce
    <3> QED
      BY <3>2, <3>3
  <2> QED
    BY <2>2, <2>3
<1> QED
  BY <1>11, <1>12, <1>13, <1>14 DEF RecordInv

\* A message that goes takes its labels along, and no others.
LEMMA DeleteMessageKeeps ==
  ASSUME RecordInv, NEW r \in Requests, DeleteMessage(r)
  PROVE  RecordInv'
<1>1. /\ request \in [Requests -> RecordRequest] /\ date \in Nat
      /\ DOMAIN labels \subseteq Requests /\ \A l \in DOMAIN labels : labels[l] \in Label
      /\ IsFiniteSet(DOMAIN labels) /\ messages \subseteq Messages
  BY DEF RecordInv, RecordTypes
<1>2. request[r].pc = "idle" /\ UNCHANGED <<chips, date, overlaps>> /\ Go(r, "done")
  BY DEF DeleteMessage
<1>3. /\ request'[r].pc = "done" /\ \A q \in Requests \ {r} : request'[q] = request[q]
      /\ request' \in [Requests -> RecordRequest]
  BY <1>1, <1>2 DEF Go, RecordRequest, RecordPC
<1>4. PICK m \in messages :
        /\ messages' = messages \ {m}
        /\ labels' = Restrict(labels, {l \in DOMAIN labels : labels[l].message # m})
  BY DEF DeleteMessage
<1>5. /\ labels' = [l \in DOMAIN labels' |-> labels'[l]]
      /\ DOMAIN labels' = {l \in DOMAIN labels : labels[l].message # m}
      /\ \A l \in DOMAIN labels' : labels'[l] = labels[l]
  BY <1>4 DEF Restrict
<1>6. \A n, who : GetList(n, who)' \subseteq GetList(n, who)
  BY <1>5 DEF GetList
<1>7. RecordTypes'
  <2>1. DOMAIN labels' \subseteq DOMAIN labels
    BY <1>5
  <2>2. IsFiniteSet(DOMAIN labels')
    BY <1>1, <2>1, FS_Subset
  <2>3. labels' \in UNION {[set -> Label] : set \in SUBSET Requests}
    BY <1>1, <1>5, <2>1, LabelTable
  <2> QED
    BY <1>2, <1>3, <1>4, <2>2, <2>3 DEF RecordInv, RecordTypes
<1>8. ASSUME NEW l \in DOMAIN labels'
      PROVE  LabelFits(l)'
  <2>1. LabelFits(l) /\ l \in Requests /\ labels[l].message # m
    BY <1>1, <1>5 DEF RecordInv
  <2>2. l # r
    BY <1>2, <2>1 DEF LabelFits
  <2> QED
    BY <1>3, <1>4, <1>5, <2>1, <2>2 DEF LabelFits
<1>9. ASSUME NEW q \in Requests
      PROVE  AskedFits(q)'
  <2>1. CASE q = r
    BY <1>3, <2>1 DEF AskedFits
  <2>2. CASE q # r
    <3>1. AskedFits(q) /\ request'[q] = request[q]
      BY <1>3, <2>2 DEF RecordInv
    <3>2. PICK n, k : n = request[q].about /\ k = request[q].creator
      OBVIOUS
    <3>3. request'[q].pc = "insert" => n \in Messages /\ (GetList(n, k)' # {} => <<n, k>> \in overlaps')
      BY <1>2, <1>6, <3>1, <3>2 DEF AskedFits
    <3>4. ASSUME request[q].pc = "delete"
          PROVE  /\ n \in Requests /\ request'[n].pc = "done"
                 /\ n \in DOMAIN labels' => k \in {labels'[n].first, labels'[n].creator}
      <4>1. n \in Requests /\ request[n].pc = "done" /\ (n \in DOMAIN labels => k \in {labels[n].first, labels[n].creator})
        BY <3>1, <3>2, <3>4 DEF AskedFits
      <4>2. n # r
        BY <1>2, <4>1
      <4> QED
        BY <1>3, <1>5, <4>1, <4>2
    <3>5. request[q].pc = "patch" => n \in DOMAIN chips'
      BY <1>2, <3>1, <3>2 DEF AskedFits
    <3> QED
      BY <3>1, <3>2, <3>3, <3>4, <3>5 DEF AskedFits
  <2> QED
    BY <2>1, <2>2
<1>10. ASSUME NEW n \in Messages, NEW who \in Creators
       PROVE  OpenOnce(n, who)'
  <2>1. OpenOnce(n, who)
    BY DEF RecordInv
  <2> QED
    BY <1>2, <1>6, <2>1 DEF OpenOnce
<1> QED
  BY <1>7, <1>8, <1>9, <1>10 DEF RecordInv

\* The inductive invariant of the records.
THEOREM RecordsAlways == RecordSpec => []RecordInv
<1>1. RecordInit => RecordInv
  <2> SUFFICES ASSUME RecordInit
               PROVE  RecordInv
    OBVIOUS
  <2> USE DEF RecordInit
  <2>1. DOMAIN labels = {} /\ labels = [l \in DOMAIN labels |-> labels[l]] /\ \A m, who : GetList(m, who) = {}
    BY DEF GetList
  <2>2. NoRecord \in RecordRequest /\ NoRecord.pc = "idle"
    BY DEF NoRecord, RecordRequest, RecordPC, Creators
  <2>3. RecordTypes
    <3>1. labels \in UNION {[set -> Label] : set \in SUBSET Requests}
      BY <2>1, LabelTable
    <3>2. chips \in [{} -> Chip] /\ {} \in SUBSET Refs
      OBVIOUS
    <3>3. chips \in UNION {[set -> Chip] : set \in SUBSET Refs}
      BY <3>2
    <3> QED
      BY <2>1, <2>2, <3>1, <3>3, FS_EmptySet DEF RecordTypes, Open
  <2>4. \A r \in Requests : AskedFits(r)
    <3> TAKE r \in Requests
    <3>1. request[r].pc = "idle"
      BY <2>2
    <3> QED
      BY <3>1 DEF AskedFits
  <2> QED
    BY <2>1, <2>3, <2>4 DEF RecordInv, OpenOnce
<1>2. RecordInv /\ [RecordNext]_recordVars => RecordInv'
  <2> SUFFICES ASSUME RecordInv, [RecordNext]_recordVars
               PROVE  RecordInv'
    OBVIOUS
  <2>1. CASE UNCHANGED recordVars
    <3>1. UNCHANGED <<labels, chips, messages, request, date, overlaps>>
      BY <2>1 DEF recordVars
    <3>2. RecordTypes' /\ \A l \in DOMAIN labels' : LabelFits(l)'
      BY <3>1 DEF RecordInv, RecordTypes, LabelFits
    <3>3. ASSUME NEW r \in Requests
          PROVE  AskedFits(r)'
      <4>1. AskedFits(r)
        BY DEF RecordInv
      <4> QED
        BY <3>1, <4>1 DEF AskedFits, GetList
    <3>4. ASSUME NEW m \in Messages, NEW who \in Creators
          PROVE  OpenOnce(m, who)'
      <4>1. OpenOnce(m, who) /\ GetList(m, who)' = GetList(m, who)
        BY <3>1 DEF RecordInv, GetList
      <4> QED
        BY <3>1, <4>1 DEF OpenOnce
    <3> QED
      BY <3>2, <3>3, <3>4 DEF RecordInv
  <2>2. CASE RecordNext
    <3>1. PICK r \in Requests :
            \/ CheckLabel(r) \/ InsertLabel(r) \/ FindLabel(r) \/ DeleteLabel(r)
            \/ MigrateLabels(r) \/ DeleteMessage(r)
            \/ CreateChip(r) \/ FindChip(r) \/ PatchChip(r)
      BY <2>2 DEF RecordNext
    <3> QED
      BY <3>1, CheckLabelKeeps, InsertLabelKeeps, FindLabelKeeps, DeleteLabelKeeps, MigrateLabelsKeeps,
         DeleteMessageKeeps, ChipsKeep
  <2> QED
    BY <2>1, <2>2
<1> QED
  BY <1>1, <1>2, PTL DEF RecordSpec

\* For any number of requests, users and messages a user has one open label on
\* a message, unless two of his requests met or a migration brought a second.
THEOREM LabelsAreSingle == RecordSpec => []OneOpenLabelEach
<1>1. RecordInv => OneOpenLabelEach
  <2> SUFFICES ASSUME RecordInv, NEW m \in Messages, NEW who \in Creators, <<m, who>> \notin overlaps
               PROVE  ~(Cardinality(GetList(m, who)) > 1)
    BY DEF OneOpenLabelEach
  <2>1. \A k, l \in GetList(m, who) : k = l
    BY DEF RecordInv, OpenOnce
  <2>2. CASE GetList(m, who) = {}
    BY <2>2, FS_EmptySet
  <2>3. CASE GetList(m, who) # {}
    <3>1. PICK l : GetList(m, who) = {l}
      BY <2>1, <2>3
    <3>2. Cardinality({l}) = 1
      BY FS_Singleton
    <3> QED
      BY <3>1, <3>2
  <2> QED
    BY <2>2, <2>3
<1> QED
  BY <1>1, RecordsAlways, PTL

\* A label is deleted once, on a request of him whose it was when the request
\* looked, whatever migration comes in between.
THEOREM LabelsGoByTheirCreator == RecordSpec => LabelsAreDeletedByTheirCreator
<1> DEFINE Rightly ==
      \A l \in DOMAIN labels \cap DOMAIN labels' :
        labels'[l].deleted # labels[l].deleted =>
          /\ labels[l].deleted = Open
          /\ \E r \in Requests : /\ request[r].pc = "delete" /\ request'[r].pc = "done"
                                 /\ request[r].about = l
                                 /\ request[r].creator \in {labels[l].first, labels[l].creator}
<1>1. RecordInv /\ [RecordNext]_recordVars => Rightly
  <2> SUFFICES ASSUME RecordInv, [RecordNext]_recordVars,
                      NEW l \in DOMAIN labels \cap DOMAIN labels', labels'[l].deleted # labels[l].deleted
               PROVE  /\ labels[l].deleted = Open
                      /\ \E r \in Requests : /\ request[r].pc = "delete" /\ request'[r].pc = "done"
                                             /\ request[r].about = l
                                             /\ request[r].creator \in {labels[l].first, labels[l].creator}
    OBVIOUS
  <2>1. labels' # labels
    OBVIOUS
  <2>2. PICK r \in Requests :
          \/ InsertLabel(r) \/ DeleteLabel(r) \/ MigrateLabels(r) \/ DeleteMessage(r)
    BY <2>1 DEF RecordNext, recordVars, CheckLabel, FindLabel, CreateChip, FindChip, PatchChip
  <2>3. /\ request \in [Requests -> RecordRequest] /\ DOMAIN labels \subseteq Requests
        /\ \A k \in DOMAIN labels : labels[k] \in Label /\ request[k].pc = "done"
    BY DEF RecordInv, RecordTypes, LabelFits
  <2>4. ~InsertLabel(r)
    <3> SUFFICES ASSUME InsertLabel(r)
                 PROVE  FALSE
      OBVIOUS
    <3>1. l # r
      BY <2>3 DEF InsertLabel
    <3> QED
      BY <2>1, <3>1 DEF InsertLabel
  <2>5. ~MigrateLabels(r)
    <3> SUFFICES ASSUME MigrateLabels(r)
                 PROVE  FALSE
      OBVIOUS
    <3>1. labels'[l] = [labels[l] EXCEPT !.creator = Member] /\ labels[l] \in Label
      BY <2>3 DEF MigrateLabels
    <3> QED
      BY <3>1 DEF Label
  <2>6. ~DeleteMessage(r)
    BY DEF DeleteMessage, Restrict
  <2>7. DeleteLabel(r)
    BY <2>2, <2>4, <2>5, <2>6
  <2>8. PICK about : about = request[r].about
    OBVIOUS
  <2>9. about = l
    BY <2>1, <2>7, <2>8 DEF DeleteLabel
  <2>10. labels'[l] = [labels[l] EXCEPT !.deleted = DeletedOn(@, date + 1)]
    BY <2>7, <2>8, <2>9 DEF DeleteLabel
  <2>11. labels'[l].deleted = DeletedOn(labels[l].deleted, date + 1)
    BY <2>3, <2>10 DEF Label
  <2>12. labels[l].deleted = Open
    BY <2>11 DEF DeletedOn
  <2>13. request[r].pc = "delete" /\ request'[r].pc = "done"
    BY <2>3, <2>7, <2>8, <2>9 DEF DeleteLabel, Go, RecordRequest
  <2>14. request[r].creator \in {labels[l].first, labels[l].creator}
    BY <2>8, <2>9, <2>13 DEF RecordInv, AskedFits
  <2> QED
    BY <2>8, <2>9, <2>12, <2>13, <2>14
<1>2. Rightly => [Rightly]_recordVars
  OBVIOUS
<1> QED
  BY <1>1, <1>2, RecordsAlways, PTL DEF RecordSpec, LabelsAreDeletedByTheirCreator

-----------------------------------------------------------------------------
(***************************************************************************)
(* The three together.  A request makes one row or one number at most, and *)
(* never begins again, so there are no more of them than requests.         *)
(***************************************************************************)
SpentCalls  == {c \in Calls : call[c].pc \in {"contact", "move", "done", "failed"}}
SpentAdmins == {a \in Admins : admin[a].pc # "idle"}

RowsCounted   == IsFiniteSet(Calls) => Rows <= Cardinality(SpentCalls)
ModelsCounted == IsFiniteSet(Admins) => created <= Cardinality(SpentAdmins)

\* A finite set with one element more counts at least one more.
LEMMA OneMore ==
  ASSUME NEW S, NEW T, NEW x \in T, IsFiniteSet(T), S \subseteq T, x \notin S
  PROVE  /\ Cardinality(S) \in Nat /\ Cardinality(T) \in Nat
         /\ Cardinality(S) + 1 <= Cardinality(T)
<1>1. IsFiniteSet(S) /\ IsFiniteSet(S \cup {x})
  <2>1. IsFiniteSet(S)
    BY FS_Subset
  <2> QED
    BY <2>1, FS_AddElement
<1>2. Cardinality(S) \in Nat /\ Cardinality(T) \in Nat
  BY <1>1, FS_CardinalityType
<1>3. Cardinality(S \cup {x}) = Cardinality(S) + 1
  BY <1>1, FS_AddElement
<1>4. S \cup {x} \in SUBSET T
  OBVIOUS
<1>5. Cardinality(S \cup {x}) <= Cardinality(T)
  BY <1>4, FS_Subset
<1> QED
  BY <1>2, <1>3, <1>5

\* Whoever leaves is at the place he leaves to.
LEMMA LeavesTo ==
  ASSUME NEW a \in Admins, NEW pc, admin \in [Admins -> Request], Leave(a, pc)
  PROVE  admin'[a].pc = pc /\ \A b \in Admins \ {a} : admin'[b] = admin[b]
<1> DEFINE new == [NoRequest EXCEPT !.pc = pc]
<1>1. new.pc = pc
  BY DEF NoRequest
<1> HIDE DEF new
<1>2. admin' = [admin EXCEPT ![a] = new]
  BY DEF Leave, new
<1> QED
  BY <1>1, <1>2

\* There are no more rows of users than requests that have made one.
THEOREM UsersTyped == IsFiniteSet(Calls) => (UserSpec => []UserTypeOK)
<1> SUFFICES ASSUME IsFiniteSet(Calls)
             PROVE  UserSpec => []UserTypeOK
  OBVIOUS
<1>1. UserInit => RowsCounted
  <2> SUFFICES ASSUME UserInit
               PROVE  Rows <= Cardinality(SpentCalls)
    BY DEF RowsCounted
  <2>1. Rows = 0
    BY FS_EmptySet DEF UserInit, Rows
  <2>2. IsFiniteSet(SpentCalls)
    BY FS_Subset DEF SpentCalls
  <2>3. Cardinality(SpentCalls) \in Nat
    BY <2>2, FS_CardinalityType
  <2> QED
    BY <2>1, <2>3
<1>2. AccountInv /\ AccountInv' /\ RowsCounted /\ [UserNext]_userVars => RowsCounted'
  <2> SUFFICES ASSUME AccountInv, AccountInv', RowsCounted, [UserNext]_userVars
               PROVE  Rows' <= Cardinality(SpentCalls')
    BY DEF RowsCounted
  <2>1. /\ Rows \in Nat /\ Rows' \in Nat /\ Rows <= Cardinality(SpentCalls)
        /\ call \in [Calls -> CallRecord]
    BY DEF AccountInv, AccountTypes, RowsCounted
  <2>2. IsFiniteSet(SpentCalls') /\ IsFiniteSet(SpentCalls)
    BY FS_Subset DEF SpentCalls
  <2>3. Cardinality(SpentCalls') \in Nat /\ Cardinality(SpentCalls) \in Nat
    BY <2>2, FS_CardinalityType
  <2>4. ASSUME UNCHANGED users, SpentCalls \subseteq SpentCalls'
        PROVE  Rows' <= Cardinality(SpentCalls')
    <3>1. Rows' = Rows
      BY <2>4 DEF Rows
    <3>2. Cardinality(SpentCalls) <= Cardinality(SpentCalls')
      BY <2>2, <2>4, FS_Subset
    <3> QED
      BY <2>1, <2>3, <3>1, <3>2
  <2>5. CASE UNCHANGED userVars
    BY <2>4, <2>5 DEF userVars, SpentCalls
  <2>6. CASE UserNext
    <3>1. PICK c \in Calls :
            \/ SayConsent(c) \/ LookUp(c) \/ UpdateUser(c) \/ CreateUser(c) \/ CreateContact(c)
            \/ ReadPrevious(c) \/ ReadNew(c) \/ MergeUsers(c) \/ CopyUser(c) \/ KeepUsers(c)
            \/ MoveMessages(c)
      BY <2>6 DEF UserNext
    <3>2. \A q \in Calls \ {c} : call'[q] = call[q]
      BY <2>1, <3>1 DEF SayConsent, LookUp, UpdateUser, CreateUser, CreateContact, ReadPrevious, ReadNew,
                        MergeUsers, CopyUser, KeepUsers, MoveMessages, Set
    <3>3. ASSUME call[c].pc \in {"contact", "move", "done", "failed"}
          PROVE  call'[c].pc = "done" /\ UNCHANGED users
      BY <2>1, <3>1, <3>3 DEF SayConsent, LookUp, UpdateUser, CreateUser, CreateContact, ReadPrevious, ReadNew,
                        MergeUsers, CopyUser, KeepUsers, MoveMessages, Set, CallRecord
    <3>4. SpentCalls \subseteq SpentCalls'
      BY <3>2, <3>3 DEF SpentCalls
    <3>5. CASE DOMAIN users' = DOMAIN users
      <4>1. Rows' = Rows
        BY <3>5 DEF Rows
      <4>2. Cardinality(SpentCalls) <= Cardinality(SpentCalls')
        BY <2>2, <3>4, FS_Subset
      <4> QED
        BY <2>1, <2>3, <4>1, <4>2
    <3>6. CASE DOMAIN users' # DOMAIN users
      <4>1. /\ DOMAIN users' = DOMAIN users \cup {Rows + 1}
            /\ call'[c].pc \in {"contact", "move", "done"} /\ c \notin SpentCalls
        <5>1. CreateUser(c) \/ CopyUser(c)
          BY <3>1, <3>6 DEF SayConsent, LookUp, UpdateUser, CreateContact, ReadPrevious, ReadNew,
                        MergeUsers, KeepUsers, MoveMessages, Updated
        <5> QED
          BY <2>1, <3>6, <5>1 DEF CreateUser, CopyUser, Set, CallRecord, Created, Rows, SpentCalls
      <4>2. c \in SpentCalls'
        BY <4>1 DEF SpentCalls
      <4>3. Cardinality(SpentCalls) + 1 <= Cardinality(SpentCalls')
        BY <2>2, <3>4, <4>1, <4>2, OneMore
      <4>4. Rows' = Rows + 1
        <5>1. IsFiniteSet(DOMAIN users) /\ Rows + 1 \notin DOMAIN users
          <6>1. DOMAIN users = 1..Rows /\ 1 \in Int /\ Rows \in Int
            BY <2>1 DEF AccountInv, AccountTypes
          <6>2. IsFiniteSet(1..Rows)
            BY <6>1, FS_Interval, Zenon
          <6> QED
            BY <2>1, <6>1, <6>2
        <5>2. Cardinality(DOMAIN users \cup {Rows + 1}) = Cardinality(DOMAIN users) + 1
          <6>1. PICK n : n = Rows + 1
            OBVIOUS
          <6> QED
            BY <5>1, <6>1, FS_AddElement
        <5> QED
          BY <4>1, <5>2 DEF Rows
      <4> QED
        BY <2>1, <2>3, <4>3, <4>4
    <3> QED
      BY <3>5, <3>6
  <2> QED
    BY <2>5, <2>6
<1>3. AccountInv /\ RowsCounted => UserTypeOK
  <2> SUFFICES ASSUME AccountInv, RowsCounted
               PROVE  UserTypeOK
    OBVIOUS
  <2>1. /\ Rows \in Nat /\ Rows <= Cardinality(SpentCalls) /\ DOMAIN users = 1..Rows
        /\ users \in [1..Rows -> User] /\ call \in [Calls -> CallRecord]
    BY DEF AccountInv, AccountTypes, RowsCounted
  <2>2. Cardinality(SpentCalls) <= Cardinality(Calls) /\ Cardinality(Calls) \in Nat
        /\ Cardinality(SpentCalls) \in Nat
    <3>1. SpentCalls \in SUBSET Calls
      BY DEF SpentCalls
    <3>2. IsFiniteSet(SpentCalls) /\ Cardinality(SpentCalls) <= Cardinality(Calls)
      BY <3>1, FS_Subset
    <3> QED
      BY <3>2, FS_CardinalityType
  <2>3. DOMAIN users \subseteq 1..Cardinality(Calls)
    BY <2>1, <2>2
  <2>4. \A c \in Calls : /\ call[c].pc \in CallPC /\ call[c].client \in Clients
                         /\ call[c].dates \in Consent /\ call[c].previous \in Consent
                         /\ {call[c].found, call[c].own} \subseteq {NoRow} \cup DOMAIN users
    BY <2>1 DEF CallRecord, AccountInv, FoundStays
  <2> QED
    BY <2>1, <2>3, <2>4 DEF UserTypeOK, AccountInv, AccountTypes
<1> QED
  BY <1>1, <1>2, <1>3, AccountAlways, PTL DEF UserSpec

\* Nor are there more numbers of models than administrators have asked for.
THEOREM ModelsTyped == IsFiniteSet(Admins) => (ModelSpec => []ModelTypeOK)
<1> SUFFICES ASSUME IsFiniteSet(Admins)
             PROVE  ModelSpec => []ModelTypeOK
  OBVIOUS
<1>1. ModelInit => ModelsCounted
  <2> SUFFICES ASSUME ModelInit
               PROVE  created <= Cardinality(SpentAdmins)
    BY DEF ModelsCounted
  <2>1. IsFiniteSet(SpentAdmins)
    BY FS_Subset DEF SpentAdmins
  <2>2. Cardinality(SpentAdmins) \in Nat
    BY <2>1, FS_CardinalityType
  <2> QED
    BY <2>2 DEF ModelInit
<1>2. AdminInv /\ AdminInv' /\ ModelsCounted /\ [ModelNext]_modelVars => ModelsCounted'
  <2> SUFFICES ASSUME AdminInv, AdminInv', ModelsCounted, [ModelNext]_modelVars
               PROVE  created' <= Cardinality(SpentAdmins')
    BY DEF ModelsCounted
  <2>1. created \in Nat /\ created <= Cardinality(SpentAdmins) /\ admin \in [Admins -> Request]
    BY DEF AdminInv, AdminTypes, ModelsCounted
  <2>2. IsFiniteSet(SpentAdmins') /\ IsFiniteSet(SpentAdmins)
    BY FS_Subset DEF SpentAdmins
  <2>3. Cardinality(SpentAdmins') \in Nat /\ Cardinality(SpentAdmins) \in Nat
    BY <2>2, FS_CardinalityType
  <2>4. SpentAdmins \subseteq SpentAdmins'
    <3>1. ASSUME NEW a \in Admins, ModelStep(a)
          PROVE  admin'[a].pc # "idle" /\ \A b \in Admins \ {a} : admin'[b] = admin[b]
      <4>1. CASE CreateModel(a) \/ StoreUpdate(a) \/ CommitOrder(a) \/ BreakCircle(a) \/ RemoveModel(a)
        <5>1. PICK pc \in {"refused", "done", "failed"} : Leave(a, pc)
          BY <4>1 DEF CreateModel, StoreUpdate, CommitOrder, BreakCircle, RemoveModel
        <5> QED
          BY <2>1, <5>1, LeavesTo
      <4>2. CASE ReadModel(a)
        <5>1. PICK m \in Models, kind \in Kind, default \in Given, upper \in Given, service \in Service :
                LET asked == [NoRequest EXCEPT !.pc = "write", !.model = m, !.kind = kind,
                                  !.default = default, !.upper = upper, !.service = service]
                IN  IF m \in DOMAIN models /\ Accepts(asked, models[m])
                    THEN admin' = [admin EXCEPT ![a] = [asked EXCEPT !.read =
                           [default |-> models[m].default, upper |-> models[m].upper,
                            kind |-> models[m].kind, born |-> models[m].born]]]
                    ELSE Move(a, "refused")
          BY ZenonT(40), <4>2 DEF ReadModel
        <5> DEFINE asked == [NoRequest EXCEPT !.pc = "write", !.model = m, !.kind = kind,
                              !.default = default, !.upper = upper, !.service = service]
                   new == [asked EXCEPT !.read =
                       [default |-> models[m].default, upper |-> models[m].upper,
                        kind |-> models[m].kind, born |-> models[m].born]]
        <5>2. asked.pc = "write"
          BY DEF NoRequest
        <5>3. new.pc = asked.pc
          OBVIOUS
        <5>4. admin' = [admin EXCEPT ![a] = new] \/ Move(a, "refused")
          BY <5>1
        <5> HIDE DEF new, asked
        <5> QED
          BY <2>1, <5>2, <5>3, <5>4 DEF Move, Request
      <4>3. CASE CheckModels(a)
        <5> DEFINE new == [NoRequest EXCEPT !.pc = "refused"]
        <5>1. new.pc = "refused"
          BY DEF NoRequest
        <5>2. Move(a, "reorder") \/ admin' = [admin EXCEPT ![a] = new]
          BY <4>3 DEF CheckModels
        <5> HIDE DEF new
        <5> QED
          BY <2>1, <5>1, <5>2 DEF Move, Request
      <4>6. CASE FindModel(a)
        BY ZenonT(40), <2>1, <4>6 DEF FindModel, Move, Request
      <4>5. CASE ListModels(a)
        <5>1. PICK list \in Listings :
                admin' = [admin EXCEPT ![a] = [NoRequest EXCEPT !.pc = "check", !.list = list]]
          BY <4>5 DEF ListModels
        <5> DEFINE new == [NoRequest EXCEPT !.pc = "check", !.list = list]
        <5>2. new.pc = "check"
          BY DEF NoRequest
        <5>3. admin' = [admin EXCEPT ![a] = new]
          BY <5>1
        <5> HIDE DEF new
        <5> QED
          BY <2>1, <5>2, <5>3
      <4>4. CASE MoveRow(a)
        BY <2>1, <4>4 DEF MoveRow, Leave, NoRequest, Request
      <4> QED
        BY <3>1, <4>1, <4>2, <4>3, <4>4, <4>5, <4>6 DEF ModelStep
    <3>2. CASE UNCHANGED modelVars
      BY <3>2 DEF modelVars, SpentAdmins
    <3>3. CASE ModelNext
      BY <3>1, <3>3 DEF ModelNext, SpentAdmins
    <3> QED
      BY <3>2, <3>3
  <2>5. CASE created' = created
    <3>1. Cardinality(SpentAdmins) <= Cardinality(SpentAdmins')
      BY <2>2, <2>4, FS_Subset
    <3> QED
      BY <2>1, <2>3, <2>5, <3>1
  <2>6. CASE created' # created
    <3>1. PICK a \in Admins : CreateModel(a)
      BY <2>6 DEF modelVars, ModelNext, ModelStep, ReadModel, StoreUpdate, ListModels, CheckModels, MoveRow,
                  CommitOrder, BreakCircle, FindModel, RemoveModel
    <3>2. a \notin SpentAdmins /\ a \in SpentAdmins' /\ created' = created + 1
      <4>1. PICK pc \in {"refused", "done"} : Leave(a, pc)
        BY <3>1 DEF CreateModel
      <4>2. admin'[a].pc = pc
        BY <2>1, <4>1, LeavesTo
      <4> QED
        BY <3>1, <4>2 DEF CreateModel, SpentAdmins
    <3>3. Cardinality(SpentAdmins) + 1 <= Cardinality(SpentAdmins')
      BY <2>2, <2>4, <3>2, OneMore
    <3> QED
      BY <2>1, <2>3, <3>2, <3>3
  <2> QED
    BY <2>5, <2>6
<1>3. AdminInv /\ ModelsCounted => ModelTypeOK
  <2> SUFFICES ASSUME AdminInv, ModelsCounted
               PROVE  ModelTypeOK
    OBVIOUS
  <2>1. SpentAdmins \in SUBSET Admins
    BY DEF SpentAdmins
  <2>2. IsFiniteSet(SpentAdmins) /\ Cardinality(SpentAdmins) <= Cardinality(Admins)
    BY <2>1, FS_Subset
  <2>3. Cardinality(SpentAdmins) \in Nat /\ Cardinality(Admins) \in Nat
    BY <2>2, FS_CardinalityType
  <2>4. created \in 0..Cardinality(Admins)
    BY <2>2, <2>3 DEF AdminInv, AdminTypes, ModelsCounted
  <2>5. \A a \in Admins : admin[a].pc \in AdminPC /\ DOMAIN moved[a] \subseteq Models
    <3>1. \A a \in Admins : admin[a].pc \in AdminPC /\ moved[a] \in PlacesOf
      BY DEF AdminInv, AdminTypes, Request
    <3>2. \A places \in PlacesOf : DOMAIN places \subseteq Models
      BY DEF PlacesOf
    <3> QED
      BY <3>1, <3>2
  <2>6. DOMAIN models \subseteq Models /\ \A m \in DOMAIN models : models[m] \in ModelRow
    BY DEF AdminInv, AdminTypes, Table
  <2> QED
    BY <2>4, <2>5, <2>6 DEF ModelTypeOK, AdminInv, AdminTypes
<1> QED
  BY <1>1, <1>2, <1>3, AdminAlways, PTL DEF ModelSpec

\* No statement of users, models or records touches a table of another: what
\* is proved of each of them holds of the service as a whole.
THEOREM ServicesAreApart == ServicesSpec => UserSpec /\ ModelSpec /\ RecordSpec
<1>1. ServicesInit => UserInit /\ ModelInit /\ RecordInit
  BY DEF ServicesInit
<1>2. [ServicesNext]_servicesVars => [UserNext]_userVars /\ [ModelNext]_modelVars /\ [RecordNext]_recordVars
  BY DEF ServicesNext, servicesVars
<1> QED
  BY <1>1, <1>2, PTL DEF ServicesSpec, UserSpec, ModelSpec, RecordSpec

\* Users, models and records keep their types, for any finite number of
\* requests (ServicesTypeOK).
THEOREM ServicesTyped == IsFiniteSet(Calls) /\ IsFiniteSet(Admins) => (ServicesSpec => []ServicesTypeOK)
<1>1. RecordInv => RecordTypeOK
  <2> SUFFICES ASSUME RecordInv
               PROVE  RecordTypeOK
    OBVIOUS
  <2>1. DOMAIN labels \subseteq Requests /\ \A l \in DOMAIN labels : labels[l] \in Label
    BY DEF RecordInv, RecordTypes
  <2>2. DOMAIN chips \subseteq Refs /\ \A c \in DOMAIN chips : chips[c] \in Chip
    BY DEF RecordInv, RecordTypes
  <2>3. \A r \in Requests : request[r].pc \in RecordPC /\ request[r].creator \in Creators
    BY DEF RecordInv, RecordTypes, RecordRequest
  <2> QED
    BY <2>1, <2>2, <2>3 DEF RecordTypeOK, RecordInv, RecordTypes
<1>2. UserTypeOK /\ ModelTypeOK /\ RecordTypeOK => ServicesTypeOK
  BY DEF ServicesTypeOK
<1> QED
  BY <1>1, <1>2, ServicesAreApart, UsersTyped, ModelsTyped, RecordsAlways, PTL

=============================================================================
