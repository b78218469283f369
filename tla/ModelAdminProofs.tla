-------------------------- MODULE ModelAdminProofs --------------------------
(***************************************************************************)
(* What holds of the models on offer for any number of administrators,     *)
(* models and options.                                                     *)
(*                                                                         *)
(* A request acts on what it has read, so the inductive invariant relates  *)
(* what each request carries along to the rows as they are by then: its    *)
(* kind still fits the row it has read, unless that is another row of the  *)
(* same id; the option and its limit fitted when they were read; and only  *)
(* a reorder has moved rows.  While the last list is one that puts all      *)
(* models in order, no place is above the numbers given out so far.         *)
(***************************************************************************)
EXTENDS ModelAdmin, FiniteSetTheorems, TLAPS

Lists   == {NoList} \cup Listings
Reading == [default : Given, upper : Given, kind : Kind, born : Nat]
Request == [pc : AdminPC, model : Models \cup {Nothing}, kind : Kind, default : Given,
            upper : Given, list : Lists, at : Nat \ {0}, service : Service, read : Reading]

\* The places of the rows that a request has moved.
PlacesOf == UNION {[set -> Places] : set \in SUBSET Models}

\* The rows of the table.
Table == UNION {[set -> ModelRow] : set \in SUBSET Models}

AdminTypes ==
  /\ models \in Table
  /\ created \in Nat
  /\ admin \in [Admins -> Request]
  /\ moved \in [Admins -> PlacesOf]
  /\ tainted \subseteq Models \X Flaws
  /\ loose \in BOOLEAN

\* Only a reorder has moved rows.
MovesFit(a) == moved[a] # NoMoves => admin[a].pc = "reorder"

\* Rows are numbered as they are created, and a list that puts them in order
\* stays within these numbers.
BirthFits(m) ==
  /\ models[m].born <= created
  /\ ~loose => models[m].order <= Sequence(created)
ReadingFits(a) == admin[a].read.born <= created

\* The kind a request asks for goes with the row it has read: the row has kept
\* its files since.
SameRow(a) ==
  /\ admin[a].pc = "write"
  /\ admin[a].model \in DOMAIN models
  /\ models[admin[a].model].born = admin[a].read.born
  /\ <<admin[a].model, "kind">> \notin tainted

KindFits(a) ==
  SameRow(a) => (admin[a].kind = "text only" <=> models[admin[a].model].kind = "text only")

\* What a request has read is set, and the FastAPI service has compared what
\* it is going to write.
LimitsFit(a) ==
  admin[a].pc = "write" =>
    /\ admin[a].read.default \in Options /\ admin[a].read.upper \in Options
    /\ admin[a].service = "fastapi" => Sound(admin[a], admin[a].read)

RequestFits(a) == MovesFit(a) /\ ReadingFits(a) /\ KindFits(a) /\ LimitsFit(a)

AdminInv ==
  /\ AdminTypes
  /\ \A a \in Admins : RequestFits(a)
  /\ \A m \in DOMAIN models : BirthFits(m)
  /\ PlacesAreDistinct /\ DefaultsFitTheirLimits /\ FileOptionsGoWithTheKind

\* The other requests stay as they are.
OthersStay(a) ==
  \A b \in Admins \ {a} : admin'[b] = admin[b] /\ moved'[b] = moved[b]

\* A row that was there stays as textual as it was, unless the history says more.
KindsStay ==
  \A m \in (DOMAIN models)' :
    models'[m].born <= created /\ <<m, "kind">> \notin tainted' =>
      /\ m \in DOMAIN models /\ models[m].born = models'[m].born
      /\ <<m, "kind">> \notin tainted
      /\ models'[m].kind = "text only" <=> models[m].kind = "text only"

-----------------------------------------------------------------------------
\* Constants and the request before it begins have their types.
LEMMA NoRequestTyped ==
  /\ NoRequest \in Request
  /\ DefaultOption \in Options /\ DefaultUpper \in Options
  /\ \A o \in Options : o \in Nat /\ o # Unset /\ o > 0
<1>1. DefaultOption \in Options /\ DefaultUpper \in Options
  BY OptionsAssumption
<1>2. \A o \in Options : o \in Nat /\ o # Unset /\ o > 0
  BY NumbersAssumption DEF Unset
<1>3. NoRequest \in Request
  BY DEF NoRequest, Request, Reading, AdminPC, Kind, Service, Given, Lists
<1> QED BY <1>1, <1>2, <1>3

\* A row of the table, and what the table is a function of.
LEMMA RowTyped ==
  ASSUME AdminTypes
  PROVE  /\ DOMAIN models \subseteq Models
         /\ models = [m \in DOMAIN models |-> models[m]]
         /\ \A m \in DOMAIN models :
              /\ models[m] \in ModelRow
              /\ models[m].kind \in Kind /\ models[m].files \in BOOLEAN
              /\ models[m].order \in Int /\ models[m].born \in Nat
              /\ models[m].default \in Options /\ models[m].upper \in Options
<1>1. PICK set \in SUBSET Models : models \in [set -> ModelRow]
  BY DEF AdminTypes, Table
<1> QED BY <1>1 DEF ModelRow

\* Nothing moved.
LEMMA NoMovesTyped == NoMoves \in PlacesOf
<1>1. NoMoves \in [{} -> Places]
  BY DEF NoMoves
<1> QED BY <1>1 DEF PlacesOf

\* What a table is made of.
LEMMA TableTyped ==
  ASSUME NEW set \in SUBSET Models, NEW f \in [set -> ModelRow]
  PROVE  f \in Table
BY DEF Table

\* A request that is over, or refused, is as none; it holds no row.
LEMMA Left ==
  ASSUME AdminTypes, NEW a \in Admins, NEW pc \in AdminPC \ {"write", "reorder"}, Leave(a, pc)
  PROVE  /\ admin' \in [Admins -> Request]
         /\ moved' \in [Admins -> PlacesOf]
         /\ OthersStay(a)
         /\ created' \in Nat => RequestFits(a)'
<1>1. [NoRequest EXCEPT !.pc = pc] \in Request
  BY NoRequestTyped DEF Request
<1>2. /\ admin' \in [Admins -> Request] /\ moved' \in [Admins -> PlacesOf]
      /\ OthersStay(a)
      /\ admin'[a] = [NoRequest EXCEPT !.pc = pc] /\ moved'[a] = NoMoves
  BY <1>1, NoMovesTyped DEF Leave, AdminTypes, OthersStay
<1>3. /\ admin'[a].pc = pc /\ pc \notin {"write", "reorder"}
      /\ admin'[a].read.born = 0
  <2> DEFINE new == [NoRequest EXCEPT !.pc = pc]
  <2>1. new.pc = pc /\ new.read = NoRequest.read
    BY DEF NoRequest
  <2>2. NoRequest.read.born = 0
    BY DEF NoRequest
  <2> HIDE DEF new
  <2> QED BY <1>2, <2>1, <2>2 DEF new
<1>4. ASSUME created' \in Nat PROVE RequestFits(a)'
  <2>1. MovesFit(a)'
    BY <1>2 DEF MovesFit
  <2>2. ReadingFits(a)'
    BY <1>3, <1>4 DEF ReadingFits
  <2>3. KindFits(a)' /\ LimitsFit(a)'
    BY <1>3 DEF KindFits, SameRow, LimitsFit
  <2> QED BY <2>1, <2>2, <2>3 DEF RequestFits
<1> QED BY <1>2, <1>4

\* What the other requests carry along still fits after a step that keeps kinds.
LEMMA OthersFit ==
  ASSUME AdminInv, AdminTypes', NEW a \in Admins, OthersStay(a), RequestFits(a)',
         created' >= created, KindsStay
  PROVE  \A b \in Admins : RequestFits(b)'
<1> SUFFICES ASSUME NEW b \in Admins, b # a PROVE RequestFits(b)'
  OBVIOUS
<1>1. /\ admin'[b] = admin[b] /\ moved'[b] = moved[b]
      /\ RequestFits(b)
      /\ admin[b].read.born \in Nat /\ created \in Nat /\ created' \in Nat
  BY DEF AdminInv, AdminTypes, OthersStay, Request, Reading
<1>2. MovesFit(b)' /\ ReadingFits(b)' /\ LimitsFit(b)'
  BY <1>1 DEF RequestFits, MovesFit, ReadingFits, LimitsFit
<1>3. KindFits(b)'
  <2> SUFFICES ASSUME SameRow(b)'
               PROVE  admin'[b].kind = "text only" <=>
                      models'[admin'[b].model].kind = "text only"
    BY DEF KindFits
  <2>1. SameRow(b) /\ (models'[admin[b].model].kind = "text only" <=>
                       models[admin[b].model].kind = "text only")
    BY <1>1 DEF SameRow, KindsStay, RequestFits, ReadingFits
  <2> QED BY <1>1, <2>1 DEF RequestFits, KindFits
<1> QED BY <1>2, <1>3 DEF RequestFits

\* A step that leaves the table alone only needs to keep the facts of its request.
LEMMA RequestKeeps ==
  ASSUME AdminInv, NEW a \in Admins, UNCHANGED <<models, tainted, loose>>,
         created' \in Nat, created' >= created,
         admin' \in [Admins -> Request], moved' \in [Admins -> PlacesOf],
         OthersStay(a), RequestFits(a)'
  PROVE  AdminInv'
<1>1. AdminTypes'
  BY DEF AdminInv, AdminTypes
<1>2. \A b \in Admins : RequestFits(b)'
  BY <1>1, OthersFit DEF KindsStay
<1>3. \A m \in (DOMAIN models)' : BirthFits(m)'
  <2> SUFFICES ASSUME NEW m \in DOMAIN models PROVE BirthFits(m)'
    OBVIOUS
  <2> QED BY RowTyped DEF AdminInv, AdminTypes, BirthFits, Sequence
<1>4. PlacesAreDistinct' /\ DefaultsFitTheirLimits' /\ FileOptionsGoWithTheKind'
  BY DEF AdminInv, PlacesAreDistinct, DefaultsFitTheirLimits, FileOptionsGoWithTheKind
<1> QED BY <1>1, <1>2, <1>3, <1>4 DEF AdminInv

\* A request may leave at any time.
LEMMA LeavingKeeps ==
  ASSUME AdminInv, NEW a \in Admins, UNCHANGED <<models, tainted, loose>>,
         created' \in Nat, created' >= created,
         NEW pc \in AdminPC \ {"write", "reorder"}, Leave(a, pc)
  PROVE  AdminInv'
BY Left, RequestKeeps DEF AdminInv, AdminTypes

-----------------------------------------------------------------------------
\* A new model comes with files if its kind has them, behind all others, and with
\* a default below its limit if nobody but the request has set the two.
LEMMA CreateKeeps ==
  ASSUME AdminInv, NEW a \in Admins, CreateModel(a)
  PROVE  AdminInv'
<1>1. /\ created \in Nat /\ created' = created + 1 /\ loose' = loose
      /\ {"done", "refused"} \subseteq AdminPC \ {"write", "reorder"}
  BY DEF AdminInv, AdminTypes, CreateModel, AdminPC
<1>2. PICK m \in Models, kind \in Kind, default \in Given, upper \in Given :
        /\ IsSoundRequest(default, upper)
        /\ IF m \in DOMAIN models
           THEN Leave(a, "refused") /\ UNCHANGED <<models, tainted>>
           ELSE /\ models' = [n \in DOMAIN models \cup {m} |->
                     IF n = m THEN NewModel(kind, default, upper) ELSE models[n]]
                /\ tainted' = (tainted \ ({m} \X Flaws)) \cup
                     (IF Unset \in {default, upper} THEN {<<m, "limits">>} ELSE {})
                /\ Leave(a, "done")
  BY DEF CreateModel
<1>3. CASE m \in DOMAIN models
  BY <1>1, <1>2, <1>3, LeavingKeeps
<1>4. CASE m \notin DOMAIN models
  <2> DEFINE new == NewModel(kind, default, upper)
  <2>1. /\ models' = [n \in DOMAIN models \cup {m} |-> IF n = m THEN new ELSE models[n]]
        /\ tainted' = (tainted \ ({m} \X Flaws)) \cup
             (IF Unset \in {default, upper} THEN {<<m, "limits">>} ELSE {})
        /\ Leave(a, "done")
    BY <1>2, <1>4
  <2>2. /\ new.kind = kind /\ (new.files <=> kind # "text only")
        /\ new.order = Sequence(created + 1) /\ new.born = created + 1
        /\ new.default = OrElse(default, DefaultOption)
        /\ new.upper = OrElse(upper, DefaultUpper)
    BY DEF NewModel
  <2>3. new.default \in Options /\ new.upper \in Options
    BY <2>2, NoRequestTyped DEF OrElse, Given
  <2>4. /\ Sequence(created + 1) \in Nat /\ Sequence(created) \in Nat
        /\ Sequence(created) < Sequence(created + 1)
    BY <1>1 DEF Sequence
  <2>5. new \in ModelRow
    BY <1>1, <2>3, <2>4 DEF NewModel, ModelRow
  <2> HIDE DEF new
  <2>5b. /\ new.born \in Nat /\ ~(new.born <= created) /\ new.born <= created'
         /\ new.order \in Nat /\ Sequence(created) < new.order
         /\ new.order <= Sequence(created')
    <3>1. new.born = created + 1 /\ new.order = Sequence(created + 1)
      BY <2>2
    <3>2. new.born \in Nat /\ ~(new.born <= created) /\ new.born <= created'
      BY <1>1, <3>1
    <3>3. Sequence(created') = Sequence(created + 1)
      BY <1>1
    <3> QED BY <2>4, <3>1, <3>2, <3>3
  <2>6. models' \in Table /\ (DOMAIN models)' = DOMAIN models \cup {m}
    <3>1. models' \in [DOMAIN models \cup {m} -> ModelRow]
      BY <2>1, <2>5, RowTyped DEF AdminInv
    <3> QED BY <2>1, <3>1, TableTyped, RowTyped DEF AdminInv
  <2>7. AdminTypes' /\ OthersStay(a) /\ RequestFits(a)'
    BY <1>1, <2>1, <2>6, Left DEF AdminInv, AdminTypes, Flaws
  <2>8. /\ models'[m] = new
        /\ \A n \in DOMAIN models : n # m /\ models'[n] = models[n]
        /\ \A n \in DOMAIN models, flaw \in Flaws :
             <<n, flaw>> \in tainted' <=> <<n, flaw>> \in tainted
    BY <1>4, <2>1
  <2>9. KindsStay
    BY <2>6, <2>8, <2>5b DEF KindsStay, Flaws
  <2>10. \A n \in (DOMAIN models)' : BirthFits(n)'
    <3>1. BirthFits(m)'
      BY <2>8, <2>5b DEF BirthFits
    <3>2. ASSUME NEW n \in DOMAIN models PROVE BirthFits(n)'
      BY <1>1, <2>8, RowTyped DEF AdminInv, BirthFits, Sequence
    <3> QED BY <2>6, <3>1, <3>2
  <2>11. PlacesAreDistinct'
    <3>1. ~loose => \A n \in DOMAIN models : models[n].order < new.order
      BY <2>4, <2>5b, RowTyped DEF AdminInv, BirthFits
    <3>2. \A n \in DOMAIN models : models[n].order \in Int
      BY RowTyped DEF AdminInv
    <3> QED BY <1>1, <2>6, <2>8, <2>5b, <3>1, <3>2 DEF AdminInv, PlacesAreDistinct
  <2>12. DefaultsFitTheirLimits'
    <3>1. <<m, "limits">> \notin tainted' => new.default <= new.upper
      BY <1>2, <2>1, <2>2 DEF IsSoundRequest, Fits, OrElse
    <3> QED BY <2>6, <2>8, <3>1 DEF AdminInv, DefaultsFitTheirLimits, Flaws
  <2>13. FileOptionsGoWithTheKind'
    BY <2>2, <2>6, <2>8 DEF AdminInv, FileOptionsGoWithTheKind, Flaws
  <2>14. \A b \in Admins : RequestFits(b)'
    BY <1>1, <2>7, <2>9, OthersFit
  <2> QED BY <2>7, <2>10, <2>11, <2>12, <2>13, <2>14 DEF AdminInv
<1> QED BY <1>3, <1>4

-----------------------------------------------------------------------------
\* An update that was read and accepted asks for a kind that goes with the row, and
\* in the FastAPI service for a default below its limit.
LEMMA ReadKeeps ==
  ASSUME AdminInv, NEW a \in Admins, ReadModel(a)
  PROVE  AdminInv'
<1>1. /\ admin[a].pc = "idle" /\ moved[a] = NoMoves
      /\ UNCHANGED <<models, created, moved, tainted, loose>> /\ created \in Nat
  BY DEF AdminInv, AdminTypes, ReadModel, RequestFits, MovesFit
<1>2. PICK m \in Models, kind \in Kind, default \in Given, upper \in Given,
           service \in Service :
        LET request == [NoRequest EXCEPT !.pc = "write", !.model = m, !.kind = kind,
                          !.default = default, !.upper = upper, !.service = service]
        IN  IF m \in DOMAIN models /\ Accepts(request, models[m])
            THEN admin' = [admin EXCEPT ![a] = [request EXCEPT !.read =
                   [default |-> models[m].default, upper |-> models[m].upper,
                    kind |-> models[m].kind, born |-> models[m].born]]]
            ELSE Move(a, "refused")
  BY ZenonT(40) DEF ReadModel
<1> DEFINE request == [NoRequest EXCEPT !.pc = "write", !.model = m, !.kind = kind,
                         !.default = default, !.upper = upper, !.service = service]
           read == [default |-> models[m].default, upper |-> models[m].upper,
                    kind |-> models[m].kind, born |-> models[m].born]
           new == [request EXCEPT !.read = read]
<1>3. CASE m \in DOMAIN models /\ Accepts(request, models[m])
  <2>1. admin' = [admin EXCEPT ![a] = new]
    BY <1>2, <1>3
  <2>2. read \in Reading /\ models[m].born <= created
    BY <1>3, RowTyped DEF AdminInv, Reading, Given, BirthFits
  <2>3. /\ new \in Request
        /\ new.pc = "write" /\ new.model = m /\ new.kind = kind
        /\ new.default = default /\ new.upper = upper /\ new.service = service
        /\ new.read = read
    BY <2>2, NoRequestTyped DEF NoRequest, Request, AdminPC
  <2>4. request.kind = kind /\ request.service = service
        /\ request.default = default /\ request.upper = upper
    BY DEF NoRequest
  <2>5. /\ read.default = models[m].default /\ read.upper = models[m].upper
        /\ read.born = models[m].born
    OBVIOUS
  <2> HIDE DEF new, request, read
  <2>6. admin' \in [Admins -> Request] /\ OthersStay(a) /\ admin'[a] = new
    BY <1>1, <2>1, <2>3 DEF AdminInv, AdminTypes, OthersStay
  <2>7. MovesFit(a)' /\ ReadingFits(a)'
    BY <1>1, <2>2, <2>3, <2>5, <2>6 DEF MovesFit, ReadingFits
  <2>8. KindFits(a)'
    <3> SUFFICES ASSUME <<m, "kind">> \notin tainted
                 PROVE  kind = "text only" <=> models[m].kind = "text only"
      BY <1>1, <2>3, <2>6 DEF KindFits, SameRow
    <3>1. Loads(kind, models[m]) /\ (models[m].kind # "text only" => kind # "text only")
      BY <1>3, <2>4 DEF Accepts, FlaskAccepts, FastapiAccepts, Loads, Copies
    <3>2. models[m].files <=> models[m].kind # "text only"
      BY <1>3 DEF AdminInv, FileOptionsGoWithTheKind
    <3> QED BY <3>1, <3>2 DEF Loads, Kind
  <2>9. LimitsFit(a)'
    <3>1. models[m].default \in Options /\ models[m].upper \in Options
      BY <1>3, RowTyped DEF AdminInv
    <3>2. service = "fastapi" => Sound(request, models[m])
      BY <1>3, <2>4 DEF Accepts, FastapiAccepts, Service
    <3>3. Sound(request, models[m]) => Sound(new, read)
      BY <2>3, <2>4, <2>5 DEF Sound, Merged
    <3> QED BY <2>3, <2>5, <2>6, <3>1, <3>2, <3>3 DEF LimitsFit
  <2> QED BY <1>1, <2>6, <2>7, <2>8, <2>9, RequestKeeps
          DEF AdminInv, AdminTypes, RequestFits
<1>4. CASE ~(m \in DOMAIN models /\ Accepts(request, models[m]))
  <2>1. Move(a, "refused")
    BY <1>2, <1>4
  <2>2. /\ admin' \in [Admins -> Request] /\ OthersStay(a)
        /\ admin'[a].pc = "refused" /\ admin'[a].read = admin[a].read
    BY <1>1, <2>1 DEF Move, AdminInv, AdminTypes, OthersStay, Request, AdminPC
  <2>3. RequestFits(a)'
    BY <1>1, <2>2 DEF AdminInv, RequestFits, MovesFit, ReadingFits, KindFits, SameRow, LimitsFit
  <2> QED BY <1>1, <2>2, <2>3, RequestKeeps DEF AdminInv, AdminTypes
<1> QED BY <1>3, <1>4

-----------------------------------------------------------------------------
\* What an update writes to a column: the merged value, or what is there.
LEMMA ChangedColumns ==
  ASSUME NEW a \in Admins, NEW default, NEW upper,
         Merged(admin[a], admin[a].read).default \in Options,
         Merged(admin[a], admin[a].read).upper \in Options,
         default \in Options, upper \in Options
  PROVE  /\ Changed(a, "default", default) \in Options
         /\ Changed(a, "upper", upper) \in Options
         /\ default = admin[a].read.default =>
              Changed(a, "default", default) = Merged(admin[a], admin[a].read).default
         /\ upper = admin[a].read.upper =>
              Changed(a, "upper", upper) = Merged(admin[a], admin[a].read).upper
BY DEF Changed

\* An update writes a kind that goes with the files of the row it has read, and
\* limits that nobody has changed since they were compared.
LEMMA StoreKeeps ==
  ASSUME AdminInv, NEW a \in Admins, StoreUpdate(a)
  PROVE  AdminInv'
<1> DEFINE m == admin[a].model
           read == admin[a].read
<1>1. /\ admin[a].pc = "write" /\ UNCHANGED <<created, loose>> /\ created \in Nat
      /\ {"done", "failed"} \subseteq AdminPC \ {"write", "reorder"}
  BY DEF AdminInv, AdminTypes, StoreUpdate, AdminPC
<1>2. CASE UNCHANGED <<models, tainted>> /\ Leave(a, "failed")
  BY <1>1, <1>2, LeavingKeeps
<1>3. CASE /\ m \in DOMAIN models
           /\ models' = [models EXCEPT
                ![m].kind = IF admin[a].kind = read.kind THEN @ ELSE admin[a].kind,
                ![m].default = Changed(a, "default", @),
                ![m].upper = Changed(a, "upper", @)]
           /\ tainted' = tainted \cup
                (IF /\ admin[a].service = "fastapi"
                    /\ models[m].default = read.default /\ models[m].upper = read.upper
                 THEN {} ELSE {<<m, "limits">>}) \cup
                (IF models[m].born = read.born THEN {} ELSE {<<m, "kind">>})
           /\ Leave(a, "done")
  <2> DEFINE merged == Merged(admin[a], read)
  <2>1. /\ models[m] \in ModelRow /\ m \in Models
        /\ models[m].kind \in Kind /\ models[m].files \in BOOLEAN
        /\ models[m].order \in Int /\ models[m].born \in Nat
        /\ models[m].default \in Options /\ models[m].upper \in Options
        /\ admin[a].kind \in Kind /\ admin[a].default \in Given /\ admin[a].upper \in Given
    BY <1>3, RowTyped DEF AdminInv, AdminTypes, Request
  <2>2. read.default \in Options /\ read.upper \in Options /\
        (admin[a].service = "fastapi" => Sound(admin[a], read))
    BY <1>1 DEF AdminInv, RequestFits, LimitsFit
  <2>3. merged.default \in Options /\ merged.upper \in Options
    BY <2>1, <2>2 DEF Merged, OrElse, Given
  <2>4. /\ (DOMAIN models)' = DOMAIN models
        /\ models'[m].kind = (IF admin[a].kind = read.kind THEN models[m].kind ELSE admin[a].kind)
        /\ models'[m].files = models[m].files
        /\ models'[m].order = models[m].order /\ models'[m].born = models[m].born
        /\ models'[m].default = Changed(a, "default", models[m].default)
        /\ models'[m].upper = Changed(a, "upper", models[m].upper)
        /\ \A n \in DOMAIN models : n # m => models'[n] = models[n]
    BY <1>3, <2>1 DEF ModelRow
  <2>5. /\ \A n \in DOMAIN models, flaw \in Flaws : <<n, flaw>> \in tainted => <<n, flaw>> \in tainted'
        /\ <<m, "limits">> \notin tainted' =>
             /\ admin[a].service = "fastapi"
             /\ models[m].default = read.default /\ models[m].upper = read.upper
        /\ <<m, "kind">> \notin tainted' => models[m].born = read.born
    BY <1>3
  <2>6. AdminTypes' /\ OthersStay(a) /\ RequestFits(a)'
    <3>1. models'[m] \in ModelRow
      BY <1>3, <2>1, <2>3, ChangedColumns DEF ModelRow
    <3>2. models' \in [DOMAIN models -> ModelRow]
      BY ZenonT(40), <1>3, <2>4, <3>1, RowTyped DEF AdminInv
    <3>3. models' \in Table
      BY <3>2, TableTyped, RowTyped DEF AdminInv
    <3>4. tainted' \subseteq Models \X Flaws
      BY <1>3, <2>1 DEF AdminInv, AdminTypes, Flaws
    <3> QED BY <1>1, <1>3, <3>3, <3>4, Left DEF AdminInv, AdminTypes
  <2>7. <<m, "kind">> \notin tainted' =>
          (models'[m].kind = "text only" <=> models[m].kind = "text only")
    <3>1. <<m, "kind">> \notin tainted' =>
            (admin[a].kind = "text only" <=> models[m].kind = "text only")
      BY <1>1, <1>3, <2>5 DEF AdminInv, RequestFits, KindFits, SameRow, Flaws
    <3> QED BY <2>4, <3>1
  <2>8. KindsStay
    BY <2>4, <2>5, <2>7 DEF KindsStay, Flaws
  <2>9. \A n \in (DOMAIN models)' : BirthFits(n)'
    <3> SUFFICES ASSUME NEW n \in DOMAIN models
                 PROVE  /\ models'[n].born <= created
                        /\ ~loose => models'[n].order <= Sequence(created)
      BY <1>1, <2>4 DEF BirthFits, Sequence
    <3> QED BY <2>4 DEF AdminInv, BirthFits
  <2>10. PlacesAreDistinct'
    BY <1>1, <2>4 DEF AdminInv, PlacesAreDistinct
  <2>11. DefaultsFitTheirLimits'
    <3>1. <<m, "limits">> \notin tainted' => models'[m].default <= models'[m].upper
      <4> SUFFICES ASSUME <<m, "limits">> \notin tainted'
                   PROVE  models'[m].default <= models'[m].upper
        OBVIOUS
      <4>1. Fits(merged.default, merged.upper)
        BY <2>2, <2>5 DEF Sound
      <4>2. models'[m].default = merged.default /\ models'[m].upper = merged.upper
        BY <2>1, <2>3, <2>4, <2>5, ChangedColumns
      <4> QED BY <2>3, <4>1, <4>2, NoRequestTyped DEF Fits
    <3> QED BY <2>4, <2>5, <3>1 DEF AdminInv, DefaultsFitTheirLimits, Flaws
  <2>12. FileOptionsGoWithTheKind'
    <3> SUFFICES ASSUME NEW n \in DOMAIN models, <<n, "kind">> \notin tainted'
                 PROVE  models'[n].files <=> models'[n].kind # "text only"
      BY <2>4 DEF FileOptionsGoWithTheKind
    <3>1. models[n].files <=> models[n].kind # "text only"
      BY <2>5 DEF AdminInv, FileOptionsGoWithTheKind, Flaws
    <3> QED BY <2>4, <2>7, <3>1
  <2>13. \A b \in Admins : RequestFits(b)'
    BY <1>1, <2>6, <2>8, OthersFit
  <2> QED BY <2>6, <2>9, <2>10, <2>11, <2>12, <2>13 DEF AdminInv
<1> QED BY <1>2, <1>3 DEF StoreUpdate

-----------------------------------------------------------------------------
\* The entries of a list are models and places.
LEMMA EntryTyped ==
  ASSUME NEW list \in Lists, NEW i \in DOMAIN list
  PROVE  list[i].id \in Models /\ list[i].place \in Places
<1>1. list # NoList
  BY DEF NoList
<1>2. PICK k \in 1..Length : list \in [1..k -> Entry]
  BY <1>1 DEF Lists, Listings
<1>3. list[i] \in Entry
  BY <1>2
<1> QED BY <1>3 DEF Entry

\* Listing, finding and checking: a request that writes nothing and holds nothing.
LEMMA ChoosingKeeps ==
  ASSUME AdminInv, NEW a \in Admins, ListModels(a) \/ CheckModels(a) \/ FindModel(a)
  PROVE  AdminInv'
<1>1. /\ UNCHANGED <<models, created, moved, tainted, loose>> /\ created \in Nat
      /\ moved[a] = NoMoves /\ moved \in [Admins -> PlacesOf] /\ admin[a] \in Request
  BY DEF AdminInv, AdminTypes, ListModels, CheckModels, FindModel, RequestFits, MovesFit
<1>2. /\ admin' \in [Admins -> Request] /\ OthersStay(a)
      /\ admin'[a].pc # "write"
      /\ admin'[a].read.born <= created
  <2>1. CASE ListModels(a)
    <3>1. PICK list \in Listings :
            admin' = [admin EXCEPT ![a] = [NoRequest EXCEPT !.pc = "check", !.list = list]]
      BY <2>1 DEF ListModels
    <3>2. list \in Lists
      BY DEF Lists
    <3> DEFINE new == [NoRequest EXCEPT !.pc = "check", !.list = list]
    <3>3. new \in Request /\ new.pc = "check" /\ new.read.born = 0
      BY <3>2, NoRequestTyped DEF Request, AdminPC, NoRequest
    <3>4. admin' = [admin EXCEPT ![a] = new]
      BY <3>1
    <3> HIDE DEF new
    <3>5. admin' \in [Admins -> Request] /\ OthersStay(a) /\ admin'[a] = new
      BY <1>1, <3>3, <3>4 DEF AdminInv, AdminTypes, OthersStay
    <3> QED BY <1>1, <3>3, <3>5
  <2>2. CASE CheckModels(a) /\ ~(ItemsOf(admin[a].list) \subseteq DOMAIN models)
    <3> DEFINE new == [NoRequest EXCEPT !.pc = "refused"]
    <3>1. admin' = [admin EXCEPT ![a] = new]
      BY <2>2 DEF CheckModels
    <3>2. new \in Request /\ new.pc = "refused" /\ new.read.born = 0
      BY NoRequestTyped DEF Request, AdminPC, NoRequest
    <3> HIDE DEF new
    <3>3. admin' \in [Admins -> Request] /\ OthersStay(a) /\ admin'[a] = new
      BY <1>1, <3>1, <3>2 DEF AdminInv, AdminTypes, OthersStay
    <3> QED BY <1>1, <3>2, <3>3
  <2>3. CASE (CheckModels(a) /\ ItemsOf(admin[a].list) \subseteq DOMAIN models) \/ FindModel(a)
    <3>1. PICK pc \in AdminPC \ {"write"}, m \in Models \cup {Nothing} :
            admin' = [admin EXCEPT ![a].pc = pc, ![a].model = m]
      <4>1. CASE CheckModels(a) /\ ItemsOf(admin[a].list) \subseteq DOMAIN models
        <5>1. "reorder" \in AdminPC \ {"write"} /\ admin[a].model \in Models \cup {Nothing}
          BY <1>1 DEF AdminPC, Request
        <5>2. admin' = [admin EXCEPT ![a].pc = "reorder"]
          BY <4>1 DEF CheckModels, Move
        <5>3. admin' = [admin EXCEPT ![a].pc = "reorder", ![a].model = admin[a].model]
          BY <1>1, <5>2 DEF AdminInv, AdminTypes, Request
        <5> QED BY <5>1, <5>3
      <4>2. CASE FindModel(a)
        BY <4>2 DEF FindModel, AdminPC
      <4> QED BY <2>3, <4>1, <4>2
    <3> DEFINE new == [admin[a] EXCEPT !.pc = pc, !.model = m]
    <3>1b. new \in Request /\ admin' = [admin EXCEPT ![a] = new]
      BY <1>1, <3>1 DEF AdminInv, AdminTypes, Request
    <3>2. admin' \in [Admins -> Request] /\ OthersStay(a)
      <4> HIDE DEF new
      <4> QED BY <1>1, <3>1b DEF AdminInv, AdminTypes, OthersStay
    <3>3. admin'[a].pc = pc /\ admin'[a].read = admin[a].read
      BY <1>1, <3>1 DEF AdminInv, AdminTypes, Request
    <3> QED BY <3>1, <3>2, <3>3 DEF AdminInv, RequestFits, ReadingFits
  <2> QED BY <2>1, <2>2, <2>3
<1>3. RequestFits(a)'
  BY <1>1, <1>2 DEF RequestFits, MovesFit, ReadingFits, KindFits, SameRow, LimitsFit
<1> QED BY <1>1, <1>2, <1>3, RequestKeeps

\* A reorder goes on to the next row of its list.
LEMMA MoveKeeps ==
  ASSUME AdminInv, NEW a \in Admins, MoveRow(a) \/ BreakCircle(a)
  PROVE  AdminInv'
<1>1. /\ UNCHANGED <<models, created, tainted, loose>> /\ created \in Nat
      /\ admin[a].pc = "reorder" /\ HasNext(a) /\ admin[a] \in Request
      /\ "failed" \in AdminPC \ {"write", "reorder"}
  BY DEF AdminInv, AdminTypes, MoveRow, BreakCircle, AdminPC
<1>2. CASE Leave(a, "failed")
  BY <1>1, <1>2, LeavingKeeps
<1>3. CASE /\ moved' = [moved EXCEPT ![a] = Moved(a)]
           /\ admin' = [admin EXCEPT ![a].at = @ + 1]
  <2> DEFINE entry == admin[a].list[admin[a].at]
             rows  == DOMAIN moved[a] \cup ({NextRow(a)} \cap DOMAIN models)
  <2>1. entry.id \in Models /\ entry.place \in Places
    BY <1>1, EntryTyped DEF HasNext, Request
  <2>1b. PICK set \in SUBSET Models : moved[a] \in [set -> Places]
    BY DEF AdminInv, AdminTypes, PlacesOf
  <2>1c. Moved(a) \in PlacesOf
    <3>1. rows \in SUBSET Models /\ \A m \in rows : m # NextRow(a) => moved[a][m] \in Places
      BY <2>1, <2>1b DEF NextRow
    <3>2. Moved(a) \in [rows -> Places]
      BY <2>1, <3>1 DEF Moved
    <3> QED BY <3>1, <3>2 DEF PlacesOf
  <2>2. moved' \in [Admins -> PlacesOf] /\ OthersStay(a)
    BY <1>3, <2>1c DEF AdminInv, AdminTypes, OthersStay
  <2>3. admin' \in [Admins -> Request]
    BY <1>1, <1>3 DEF AdminInv, AdminTypes, Request
  <2>4. /\ admin'[a].pc = "reorder" /\ admin'[a].read = admin[a].read
    BY <1>1, <1>3 DEF AdminInv, AdminTypes, Request
  <2>5. RequestFits(a)'
    BY <1>1, <2>4
       DEF AdminInv, RequestFits, MovesFit, ReadingFits, KindFits, SameRow, LimitsFit
  <2> QED BY <1>1, <2>2, <2>3, <2>5, RequestKeeps
<1> QED BY <1>2, <1>3 DEF MoveRow, BreakCircle

\* A list that puts all models in order gives each a place of its own, within
\* the numbers that the models got.
LEMMA CommitKeeps ==
  ASSUME AdminInv, NEW a \in Admins, CommitOrder(a)
  PROVE  AdminInv'
<1> DEFINE places == moved[a]
<1>1. /\ UNCHANGED <<created, tainted>> /\ created \in Nat
      /\ models' = [m \in DOMAIN models |->
                      IF m \in DOMAIN places THEN [models[m] EXCEPT !.order = places[m]]
                      ELSE models[m]]
      /\ loose' = ~IsOrder(places)
      /\ Leave(a, "done") /\ "done" \in AdminPC \ {"write", "reorder"}
      /\ places \in PlacesOf
  BY DEF AdminInv, AdminTypes, CommitOrder, AdminPC
<1>2. /\ (DOMAIN models)' = DOMAIN models
      /\ \A m \in DOMAIN models :
           /\ m \in DOMAIN places => models'[m].order = places[m]
           /\ m \notin DOMAIN places => models'[m].order = models[m].order
           /\ models'[m].kind = models[m].kind /\ models'[m].files = models[m].files
           /\ models'[m].default = models[m].default /\ models'[m].upper = models[m].upper
           /\ models'[m].born = models[m].born
  BY <1>1, RowTyped DEF AdminInv, ModelRow
<1>3. \A m \in DOMAIN models : models'[m] \in ModelRow
  <2> SUFFICES ASSUME NEW m \in DOMAIN models PROVE models'[m] \in ModelRow
    OBVIOUS
  <2>1. models[m] \in ModelRow
    BY RowTyped DEF AdminInv
  <2>2. CASE m \in DOMAIN places
    <3>1. PICK set \in SUBSET Models : places \in [set -> Places]
      BY <1>1 DEF PlacesOf
    <3>2. places[m] \in Int
      BY <2>2, <3>1, NumbersAssumption
    <3> QED BY <1>1, <2>1, <2>2, <3>2 DEF ModelRow
  <2>3. CASE m \notin DOMAIN places
    BY <1>1, <2>1, <2>3
  <2> QED BY <2>2, <2>3
<1>4. AdminTypes' /\ OthersStay(a) /\ RequestFits(a)'
  <2>1. models' \in [DOMAIN models -> ModelRow]
    BY <1>1, <1>2, <1>3
  <2>2. models' \in Table
    BY <2>1, TableTyped, RowTyped DEF AdminInv
  <2> QED BY <1>1, <2>2, Left DEF AdminInv, AdminTypes
<1>5. \A b \in Admins : RequestFits(b)'
  BY <1>1, <1>2, <1>4, OthersFit DEF KindsStay
<1>6. \A m \in (DOMAIN models)' : BirthFits(m)'
  <2> SUFFICES ASSUME NEW m \in DOMAIN models
               PROVE  /\ models'[m].born <= created
                      /\ ~loose' => models'[m].order <= Sequence(created)
    BY <1>1, <1>2 DEF BirthFits, Sequence
  <2>1. models'[m].born <= created
    BY <1>2 DEF AdminInv, BirthFits
  <2>2. ASSUME ~loose' PROVE models'[m].order <= Sequence(created)
    <3>1. IsOrder(places) /\ models'[m].order = places[m]
      BY <1>1, <1>2, <2>2 DEF IsOrder
    <3>2. PICK n \in DOMAIN models : places[m] <= Sequence(models[n].born)
      BY <3>1 DEF IsOrder
    <3>3. models[n].born \in Nat /\ models[n].born <= created
      BY RowTyped DEF AdminInv, BirthFits
    <3>4. models'[m].order \in Int
      BY <1>3 DEF ModelRow
    <3> QED BY <1>1, <3>1, <3>2, <3>3, <3>4 DEF Sequence
  <2> QED BY <2>1, <2>2
<1>7. PlacesAreDistinct'
  <2> SUFFICES ASSUME ~loose', NEW m \in DOMAIN models, NEW n \in DOMAIN models,
                      models'[m].order = models'[n].order
               PROVE  m = n
    BY <1>2 DEF PlacesAreDistinct
  <2>1. IsOrder(places)
    BY <1>1
  <2>2. places[m] = places[n]
    BY <1>2, <2>1 DEF IsOrder
  <2> QED BY <2>1, <2>2 DEF IsOrder
<1>8. DefaultsFitTheirLimits'
  BY <1>1, <1>2 DEF AdminInv, DefaultsFitTheirLimits
<1>9. FileOptionsGoWithTheKind'
  <2> SUFFICES ASSUME NEW m \in DOMAIN models, <<m, "kind">> \notin tainted
               PROVE  models'[m].files <=> models'[m].kind # "text only"
    BY <1>1, <1>2 DEF FileOptionsGoWithTheKind
  <2>1. models[m].files <=> models[m].kind # "text only"
    BY DEF AdminInv, FileOptionsGoWithTheKind
  <2>2. models'[m].files = models[m].files /\ models'[m].kind = models[m].kind
    BY <1>2
  <2> QED BY <2>1, <2>2
<1> QED BY <1>4, <1>5, <1>6, <1>7, <1>8, <1>9 DEF AdminInv

-----------------------------------------------------------------------------
\* A deletion takes a row away, whoever else has read it.
LEMMA RemoveKeeps ==
  ASSUME AdminInv, NEW a \in Admins, RemoveModel(a)
  PROVE  AdminInv'
<1>1. /\ UNCHANGED <<created, tainted, loose>> /\ created \in Nat
      /\ models' = [m \in DOMAIN models \ {admin[a].model} |-> models[m]]
      /\ Leave(a, "done") /\ "done" \in AdminPC \ {"write", "reorder"}
  BY DEF AdminInv, AdminTypes, RemoveModel, AdminPC
<1>2. /\ (DOMAIN models)' \subseteq DOMAIN models
      /\ \A m \in (DOMAIN models)' : models'[m] = models[m]
  BY <1>1
<1>3. AdminTypes' /\ OthersStay(a) /\ RequestFits(a)'
  <2>1. models' \in [DOMAIN models \ {admin[a].model} -> ModelRow]
    BY <1>1, RowTyped DEF AdminInv
  <2>2. models' \in Table
    BY <2>1, TableTyped, RowTyped DEF AdminInv
  <2> QED BY <1>1, <2>2, Left DEF AdminInv, AdminTypes
<1>4. \A b \in Admins : RequestFits(b)'
  <2>1. KindsStay
    BY <1>1, <1>2 DEF KindsStay
  <2> QED BY <1>1, <1>3, <2>1, OthersFit
<1>5. \A m \in (DOMAIN models)' : BirthFits(m)'
  BY <1>1, <1>2 DEF AdminInv, BirthFits, Sequence
<1>6. PlacesAreDistinct' /\ DefaultsFitTheirLimits' /\ FileOptionsGoWithTheKind'
  BY <1>1, <1>2 DEF AdminInv, PlacesAreDistinct, DefaultsFitTheirLimits,
                    FileOptionsGoWithTheKind
<1> QED BY <1>3, <1>4, <1>5, <1>6 DEF AdminInv

-----------------------------------------------------------------------------
\* No request of an administrator breaks the invariant, whichever others are
\* under way.
THEOREM AdminAlways == ModelSpec => []AdminInv
<1>1. ModelInit => AdminInv
  <2> SUFFICES ASSUME ModelInit PROVE AdminInv
    OBVIOUS
  <2>1. PICK m \in Models, kind \in Kind :
          models \in {[n \in {} |-> First(kind)], [n \in {m} |-> First(kind)]}
    BY DEF ModelInit
  <2>1b. Sequence(0) \in Nat /\ Sequence(0) <= Sequence(0)
    BY DEF Sequence
  <2>2. /\ First(kind) \in ModelRow
        /\ First(kind).born = 0 /\ First(kind).order = Sequence(0)
        /\ First(kind).default = DefaultOption /\ First(kind).upper = DefaultUpper
    BY <2>1b, OptionsAssumption DEF First, ModelRow
  <2>2b. First(kind).files <=> First(kind).kind # "text only"
    BY DEF First
  <2>3. \E set \in SUBSET {m} : models = [n \in set |-> First(kind)]
    BY <2>1
  <2>4. PICK set \in SUBSET {m} : models = [n \in set |-> First(kind)]
    BY <2>3
  <2>5. AdminTypes
    <3>1. models \in [set -> ModelRow] /\ set \in SUBSET Models
      BY <2>2, <2>4
    <3>2. models \in Table
      BY <3>1, TableTyped
    <3> QED BY <3>2, NoRequestTyped, NoMovesTyped DEF ModelInit, AdminTypes
  <2>6. ASSUME NEW a \in Admins PROVE RequestFits(a)
    <3>1. /\ admin[a] = NoRequest /\ moved[a] = NoMoves /\ created = 0
          /\ NoRequest.pc = "idle" /\ NoRequest.read.born = 0
      BY DEF ModelInit, NoRequest
    <3> QED BY <3>1 DEF RequestFits, MovesFit, ReadingFits, KindFits, SameRow, LimitsFit
  <2>7. \A n \in DOMAIN models : n = m /\ models[n] = First(kind)
    BY <2>4
  <2>8. \A n \in DOMAIN models : BirthFits(n)
    BY <2>1b, <2>2, <2>7 DEF BirthFits, ModelInit
  <2>9. PlacesAreDistinct /\ FileOptionsGoWithTheKind
    BY <2>2b, <2>7 DEF PlacesAreDistinct, FileOptionsGoWithTheKind
  <2>10. DefaultsFitTheirLimits
    BY <2>2, <2>7, OptionsAssumption DEF DefaultsFitTheirLimits
  <2> QED BY <2>5, <2>6, <2>8, <2>9, <2>10 DEF AdminInv
<1>2. AdminInv /\ [ModelNext]_modelVars => AdminInv'
  <2> SUFFICES ASSUME AdminInv, [ModelNext]_modelVars PROVE AdminInv'
    OBVIOUS
  <2>1. ASSUME NEW a \in Admins, ModelStep(a) PROVE AdminInv'
    BY <2>1, CreateKeeps, ReadKeeps, StoreKeeps, ChoosingKeeps, MoveKeeps, CommitKeeps,
       RemoveKeeps DEF ModelStep
  <2>2. CASE UNCHANGED modelVars
    <3>1. AdminTypes' /\ \A m \in (DOMAIN models)' : BirthFits(m)'
      BY <2>2 DEF modelVars, AdminInv, AdminTypes, BirthFits, Sequence
    <3>2. \A a \in Admins : RequestFits(a)'
      BY <2>2 DEF modelVars, AdminInv, RequestFits, MovesFit, ReadingFits, KindFits,
                  SameRow, LimitsFit
    <3>3. PlacesAreDistinct' /\ DefaultsFitTheirLimits' /\ FileOptionsGoWithTheKind'
      BY <2>2 DEF modelVars, AdminInv, PlacesAreDistinct, DefaultsFitTheirLimits,
                  FileOptionsGoWithTheKind
    <3> QED BY <3>1, <3>2, <3>3 DEF AdminInv
  <2> QED BY <2>1, <2>2 DEF ModelNext
<1> QED BY <1>1, <1>2, PTL DEF ModelSpec

-----------------------------------------------------------------------------
\* A list that puts all models in order stays in force, for any number of
\* reorders, creations and deletions at once and whatever lists they bring,
\* until one is stored that does not (PlacesAreDistinct).
THEOREM PlacesHold == ModelSpec => []PlacesAreDistinct
<1>1. AdminInv => PlacesAreDistinct
  BY DEF AdminInv
<1> QED BY <1>1, AdminAlways, PTL

\* A default lies within its limit wherever the FastAPI service has compared the
\* row that it wrote, for any values of the option (DefaultsFitTheirLimits).
THEOREM LimitsHold == ModelSpec => []DefaultsFitTheirLimits
<1>1. AdminInv => DefaultsFitTheirLimits
  BY DEF AdminInv
<1> QED BY <1>1, AdminAlways, PTL

\* File options exist for the kinds that need them, however many updates change
\* the kind of a model at the same time (FileOptionsGoWithTheKind).
THEOREM KindsHold == ModelSpec => []FileOptionsGoWithTheKind
<1>1. AdminInv => FileOptionsGoWithTheKind
  BY DEF AdminInv
<1> QED BY <1>1, AdminAlways, PTL
=============================================================================
