----------------------------- MODULE ModelAdmin -----------------------------
(***************************************************************************)
(* The models on offer, as administrators keep them: create, update,       *)
(* reorder and delete, in the Flask service (model_config/) and in the     *)
(* FastAPI service (apps/api model_config/admin/), which share the table   *)
(* model_config.  A request is one transaction at READ COMMITTED: it reads *)
(* first and writes later what it has made of that, and an UPDATE locks    *)
(* its row until the transaction ends.                                     *)
(*                                                                         *)
(* One inference option stands for three (temperature, top_p, max_tokens), *)
(* and its upper limit for the lower one, too.                             *)
(***************************************************************************)
EXTENDS Integers, FiniteSets, Sequences

CONSTANTS
  Nothing,       \* the model of no request
  Models,        \* ids a model can have
  Admins,        \* requests of administrators
  Options,       \* values of the option, above 0
  DefaultOption, \* the option's default in the table, ...
  DefaultUpper,  \* ... and the default of its upper limit
  Places,        \* places that administrators give to models
  Length         \* models in a list, at most

ASSUME OptionsAssumption ==
  {DefaultOption, DefaultUpper} \subseteq Options /\ DefaultOption <= DefaultUpper
ASSUME NumbersAssumption ==
  Options \subseteq Nat \ {0} /\ Places \subseteq Int /\ Length \in Nat
ASSUME ModelsAssumption == IsFiniteSet(Models)

VARIABLES
  models,   \* the table: a row for each id that exists
  created,  \* models ever created
  admin,    \* per request: progress, what it asks for, what it has read
  moved,    \* per request: the places of the rows it has updated and not committed
  tainted,  \* history: <<model, "limits">> after a write of limits that nobody has
            \* checked, <<model, "kind">> after an update meant for an earlier row
  loose     \* history: the last list that was stored does not put all models in order

modelVars == <<models, created, admin, moved, tainted, loose>>

-----------------------------------------------------------------------------
Unset    == 0
Kind     == {"text only", "multi modal", "files only"}
Service  == {"flask", "fastapi"}
Given    == Options \cup {Unset}

\* The sequence that numbers new models, from the first one on.
Sequence(n) == 10 * (n + 1)

\* A row of model_config; files: there is one in multi_modal_model_config, too.
\* born tells a row from an earlier one of the same id.
ModelRow == [kind : Kind, files : BOOLEAN, order : Int, default : Options, upper : Options,
             born : Nat]

Flaws == {"limits", "kind"}

\* Wrong on purpose: what is not given is cleared.
OrElse_AsGiven(given, old) == given

OrElse(given, old) == IF given = Unset THEN old ELSE given
Fits(default, upper) == default = Unset \/ upper = Unset \/ default <= upper

\* Both services look at what a request gives before they look at any row.
IsSoundRequest(default, upper) == {default, upper} \subseteq Given /\ Fits(default, upper)

\* The other requests that hold the lock of a row.
Holders(a, m) == {b \in Admins \ {a} : m \in DOMAIN moved[b]}

-----------------------------------------------------------------------------
NoList    == <<>>
NoMoves   == [m \in {} |-> 0]
NoRequest == [pc |-> "idle", model |-> Nothing, kind |-> "text only",
              default |-> Unset, upper |-> Unset, list |-> NoList, at |-> 1, service |-> "flask",
              read |-> [default |-> Unset, upper |-> Unset, kind |-> "text only", born |-> 0]]
AdminPC == {"idle", "write", "check", "reorder", "remove", "done", "refused", "failed"}

Move(a, pc) == admin' = [admin EXCEPT ![a].pc = pc]
Leave(a, pc) ==
  /\ admin' = [admin EXCEPT ![a] = [NoRequest EXCEPT !.pc = pc]]
  /\ moved' = [moved EXCEPT ![a] = NoMoves]

\* Wrong on purpose: the number of a new model is the number of models.
NewModel_ByCount(kind, default, upper) ==
  [kind |-> kind, files |-> kind # "text only", order |-> Sequence(Cardinality(DOMAIN models)),
   born |-> created + 1,
   default |-> OrElse(default, DefaultOption), upper |-> OrElse(upper, DefaultUpper)]

NewModel(kind, default, upper) ==
  [kind |-> kind, files |-> kind # "text only", order |-> Sequence(created + 1),
   born |-> created + 1,
   default |-> OrElse(default, DefaultOption), upper |-> OrElse(upper, DefaultUpper)]

\* create: 409 if the id is taken; what is not given gets the table's default,
\* which nobody compares with what is given.
CreateModel(a) ==
  /\ admin[a].pc = "idle"
  /\ \E m \in Models, kind \in Kind, default, upper \in Given :
       /\ IsSoundRequest(default, upper)
       /\ IF m \in DOMAIN models
          THEN Leave(a, "refused") /\ UNCHANGED <<models, tainted>>
          ELSE /\ models' = [n \in DOMAIN models \cup {m} |->
                    IF n = m THEN NewModel(kind, default, upper) ELSE models[n]]
               /\ tainted' = (tainted \ ({m} \X Flaws)) \cup
                    (IF Unset \in {default, upper} THEN {<<m, "limits">>} ELSE {})
               /\ Leave(a, "done")
  /\ created' = created + 1  \* a sequence does not go back
  /\ UNCHANGED loose

-----------------------------------------------------------------------------
(***************************************************************************)
(* update                                                                  *)
(***************************************************************************)
\* Wrong on purpose: any row will do.
Loads_Any(kind, row) == TRUE

\* session.get finds a row of the class, or of a class below it, that
\* get_model_config_class names: all rows, those with files, files only.
Loads(kind, row) ==
  \/ kind = "text only"
  \/ kind = "multi modal" /\ row.files
  \/ kind = "files only" /\ row.kind = "files only"

Merged(request, row) ==
  [default |-> OrElse(request.default, row.default), upper |-> OrElse(request.upper, row.upper)]

\* Wrong on purpose: only the request is looked at, once more.
Sound_AsGiven(request, row) == Fits(request.default, request.upper)

\* Only the FastAPI service looks at the row that the update makes.
Sound(request, row) == Fits(Merged(request, row).default, Merged(request, row).upper)

\* A text-only request for a model with files has none of the attributes that
\* the update copies to such a model: an error, after which nothing is stored.
Copies(request, row) == row.kind # "text only" => request.kind # "text only"

FlaskAccepts(request, row)   == Loads(request.kind, row) /\ Copies(request, row)
FastapiAccepts(request, row) == FlaskAccepts(request, row) /\ Sound(request, row)

Accepts(request, row) ==
  IF request.service = "flask" THEN FlaskAccepts(request, row) ELSE FastapiAccepts(request, row)

\* What the request gives must fit together; then the row is loaded, changed
\* in memory and perhaps checked (404, 500 or 422).
ReadModel(a) ==
  /\ admin[a].pc = "idle"
  /\ \E m \in Models, kind \in Kind, default, upper \in Given, service \in Service :
       LET request == [NoRequest EXCEPT !.pc = "write", !.model = m, !.kind = kind,
                         !.default = default, !.upper = upper, !.service = service]
       IN  /\ IsSoundRequest(default, upper)
           /\ IF m \in DOMAIN models /\ Accepts(request, models[m])
              THEN admin' = [admin EXCEPT ![a] = [request EXCEPT !.read =
                     [default |-> models[m].default, upper |-> models[m].upper,
                      kind |-> models[m].kind, born |-> models[m].born]]]
              ELSE Move(a, "refused")
  /\ UNCHANGED <<models, created, moved, tainted, loose>>

\* The UPDATE names the columns that differ from what was read, waits for the
\* row's lock and fails if the row is gone.
Changed(a, column, old) ==
  LET new == Merged(admin[a], admin[a].read)[column]
  IN  IF new = admin[a].read[column] THEN old ELSE new

StoreUpdate(a) ==
  LET m == admin[a].model
      read == admin[a].read
  IN  /\ admin[a].pc = "write"
      /\ Holders(a, m) = {}
      /\ IF m \in DOMAIN models
         THEN \* The row of file options, if one is to be updated, may be missing.
              \/ /\ models' = [models EXCEPT
                       ![m].kind = IF admin[a].kind = read.kind THEN @ ELSE admin[a].kind,
                       ![m].default = Changed(a, "default", @),
                       ![m].upper = Changed(a, "upper", @)]
                 /\ tainted' = tainted \cup
                      (IF /\ admin[a].service = "fastapi"
                          /\ models[m].default = read.default /\ models[m].upper = read.upper
                       THEN {} ELSE {<<m, "limits">>}) \cup
                      (IF models[m].born = read.born THEN {} ELSE {<<m, "kind">>})
                 /\ Leave(a, "done")
              \/ /\ admin[a].kind # "text only" /\ ~models[m].files
                 /\ Leave(a, "failed") /\ UNCHANGED <<models, tainted>>
         ELSE Leave(a, "failed") /\ UNCHANGED <<models, tainted>>
      /\ UNCHANGED <<created, loose>>

-----------------------------------------------------------------------------
(***************************************************************************)
(* reorder: a list of models and their new places, as the administrator     *)
(* has arranged them.  It may leave models out, name one twice and give two *)
(* of them one place: nothing is checked but that the models exist.         *)
(***************************************************************************)
Entry    == [id : Models, place : Places]
Listings == UNION {[1..k -> Entry] : k \in 1..Length}
ItemsOf(list) == {list[i].id : i \in DOMAIN list}

ListModels(a) ==
  /\ admin[a].pc = "idle"
  /\ \E list \in Listings :
       admin' = [admin EXCEPT ![a] = [NoRequest EXCEPT !.pc = "check", !.list = list]]
  /\ UNCHANGED <<models, created, moved, tainted, loose>>

CheckModels(a) ==
  /\ admin[a].pc = "check"
  /\ IF ItemsOf(admin[a].list) \subseteq DOMAIN models
     THEN Move(a, "reorder")
     ELSE admin' = [admin EXCEPT ![a] = [NoRequest EXCEPT !.pc = "refused"]]
  /\ UNCHANGED <<models, created, moved, tainted, loose>>

Free(a, m) == Holders(a, m) = {}

\* The rows are updated in the order of the list; one that is gone by now is
\* passed over or an error, as the driver counts rows.
NextRow(a) == admin[a].list[admin[a].at].id
HasNext(a) == admin[a].at \in DOMAIN admin[a].list

Moved(a) ==
  [m \in DOMAIN moved[a] \cup ({NextRow(a)} \cap DOMAIN models) |->
     IF m = NextRow(a) THEN admin[a].list[admin[a].at].place ELSE moved[a][m]]

MoveRow(a) ==
  /\ admin[a].pc = "reorder"
  /\ HasNext(a)
  /\ Free(a, NextRow(a))
  /\ \/ /\ moved' = [moved EXCEPT ![a] = Moved(a)]
        /\ admin' = [admin EXCEPT ![a].at = @ + 1]
     \/ NextRow(a) \notin DOMAIN models /\ Leave(a, "failed")
  /\ UNCHANGED <<models, created, tainted, loose>>

\* The places of the rows that a list has moved put all models of the table in
\* an order, and none is above the numbers that these got from the sequence.
IsOrder(places) ==
  /\ DOMAIN places = DOMAIN models
  /\ \A m, n \in DOMAIN models : places[m] = places[n] => m = n
  /\ \A m \in DOMAIN models : \E n \in DOMAIN models : places[m] <= Sequence(models[n].born)

CommitOrder(a) ==
  /\ admin[a].pc = "reorder"
  /\ ~HasNext(a)
  /\ models' = [m \in DOMAIN models |->
                  IF m \in DOMAIN moved[a] THEN [models[m] EXCEPT !.order = moved[a][m]]
                  ELSE models[m]]
  /\ loose' = ~IsOrder(moved[a])
  /\ Leave(a, "done")
  /\ UNCHANGED <<created, tainted>>

\* Each of two transactions waits for a row of the other: one is ended.
BreakCircle(a) ==
  /\ admin[a].pc = "reorder"
  /\ HasNext(a)
  /\ \E b \in Holders(a, NextRow(a)) :
       /\ admin[b].pc = "reorder" /\ HasNext(b)
       /\ NextRow(b) \in DOMAIN moved[a]
  /\ Leave(a, "failed")
  /\ UNCHANGED <<models, created, tainted, loose>>

-----------------------------------------------------------------------------
(***************************************************************************)
(* delete                                                                  *)
(***************************************************************************)
FindModel(a) ==
  /\ admin[a].pc = "idle"
  /\ \E m \in Models :
       admin' = [admin EXCEPT ![a].pc = IF m \in DOMAIN models THEN "remove" ELSE "refused",
                   ![a].model = m]
  /\ UNCHANGED <<models, created, moved, tainted, loose>>

\* A row that is gone by now is not missed.
RemoveModel(a) ==
  /\ admin[a].pc = "remove"
  /\ Free(a, admin[a].model)
  /\ models' = [m \in DOMAIN models \ {admin[a].model} |-> models[m]]
  /\ Leave(a, "done")
  /\ UNCHANGED <<created, tainted, loose>>

-----------------------------------------------------------------------------
First(kind) == [kind |-> kind, files |-> kind # "text only", order |-> Sequence(0), born |-> 0,
                default |-> DefaultOption, upper |-> DefaultUpper]

ModelInit ==
  /\ \E m \in Models, kind \in Kind :
       models \in {[n \in {} |-> First(kind)], [n \in {m} |-> First(kind)]}
  /\ created = 0
  /\ admin = [a \in Admins |-> NoRequest]
  /\ moved = [a \in Admins |-> NoMoves]
  /\ tainted = {}
  /\ loose = FALSE

ModelStep(a) ==
  \/ CreateModel(a) \/ ReadModel(a) \/ StoreUpdate(a)
  \/ ListModels(a) \/ CheckModels(a) \/ MoveRow(a) \/ CommitOrder(a) \/ BreakCircle(a)
  \/ FindModel(a) \/ RemoveModel(a)

ModelNext == \E a \in Admins : ModelStep(a)

ModelSpec == ModelInit /\ [][ModelNext]_modelVars

-----------------------------------------------------------------------------
ModelTypeOK ==
  /\ DOMAIN models \subseteq Models
  /\ \A m \in DOMAIN models : models[m] \in ModelRow
  /\ created \in 0..Cardinality(Admins)
  /\ \A a \in Admins : admin[a].pc \in AdminPC /\ DOMAIN moved[a] \subseteq Models
  /\ tainted \subseteq Models \X Flaws /\ loose \in BOOLEAN

\* A list that puts all models in order is stored as a whole and stays in
\* force: no two models share a place from then on, whichever models come and go
\* and whatever else is being stored meanwhile, until a list is stored that
\* does not.  Such a list leaves out a model of the table by the time it is
\* stored (one that came after it was made, one that was deleted and created
\* anew after its turn), gives two of them one place, or goes beyond the
\* numbers that the models got from the sequence.
PlacesAreDistinct ==
  ~loose => \A m, n \in DOMAIN models : models[m].order = models[n].order => m = n

\* A model's default lies within its limits, or no message that leaves the
\* option open is accepted (endpoint.py:162): "to handle partial updates, we need to run
\* the constraint validation explicitly" (model_config_admin_update_service.py).
\* It does not after a partial creation, a partial update by the Flask service,
\* and an update that another one has overtaken between its check and its store.
DefaultsFitTheirLimits ==
  \A m \in DOMAIN models : <<m, "limits">> \notin tainted => models[m].default <= models[m].upper

\* A model has a row for its file options exactly when its kind says so, or
\* it cannot be loaded, whichever updates change the kind at the same time;
\* only an update of a model that was deleted and created anew while it was
\* under way can break that.
FileOptionsGoWithTheKind ==
  \A m \in DOMAIN models :
    <<m, "kind">> \notin tainted => (models[m].files <=> models[m].kind # "text only")
=============================================================================
