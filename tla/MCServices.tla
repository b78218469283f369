----------------------------- MODULE MCServices -----------------------------
(***************************************************************************)
(* Users, models and records for TLC.  The three share a database and      *)
(* nothing else: no statement of one touches a table of another.  One of   *)
(* them moves in a behaviour, the others stay as they begin.               *)
(***************************************************************************)
EXTENDS UserAccounts, ModelAdmin, Records, TLC

VARIABLE focus

servicesVars == <<userVars, modelVars, recordVars, focus>>

ServicesInit ==
  /\ focus \in {"users", "models", "records"}
  /\ UserInit /\ ModelInit /\ RecordInit
  /\ focus # "models" => DOMAIN models = {}

ServicesNext ==
  /\ UNCHANGED focus
  /\ \/ focus = "users"   /\ UserNext   /\ UNCHANGED <<modelVars, recordVars>>
     \/ focus = "models"  /\ ModelNext  /\ UNCHANGED <<userVars, recordVars>>
     \/ focus = "records" /\ RecordNext /\ UNCHANGED <<userVars, modelVars>>

ServicesSpec == ServicesInit /\ [][ServicesNext]_servicesVars

\* Requests are alike, and so are models and messages; they share their ids here.
Interchangeable == Permutations(Calls) \cup Permutations(Models)

\* Users, models and records have their types.
ServicesTypeOK == UserTypeOK /\ ModelTypeOK /\ RecordTypeOK
=============================================================================
