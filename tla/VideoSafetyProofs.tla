------------------------- MODULE VideoSafetyProofs -------------------------
(***************************************************************************)
(* What holds of every instance of VideoSafety: any number of messages,    *)
(* videos, workers, retries and deaths, with or without a storage that     *)
(* loses deletions.                                                        *)
(*                                                                         *)
(* The files of a message appear in the bucket only while its request is   *)
(* uploading.  The inductive invariant carries there what the loop of      *)
(* check_video_safety establishes: the videos before the one it is at have *)
(* passed, and a job that was queued never becomes unqueued.               *)
(***************************************************************************)
EXTENDS VideoSafety, TLAPS

\* A video has passed the check, or is known to the queue, or is exempt.
Cleared(v) == "bypassed" \notin slips[v[1]] =>
              /\ mode = "blocking" => verdict[v] = "safe"
              /\ mode = "queued" => job[v] # "none"

GateFits(m) ==
  /\ pc[m] \in {"checking", "annotating", "refused"} => FilesOf(m) \cap bucket = {}
  /\ pc[m] \in {"checking", "annotating"} =>
       \A v \in FilesOf(m) : v[2] < file[m] => Cleared(v)
  /\ pc[m] \in {"checked", "uploading", "naming", "named", "failed"} =>
       \A v \in FilesOf(m) : Cleared(v)
  /\ pc[m] = "checked" => FilesOf(m) \cap bucket = {}

\* A job goes on only with a response that it could read.
Legible(v) == job[v] \in InFlight => verdict[v] # "unreadable"

GateInv == /\ TypeOK
           /\ \A m \in Messages : GateFits(m)
           /\ \A v \in Video : Legible(v)

\* What has gone wrong for a message stays on record.
SlipsGrow == \A m \in Messages : slips[m] \subseteq slips'[m]

-----------------------------------------------------------------------------
\* The videos of a message are numbered from one.
LEMMA VideoNumbers ==
  /\ \A m \in Messages : \A i \in 1..VideosPer[m] : <<m, i>> \in Video
  /\ \A v \in Video : /\ v[1] \in Messages /\ VideosPer[v[1]] \in Nat \ {0}
                      /\ v[2] \in 1..VideosPer[v[1]] /\ v = <<v[1], v[2]>>
<1>1. \A m \in Messages : \A i \in 1..VideosPer[m] : <<m, i>> \in Video
  BY DEF Video
<1>2. ASSUME NEW v \in Video
      PROVE  /\ v[1] \in Messages /\ VideosPer[v[1]] \in Nat \ {0}
             /\ v[2] \in 1..VideosPer[v[1]] /\ v = <<v[1], v[2]>>
  <2>1. PICK m \in Messages : v \in {<<m, i>> : i \in 1..VideosPer[m]}
    BY DEF Video
  <2>2. PICK i \in 1..VideosPer[m] : v = <<m, i>>
    BY <2>1
  <2> QED BY <2>2, VideosAssumption
<1> QED BY <1>1, <1>2

\* The video a request is at is one of its own.
LEMMA HereIsOwn ==
  ASSUME TypeOK, NEW m \in Messages
  PROVE  /\ Here(m) \in FilesOf(m) /\ Here(m)[1] = m /\ Here(m)[2] = file[m]
         /\ file[m] \in 1..VideosPer[m] /\ VideosPer[m] \in Nat
BY VideoNumbers, VideosAssumption DEF TypeOK, Here, FilesOf

\* A note is a slip like another.
LEMMA NoteTypes ==
  ASSUME TypeOK, NEW m \in Messages, NEW what \in SUBSET Slip, Note(m, what)
  PROVE  SlipsGrow /\ slips' \in [Messages -> SUBSET Slip]
<1>1. /\ slips \in [Messages -> SUBSET Slip]
      /\ slips' = [slips EXCEPT ![m] = slips[m] \cup what]
  BY DEF TypeOK, Note
<1>2. slips[m] \cup what \in SUBSET Slip
  BY <1>1
<1> QED BY <1>1, <1>2 DEF SlipsGrow

\* A deletion takes nothing but what it was asked to, and its failure is on record.
LEMMA DeletedShrinks ==
  ASSUME TypeOK, NEW m \in Messages, NEW from, NEW names, NEW to,
         Deleted(m, from, names, to)
  PROVE  to \subseteq from /\ SlipsGrow /\ slips' \in [Messages -> SUBSET Slip]
<1>1. CASE to = from \ names /\ UNCHANGED slips
  BY <1>1 DEF TypeOK, SlipsGrow
<1>2. CASE to = from /\ Note(m, {"lost"})
  <2>1. {"lost"} \in SUBSET Slip
    BY DEF Slip
  <2> QED BY <1>2, <2>1, NoteTypes
<1> QED BY <1>1, <1>2 DEF Deleted

\* A step of the worker, of the user or of the clock adds no file, takes no job out
\* of the queue's books and leaves the request alone.
LEMMA GateStable ==
  ASSUME GateInv, UNCHANGED <<mode, pc, file, verdict>>, bucket' \subseteq bucket,
         SlipsGrow,
         \A v \in Video : job[v] # "none" => job'[v] # "none"
  PROVE  \A m \in Messages : GateFits(m)'
<1> SUFFICES ASSUME NEW m \in Messages PROVE GateFits(m)'
  OBVIOUS
<1>1. GateFits(m) /\ FilesOf(m)' = FilesOf(m) /\ FilesOf(m) \subseteq Video
  BY DEF GateInv, FilesOf
<1>2. \A v \in FilesOf(m) : Cleared(v) => Cleared(v)'
  BY <1>1, VideoNumbers DEF Cleared, SlipsGrow
<1> QED BY <1>1, <1>2 DEF GateFits

\* A step of one request disturbs the gate of no other.
LEMMA OthersStable ==
  ASSUME GateInv, NEW m \in Messages, UNCHANGED <<mode, verdict>>, SlipsGrow,
         bucket' \subseteq bucket \cup FilesOf(m),
         \A v \in Video : job[v] # "none" => job'[v] # "none",
         \A v \in Video : job'[v] \in InFlight => job[v] \in InFlight,
         \A n \in Messages \ {m} : pc'[n] = pc[n] /\ file'[n] = file[n]
  PROVE  /\ \A n \in Messages \ {m} : GateFits(n)'
         /\ \A v \in Video : Legible(v)'
<1>0. \A v \in Video : Legible(v)'
  BY DEF GateInv, Legible
<1> SUFFICES ASSUME NEW n \in Messages \ {m} PROVE GateFits(n)'
  BY <1>0
<1>1. /\ GateFits(n) /\ FilesOf(n)' = FilesOf(n) /\ FilesOf(n) \subseteq Video
      /\ FilesOf(n) \cap FilesOf(m) = {}
  BY DEF GateInv, FilesOf
<1>2. \A v \in FilesOf(n) : Cleared(v) => Cleared(v)'
  BY <1>1, VideoNumbers DEF Cleared, SlipsGrow
<1>3. FilesOf(n) \cap bucket = {} => FilesOf(n) \cap bucket' = {}
  BY <1>1
<1> QED BY <1>1, <1>2, <1>3 DEF GateFits

\* check_video_safety: a video that passes is cleared, and the loop reaches its end
\* with all of them cleared.
LEMMA CheckKeeps ==
  ASSUME GateInv, NEW m \in Messages,
         UploadToSafetyBucket(m) \/ CheckRequest(m)
  PROVE  GateInv'
<1>1. /\ Here(m) \in FilesOf(m) /\ Here(m)[1] = m /\ Here(m)[2] = file[m]
      /\ file[m] \in 1..VideosPer[m] /\ VideosPer[m] \in Nat
      /\ FilesOf(m) \subseteq Video
  BY HereIsOwn DEF GateInv, FilesOf
<1>2. FilesOf(m)' = FilesOf(m)
  BY DEF FilesOf
<1>3. CASE UploadToSafetyBucket(m)
  <2>1. /\ pc[m] = "checking" /\ pc' = [pc EXCEPT ![m] = "annotating"]
        /\ safety' = safety \cup {Here(m)}
        /\ UNCHANGED <<mode, file, row, verdict, bucket, job, tries, seen, deaths, del, slips>>
    BY <1>3 DEF UploadToSafetyBucket, Goto
  <2>2. TypeOK'
    BY <1>1, <2>1 DEF GateInv, TypeOK, RequestPC, Here
  <2>3. GateFits(m)'
    <3>1. \A v \in FilesOf(m) : Cleared(v)' <=> Cleared(v)
      BY <2>1 DEF Cleared
    <3> QED BY <1>2, <2>1, <3>1 DEF GateInv, TypeOK, GateFits
  <2> QED BY <2>1, <2>2, <2>3, OthersStable DEF GateInv, TypeOK, SlipsGrow
<1>4. CASE CheckRequest(m)
  <2>1. /\ pc[m] = "annotating" /\ Passes(m) /\ NextVideo(m)
        /\ job' = [job EXCEPT ![Here(m)] = IF mode = "queued" THEN "queued" ELSE @]
        /\ UNCHANGED <<mode, row, verdict, safety, bucket, tries, seen, deaths, del, slips>>
    BY <1>4 DEF CheckRequest, Queued
  <2>2. /\ job' \in [Video -> JobPC]
        /\ \A v \in Video : job[v] # "none" => job'[v] # "none"
        /\ \A v \in Video : job'[v] \in InFlight => job[v] \in InFlight
        /\ mode = "queued" => job'[Here(m)] # "none"
    BY <1>1, <2>1 DEF GateInv, TypeOK, JobPC, InFlight
  <2>3. \A v \in FilesOf(m) : v = Here(m) \/ Cleared(v) => Cleared(v)'
    BY <1>1, <2>1, <2>2 DEF Passes, Cleared
  <2>4. CASE file[m] = VideosPer[m]
    <3>1. pc' = [pc EXCEPT ![m] = "checked"] /\ file' = file
      BY <2>1, <2>4 DEF NextVideo, Goto
    <3>2. TypeOK'
      BY <2>1, <2>2, <3>1 DEF GateInv, TypeOK, RequestPC, Here
    <3>3. ASSUME NEW v \in FilesOf(m) PROVE Cleared(v)'
      <4>1. v \in Video /\ v[1] = m /\ v[2] \in 1..VideosPer[m] /\ v = <<m, v[2]>>
        BY VideoNumbers DEF FilesOf
      <4>2. CASE v[2] < file[m]
        BY <2>1, <2>3, <4>2 DEF GateInv, GateFits
      <4>3. CASE v[2] = file[m]
        BY <2>3, <4>1, <4>3 DEF Here
      <4> QED BY <1>1, <2>4, <4>1, <4>2, <4>3
    <3>4. GateFits(m)'
      BY <1>2, <2>1, <3>1, <3>3 DEF GateInv, TypeOK, GateFits
    <3> QED BY <2>1, <2>2, <3>1, <3>2, <3>4, OthersStable DEF GateInv, TypeOK, SlipsGrow
  <2>5. CASE file[m] # VideosPer[m]
    <3>1. pc' = [pc EXCEPT ![m] = "checking"] /\ file' = [file EXCEPT ![m] = file[m] + 1]
      BY <2>1, <2>5 DEF NextVideo, Goto
    <3>2. file[m] + 1 \in 1..VideosPer[m] /\ <<m, file[m] + 1>> \in Video
      BY <1>1, <2>5, VideoNumbers
    <3>3. file'[m] = file[m] + 1 /\ pc'[m] = "checking"
      BY <3>1 DEF GateInv, TypeOK
    <3>4. TypeOK'
      <4>1. pc' \in [Messages -> RequestPC] /\ file' \in [Messages -> Nat \ {0}]
        BY <1>1, <3>1 DEF GateInv, TypeOK, RequestPC
      <4>2. \A n \in Messages : Here(n)' \in Video
        BY <3>1, <3>2 DEF GateInv, TypeOK, Here
      <4> QED BY <2>1, <2>2, <4>1, <4>2 DEF GateInv, TypeOK
    <3>5. ASSUME NEW v \in FilesOf(m), v[2] < file[m] + 1 PROVE Cleared(v)'
      <4>1. v \in Video /\ v[1] = m /\ v[2] \in 1..VideosPer[m] /\ v = <<m, v[2]>>
        BY VideoNumbers DEF FilesOf
      <4>2. CASE v[2] < file[m]
        BY <2>1, <2>3, <4>2 DEF GateInv, GateFits
      <4>3. CASE v[2] = file[m]
        BY <2>3, <4>1, <4>3 DEF Here
      <4> QED BY <1>1, <3>5, <4>1, <4>2, <4>3
    <3>6. GateFits(m)'
      BY <1>2, <2>1, <3>3, <3>5 DEF GateInv, GateFits
    <3> QED BY <2>1, <2>2, <3>1, <3>4, <3>6, OthersStable DEF GateInv, TypeOK, SlipsGrow
  <2> QED BY <2>4, <2>5
<1> QED BY <1>3, <1>4

\* A request that is refused has made nothing public; one that goes on to store its
\* message and its files has all of them cleared.
LEMMA RequestKeeps ==
  ASSUME GateInv, NEW m \in Messages,
         \/ Bypass(m) \/ CheckRefuses(m) \/ Refuse(m) \/ CreateUserMessage(m)
         \/ UploadRequestFile(m) \/ CommitFileUrls(m) \/ CutOff(m)
  PROVE  GateInv'
<1>1. /\ Here(m) \in FilesOf(m) /\ Here(m)[2] = file[m]
      /\ file[m] \in 1..VideosPer[m] /\ VideosPer[m] \in Nat \ {0}
      /\ FilesOf(m) \subseteq Video /\ FilesOf(m)' = FilesOf(m)
      /\ <<m, 1>> \in Video
  BY HereIsOwn, VideoNumbers, VideosAssumption DEF GateInv, FilesOf
<1>2. CASE CheckRefuses(m) \/ Refuse(m) \/ CutOff(m)
  <2>1. PICK where \in {"refused", "failed"} :
          /\ pc' = [pc EXCEPT ![m] = where]
          /\ where = "refused" => pc[m] \in {"checking", "annotating", "checked"}
          /\ where = "failed" => pc[m] \in {"uploading", "naming"}
    BY <1>2 DEF CheckRefuses, Refuse, CutOff, Goto
  <2>2. /\ safety' \subseteq safety /\ SlipsGrow /\ slips' \in [Messages -> SUBSET Slip]
        /\ UNCHANGED <<mode, file, row, verdict, bucket, job, tries, seen, deaths, del>>
    <3>1. CASE CheckRefuses(m)
      BY <3>1, DeletedShrinks DEF CheckRefuses, GateInv
    <3>2. CASE Refuse(m) \/ CutOff(m)
      BY <3>2 DEF Refuse, CutOff, GateInv, TypeOK, SlipsGrow
    <3> QED BY <1>2, <3>1, <3>2
  <2>3. TypeOK'
    BY <2>1, <2>2 DEF GateInv, TypeOK, RequestPC, Here
  <2>4. GateFits(m)'
    <3>1. \A v \in FilesOf(m) : Cleared(v) => Cleared(v)'
      BY <2>2 DEF Cleared, SlipsGrow, FilesOf
    <3> QED BY <1>1, <2>1, <2>2, <3>1 DEF GateInv, TypeOK, GateFits
  <2> QED BY <2>1, <2>2, <2>3, <2>4, OthersStable DEF GateInv, TypeOK, SlipsGrow
<1>3. CASE CreateUserMessage(m)
  <2>1. /\ pc[m] = "checked" /\ pc' = [pc EXCEPT ![m] = "uploading"]
        /\ row' = [row EXCEPT ![m] = [NoRow EXCEPT !.exists = TRUE]]
        /\ file' = [file EXCEPT ![m] = 1]
        /\ UNCHANGED <<mode, verdict, safety, bucket, job, tries, seen, deaths, del, slips>>
    BY <1>3 DEF CreateUserMessage, Goto
  <2>2. [NoRow EXCEPT !.exists = TRUE] \in RowType
    BY DEF NoRow, RowType, Marks
  <2>3. TypeOK'
    <3>1. \A n \in Messages : Here(n)' \in Video
      BY <1>1, <2>1 DEF GateInv, TypeOK, Here
    <3> QED BY <2>1, <2>2, <3>1 DEF GateInv, TypeOK, RequestPC
  <2>4. GateFits(m)'
    BY <1>1, <2>1 DEF GateInv, TypeOK, GateFits, Cleared
  <2> QED BY <2>1, <2>3, <2>4, OthersStable DEF GateInv, TypeOK, SlipsGrow
<1>4. CASE UploadRequestFile(m)
  <2>1. /\ pc[m] = "uploading" /\ bucket' = bucket \cup {Here(m)}
        /\ UNCHANGED <<mode, row, verdict, safety, job, tries, seen, deaths, del, slips>>
    BY <1>4 DEF UploadRequestFile
  <2>2. \/ /\ pc' = [pc EXCEPT ![m] = "naming"] /\ file' = file
        \/ /\ file[m] # VideosPer[m]
           /\ file' = [file EXCEPT ![m] = file[m] + 1] /\ pc' = pc
    BY <1>4 DEF UploadRequestFile, Goto
  <2>3. file[m] # VideosPer[m] => file[m] + 1 \in Nat \ {0} /\ <<m, file[m] + 1>> \in Video
    BY <1>1, VideoNumbers
  <2>4. TypeOK'
    <3>1. pc' \in [Messages -> RequestPC] /\ file' \in [Messages -> Nat \ {0}]
      BY <2>2, <2>3 DEF GateInv, TypeOK, RequestPC
    <3>2. \A n \in Messages : Here(n)' \in Video
      BY <2>2, <2>3 DEF GateInv, TypeOK, Here
    <3> QED BY <1>1, <2>1, <3>1, <3>2 DEF GateInv, TypeOK
  <2>5. GateFits(m)'
    BY <1>1, <2>1, <2>2 DEF GateInv, TypeOK, GateFits, Cleared
  <2> QED BY <1>1, <2>1, <2>2, <2>4, <2>5, OthersStable DEF GateInv, TypeOK, SlipsGrow
<1>5. CASE CommitFileUrls(m)
  <2>1. PICK where \in {"named", "failed"} :
          pc[m] = "naming" /\ pc' = [pc EXCEPT ![m] = where]
    BY <1>5 DEF CommitFileUrls, Goto
  <2>2. /\ row' \in [Messages -> RowType]
        /\ UNCHANGED <<mode, file, verdict, safety, bucket, job, tries, seen, deaths, del, slips>>
    <3> DEFINE F == FilesOf(m)
    <3>0. row[m] \in RowType /\ F \in SUBSET Video
      BY <1>1 DEF GateInv, TypeOK
    <3> HIDE DEF F
    <3>1. [row[m] EXCEPT !.urls = F] \in RowType
      BY <3>0 DEF RowType
    <3> USE DEF F
    <3> QED BY <1>5, <3>1 DEF CommitFileUrls, GateInv, TypeOK
  <2>3. TypeOK'
    BY <2>1, <2>2 DEF GateInv, TypeOK, RequestPC, Here
  <2>4. GateFits(m)'
    BY <1>1, <2>1, <2>2 DEF GateInv, TypeOK, GateFits, Cleared
  <2> QED BY <2>1, <2>2, <2>3, <2>4, OthersStable DEF GateInv, TypeOK, SlipsGrow
<1>6. CASE Bypass(m)
  <2>1. /\ pc[m] = "checking" /\ pc' = [pc EXCEPT ![m] = "checked"]
        /\ slips' = [slips EXCEPT ![m] = slips[m] \cup {"bypassed"}]
        /\ UNCHANGED <<mode, file, row, verdict, safety, bucket, job, tries, seen, deaths, del>>
    BY <1>6 DEF Bypass, Goto, Note
  <2>0. SlipsGrow /\ slips' \in [Messages -> SUBSET Slip]
    <3>1. Note(m, {"bypassed"}) /\ {"bypassed"} \in SUBSET Slip
      BY <1>6 DEF Bypass, Slip
    <3> QED BY <3>1, NoteTypes DEF GateInv
  <2>2. TypeOK'
    BY <2>0, <2>1 DEF GateInv, TypeOK, RequestPC, Here
  <2>3. \A v \in FilesOf(m) : Cleared(v)'
    BY <2>1 DEF FilesOf, Cleared, GateInv, TypeOK
  <2>4. GateFits(m)'
    BY <1>1, <2>1, <2>3 DEF GateInv, TypeOK, GateFits
  <2> QED BY <2>0, <2>1, <2>2, <2>4, OthersStable DEF GateInv, TypeOK, SlipsGrow
<1> QED BY <1>2, <1>3, <1>4, <1>5, <1>6

\* A job that is retried is queued again or exhausted, never forgotten.
LEMMA RetryTypes ==
  ASSUME TypeOK, NEW v \in Video, Retry(v)
  PROVE  /\ job' \in [Video -> JobPC]
         /\ tries' \in [Video -> 0..MaxRetries]
         /\ seen' \in [Video -> RowType]
         /\ \A w \in Video : job[w] # "none" => job'[w] # "none"
         /\ \A w \in Video : job'[w] \in InFlight => job[w] \in InFlight
<1>1. NoRow \in RowType
  BY DEF NoRow, RowType, Marks
<1>2. tries[v] \in 0..MaxRetries /\ MaxRetries \in Nat
  BY WorkerAssumption DEF TypeOK
<1> QED BY <1>1, <1>2 DEF TypeOK, Retry, JobPC, InFlight

\* No step of a worker opens the gate: it only deletes files and files of its own
\* message, and a job stays in the books.
LEMMA JobKeeps ==
  ASSUME GateInv, NEW v \in Video,
         Job(v) \/ OperationNotAvailable(v) \/ WorkerDies(v)
  PROVE  GateInv'
<1>1. /\ NoRow \in RowType /\ v[1] \in Messages /\ row[v[1]] \in RowType
      /\ seen[v] \in RowType
  BY VideoNumbers DEF GateInv, TypeOK, NoRow, RowType, Marks
<1>2. CASE JobFails(v) \/ OperationNotAvailable(v) \/ UpdateFails(v)
  <2>1. Retry(v) /\ UNCHANGED <<mode, pc, file, row, verdict, safety, bucket, deaths, del, slips>>
    BY <1>2 DEF JobFails, OperationNotAvailable, UpdateFails
  <2>2. TypeOK'
    BY <2>1, RetryTypes DEF GateInv, TypeOK, Here
  <2>3. \A w \in Video : Legible(w)'
    BY <2>1, RetryTypes DEF GateInv, Legible
  <2> QED BY <2>1, <2>2, <2>3, RetryTypes, GateStable DEF GateInv, SlipsGrow
<1>3. CASE ReadMessage(v) \/ WorkerDies(v)
  <2>1. PICK at \in {"marking", "committing", "queued"}, new \in RowType :
          /\ job' = [job EXCEPT ![v] = at]
          /\ seen' = [seen EXCEPT ![v] = new]
          /\ at # "queued" => verdict[v] # "unreadable"
    BY <1>1, <1>3 DEF ReadMessage, WorkerDies
  <2>2. /\ deaths' \in 0..Deaths
        /\ UNCHANGED <<mode, pc, file, row, verdict, safety, bucket, tries, del>>
    BY <1>3, WorkerAssumption DEF ReadMessage, WorkerDies, GateInv, TypeOK
  <2>0. SlipsGrow /\ slips' \in [Messages -> SUBSET Slip]
    <3>1. CASE WorkerDies(v)
      BY <3>1 DEF WorkerDies, GateInv, TypeOK, SlipsGrow
    <3>2. CASE ReadMessage(v)
      <4>1. PICK what \in SUBSET Slip : Note(v[1], what)
        BY <3>2 DEF ReadMessage, Slip
      <4> QED BY <1>1, <4>1, NoteTypes DEF GateInv
    <3> QED BY <1>3, <3>1, <3>2
  <2>3. TypeOK'
    BY <2>0, <2>1, <2>2 DEF GateInv, TypeOK, JobPC, InFlight, Here
  <2>4. \A w \in Video : Legible(w)'
    BY <2>1, <2>2 DEF GateInv, TypeOK, Legible, InFlight
  <2> QED BY <2>0, <2>1, <2>2, <2>3, <2>4, GateStable DEF GateInv, SlipsGrow, TypeOK
<1>4. CASE DeleteSafetyFile(v) \/ DeleteMessageFiles(v)
  <2>1. PICK at \in {"purging", "committing"} : job' = [job EXCEPT ![v] = at]
    BY <1>4 DEF DeleteSafetyFile, DeleteMessageFiles
  <2>2. /\ safety' \subseteq safety /\ bucket' \subseteq bucket
        /\ SlipsGrow /\ slips' \in [Messages -> SUBSET Slip]
        /\ job[v] \in InFlight
        /\ UNCHANGED <<mode, pc, file, row, verdict, tries, seen, deaths, del>>
    BY <1>1, <1>4, DeletedShrinks DEF DeleteSafetyFile, DeleteMessageFiles, InFlight, GateInv
  <2>3. TypeOK'
    BY <2>1, <2>2 DEF GateInv, TypeOK, JobPC, InFlight, Here
  <2>4. \A w \in Video : Legible(w)'
    BY <2>1, <2>2 DEF GateInv, TypeOK, Legible, InFlight
  <2> QED BY <2>1, <2>2, <2>3, <2>4, GateStable DEF GateInv, SlipsGrow, TypeOK
<1>5. CASE UpdateMessage(v)
  <2> DEFINE h == IF Marked(v) # seen[v].harmful THEN Marked(v) ELSE row[v[1]].harmful
             u == IF Named(v) # seen[v].urls THEN Named(v) ELSE row[v[1]].urls
  <2>1. /\ job[v] = "committing" /\ job' = [job EXCEPT ![v] = "done"]
        /\ seen' = [seen EXCEPT ![v] = NoRow]
        /\ row' = [row EXCEPT ![v[1]].harmful = h, ![v[1]].urls = u]
        /\ UNCHANGED <<mode, pc, file, verdict, safety, bucket, tries, deaths, del, slips>>
    BY <1>5 DEF UpdateMessage
  <2>2. h \in Marks /\ u \in SUBSET Video
    <3>1. verdict[v] \in Marks
      BY <2>1 DEF GateInv, TypeOK, Legible, InFlight, Verdicts, Marks
    <3>2. /\ seen[v].harmful \in Marks /\ seen[v].urls \in SUBSET Video
          /\ row[v[1]].harmful \in Marks /\ row[v[1]].urls \in SUBSET Video
      BY <1>1 DEF RowType
    <3> QED BY <3>1, <3>2 DEF Marked, Named, Marks
  <2>3. row' \in [Messages -> RowType]
    <3> HIDE DEF h, u
    <3>1. [row[v[1]] EXCEPT !.harmful = h, !.urls = u] \in RowType
      BY <1>1, <2>2 DEF RowType
    <3>2. row' = [row EXCEPT ![v[1]] = [row[v[1]] EXCEPT !.harmful = h, !.urls = u]]
      BY <1>1, <2>1 DEF GateInv, TypeOK, RowType
    <3> QED BY <1>1, <3>1, <3>2 DEF GateInv, TypeOK
  <2>4. TypeOK'
    BY <1>1, <2>1, <2>3 DEF GateInv, TypeOK, JobPC, Here
  <2>5. \A w \in Video : Legible(w)'
    BY <2>1 DEF GateInv, TypeOK, Legible, InFlight
  <2> QED BY <2>1, <2>4, <2>5, GateStable DEF GateInv, SlipsGrow, TypeOK
<1> QED BY <1>2, <1>3, <1>4, <1>5 DEF Job

\* Neither the user's deletion nor the clock opens the gate.
LEMMA DeletionKeeps ==
  ASSUME GateInv, NEW m \in Messages, Deletion(m) \/ Expire(m)
  PROVE  GateInv'
<1>1. /\ NoRow \in RowType /\ row[m] \in RowType
      /\ del[m] \in [at : DelPC, urls : SUBSET Video]
  BY DEF GateInv, TypeOK, NoRow, RowType, Marks
<1>2. UNCHANGED <<mode, pc, file, verdict, safety, job, tries, seen, deaths>>
  BY DEF Deletion, Expire, ReadForDelete, DeleteFiles, DeleteRow
<1>3. bucket' \subseteq bucket /\ SlipsGrow /\ slips' \in [Messages -> SUBSET Slip]
  <2>1. CASE DeleteFiles(m)
    BY <2>1, DeletedShrinks DEF DeleteFiles, GateInv
  <2>2. CASE ReadForDelete(m)
    <3>1. PICK what \in SUBSET Slip : Note(m, what)
      BY <2>2 DEF ReadForDelete, Slip
    <3> QED BY <2>2, <3>1, NoteTypes DEF ReadForDelete, GateInv
  <2>3. CASE DeleteRow(m) \/ Expire(m)
    BY <2>3 DEF DeleteRow, Expire, GateInv, TypeOK, SlipsGrow
  <2> QED BY <2>1, <2>2, <2>3 DEF Deletion
<1>4. row' \in [Messages -> RowType]
  <2>1. [row[m] EXCEPT !.expired = TRUE] \in RowType
    BY <1>1 DEF RowType
  <2> QED BY <1>1, <2>1
          DEF Deletion, Expire, ReadForDelete, DeleteFiles, DeleteRow, GateInv, TypeOK
<1>5. del' \in [Messages -> [at : DelPC, urls : SUBSET Video]]
  <2>1. /\ row[m].urls \in SUBSET Video
        /\ {"read", "purged", "over"} \subseteq DelPC
        /\ [del[m] EXCEPT !.at = "purged"] \in [at : DelPC, urls : SUBSET Video]
    BY <1>1 DEF RowType, DelPC
  <2> QED BY <2>1
          DEF Deletion, Expire, ReadForDelete, DeleteFiles, DeleteRow, GateInv, TypeOK
<1>6. TypeOK'
  BY <1>2, <1>3, <1>4, <1>5 DEF GateInv, TypeOK, Here
<1>7. \A w \in Video : Legible(w)'
  BY <1>2 DEF GateInv, Legible
<1> QED BY <1>2, <1>3, <1>6, <1>7, GateStable DEF GateInv, SlipsGrow

-----------------------------------------------------------------------------
\* Requests, jobs, users and the clock keep the invariant, in any interleaving.
THEOREM GateAlways == Spec => []GateInv
<1>1. Init => GateInv
  <2> SUFFICES ASSUME Init PROVE GateInv
    OBVIOUS
  <2>1. NoRow \in RowType /\ 0 \in 0..MaxRetries /\ 0 \in 0..Deaths
    BY WorkerAssumption DEF NoRow, RowType, Marks
  <2>2. ASSUME NEW m \in Messages PROVE Here(m) \in Video
    <3>1. file[m] = 1 /\ 1 \in 1..VideosPer[m]
      BY VideosAssumption DEF Init
    <3> QED BY <3>1, VideoNumbers DEF Here
  <2>3. TypeOK
    BY <2>1, <2>2 DEF Init, TypeOK, RequestPC, JobPC, DelPC
  <2>4. ASSUME NEW m \in Messages PROVE GateFits(m)
    <3>1. \A v \in FilesOf(m) : ~(v[2] < file[m])
      BY VideoNumbers, VideosAssumption DEF FilesOf, Init
    <3> QED BY <3>1 DEF Init, GateFits
  <2>5. \A v \in Video : Legible(v)
    BY DEF Init, Legible, InFlight
  <2> QED BY <2>3, <2>4, <2>5 DEF GateInv
<1>2. GateInv /\ [Next]_vars => GateInv'
  <2> SUFFICES ASSUME GateInv, [Next]_vars PROVE GateInv'
    OBVIOUS
  <2>1. ASSUME NEW m \in Messages, Request(m) PROVE GateInv'
    BY <2>1, CheckKeeps, RequestKeeps DEF Request
  <2>2. ASSUME NEW m \in Messages, Deletion(m) \/ Expire(m) PROVE GateInv'
    BY <2>2, DeletionKeeps
  <2>3. ASSUME NEW v \in Video, Job(v) \/ OperationNotAvailable(v) \/ WorkerDies(v)
        PROVE  GateInv'
    BY <2>3, JobKeeps
  <2>4. CASE UNCHANGED vars
    <3>1. TypeOK' /\ \A w \in Video : Legible(w)'
      BY <2>4 DEF vars, GateInv, TypeOK, Here, Legible
    <3> QED BY <2>4, <3>1, GateStable DEF vars, GateInv, SlipsGrow
  <2> QED BY <2>1, <2>2, <2>3, <2>4 DEF Next
<1> QED BY <1>1, <1>2, PTL DEF Spec

\* No file of a message is public before all its videos have passed the blocking
\* check or are known to the queue, for any number of messages and videos, whatever
\* fails on the way (OnlyCheckedIsPublic).
THEOREM GateHolds == Spec => []OnlyCheckedIsPublic
<1>1. GateInv => OnlyCheckedIsPublic
  BY DEF GateInv, TypeOK, GateFits, OnlyCheckedIsPublic, Cleared, RequestPC, FilesOf
<1> QED BY <1>1, GateAlways, PTL

\* The row, the buckets and the jobs keep their types (TypeOK).
THEOREM VideoTypes == Spec => []TypeOK
<1>1. GateInv => TypeOK
  BY DEF GateInv
<1> QED BY <1>1, GateAlways, PTL
-----------------------------------------------------------------------------
(***************************************************************************)
(* What the worker and the user leave behind.  A message that is over is   *)
(* written by nobody but its jobs and its deletion, so what one of them    *)
(* has read of the row covers what is public from then on; every way in    *)
(* which a read can come too early is on record in slips.                  *)
(***************************************************************************)
Dealt == InFlight \cup {"done"}

Public(m) == FilesOf(m) \cap bucket

\* The row and its jobs come after the checks; who reads it early is on record.
Timely(m) ==
  /\ pc[m] \in {"checking", "annotating", "checked"} =>
       ~row[m].exists /\ \A v \in FilesOf(m) : job[v] \notin Dealt
  /\ pc[m] \notin Over /\ "hasty" \notin slips[m] => \A v \in FilesOf(m) : job[v] \notin Dealt
  /\ pc[m] \notin Over /\ "early" \notin slips[m] => del[m].at = "no"

\* The row names no more than a job has read, and nothing after an unsafe verdict.
NamesFit(m) ==
  "hasty" \notin slips[m] =>
    \A v \in FilesOf(m) :
      /\ job[v] \in InFlight => row[m].urls \subseteq seen[v].urls
      /\ job[v] = "done" /\ verdict[v] = "unsafe" => row[m].urls = {}

\* One job at a time holds the row, and an unsafe verdict stays in it.
MarkFits(m) ==
  "overlap" \notin slips[m] =>
    \A v \in FilesOf(m) :
      /\ job[v] \in InFlight => \A w \in FilesOf(m) : job[w] \in InFlight => w = v
      /\ job[v] \in InFlight /\ row[m].exists => seen[v].harmful = row[m].harmful
      /\ job[v] = "done" /\ verdict[v] = "unsafe" /\ row[m].exists
           => row[m].harmful = "unsafe"

\* Whoever is about to delete has read the names of all that is public.
PublicFits(m) ==
  pc[m] = "named" /\ slips[m] \cap {"hasty", "early", "lost"} = {} =>
    /\ Public(m) \subseteq row[m].urls
    /\ \A v \in FilesOf(m) :
         /\ job[v] \in InFlight => Public(m) \subseteq seen[v].urls
         /\ job[v] \in {"committing", "done"} /\ verdict[v] = "unsafe" => Public(m) = {}
    /\ del[m].at = "read" => Public(m) \subseteq del[m].urls
    /\ del[m].at \in {"purged", "over"} => Public(m) = {}

MessageFits(m) == Timely(m) /\ NamesFit(m) /\ MarkFits(m) /\ PublicFits(m)

VideoInv == \A m \in Messages : MessageFits(m)

\* A step that concerns message m leaves the rows, jobs and files of the others.
Apart(m) ==
  /\ \A n \in Messages \ {m} : /\ pc'[n] = pc[n] /\ row'[n] = row[n]
                               /\ del'[n] = del[n] /\ slips'[n] = slips[n]
  /\ \A v \in Video \ FilesOf(m) : job'[v] = job[v] /\ seen'[v] = seen[v]
  /\ verdict' = verdict
  /\ bucket' \subseteq bucket \cup FilesOf(m)

\* The files of a message are videos, and of no other message.
LEMMA FilesApart ==
  ASSUME NEW m \in Messages
  PROVE  /\ FilesOf(m) \subseteq Video /\ FilesOf(m)' = FilesOf(m)
         /\ \A v \in FilesOf(m) : v[1] = m
         /\ \A v \in Video : v \in FilesOf(v[1]) /\ v[1] \in Messages
         /\ \A n \in Messages \ {m} : FilesOf(n) \cap FilesOf(m) = {}
                                      /\ FilesOf(n) \subseteq Video \ FilesOf(m)
BY VideoNumbers DEF FilesOf

\* A video is a file of its message.
LEMMA OfItsMessage ==
  ASSUME NEW v \in Video
  PROVE  /\ v[1] \in Messages /\ v \in FilesOf(v[1]) /\ FilesOf(v[1]) \subseteq Video
         /\ FilesOf(v[1])' = FilesOf(v[1])
<1>1. v[1] \in Messages
  BY VideoNumbers
<1>2. v \in FilesOf(v[1])
  BY DEF FilesOf
<1> QED BY <1>1, <1>2, FilesApart

\* Neither the row nor the files of another message are disturbed.
LEMMA ApartFits ==
  ASSUME VideoInv, NEW m \in Messages, Apart(m), MessageFits(m)'
  PROVE  VideoInv'
<1> SUFFICES ASSUME NEW n \in Messages \ {m} PROVE MessageFits(n)'
  BY DEF VideoInv
<1>1. /\ FilesOf(n)' = FilesOf(n) /\ FilesOf(n) \subseteq Video \ FilesOf(m)
      /\ FilesOf(n) \cap FilesOf(m) = {}
  BY FilesApart
<1>2. /\ pc'[n] = pc[n] /\ row'[n] = row[n] /\ del'[n] = del[n] /\ slips'[n] = slips[n]
      /\ \A v \in FilesOf(n) : job'[v] = job[v] /\ seen'[v] = seen[v]
      /\ verdict' = verdict /\ Public(n)' \subseteq Public(n)
  BY <1>1 DEF Apart, Public
<1>3. Timely(n) /\ NamesFit(n) /\ MarkFits(n) /\ PublicFits(n)
  BY DEF VideoInv, MessageFits
<1>4. Timely(n)'
  BY <1>1, <1>2, <1>3 DEF Timely
<1>5. NamesFit(n)'
  BY <1>1, <1>2, <1>3 DEF NamesFit
<1>6. MarkFits(n)'
  BY <1>1, <1>2, <1>3 DEF MarkFits
<1>7. PublicFits(n)'
  <2> HIDE DEF Public
  <2> QED BY <1>1, <1>2, <1>3 DEF PublicFits
<1> QED BY <1>4, <1>5, <1>6, <1>7 DEF MessageFits

\* The request of a message: what it commits, nobody has read too early.
LEMMA RequestFits ==
  ASSUME TypeOK, VideoInv, NEW m \in Messages, Request(m)
  PROVE  VideoInv'
<1>1. /\ Here(m) \in FilesOf(m) /\ FilesOf(m) \subseteq Video /\ FilesOf(m)' = FilesOf(m)
  BY HereIsOwn, FilesApart
<1>2. Timely(m) /\ NamesFit(m) /\ MarkFits(m) /\ PublicFits(m)
  BY DEF VideoInv, MessageFits
<1>3. /\ pc[m] \notin Over /\ pc' = [pc EXCEPT ![m] = pc'[m]] /\ pc'[m] \in RequestPC
      /\ seen' = seen /\ del' = del /\ verdict' = verdict
      /\ bucket' \subseteq bucket \cup FilesOf(m)
  BY <1>1 DEF Request, UploadToSafetyBucket, CheckRequest, NextVideo, CheckRefuses, Bypass, Refuse,
     CreateUserMessage, UploadRequestFile, CommitFileUrls, CutOff, Goto, Over, TypeOK, RequestPC
<1>4. /\ slips' \in [Messages -> SUBSET Slip] /\ slips[m] \subseteq slips'[m]
      /\ \A n \in Messages \ {m} : slips'[n] = slips[n]
      /\ slips[m] \cap {"hasty", "early", "overlap"} = slips'[m] \cap {"hasty", "early", "overlap"}
  BY DEF Request, UploadToSafetyBucket, CheckRequest, CheckRefuses, Bypass, Refuse, Deleted, Note,
     CreateUserMessage, UploadRequestFile, CommitFileUrls, CutOff, TypeOK, Slip
<1>5. /\ \A v \in Video \ {Here(m)} : job'[v] = job[v]
      /\ job'[Here(m)] = job[Here(m)] \/ (job'[Here(m)] = "queued" /\ pc[m] = "annotating")
  BY <1>1 DEF Request, UploadToSafetyBucket, CheckRequest, CheckRefuses, Bypass, Refuse,
     CreateUserMessage, UploadRequestFile, CommitFileUrls, CutOff, TypeOK
<1>6. \A v \in FilesOf(m) : job'[v] \in Dealt => job[v] \in Dealt /\ job'[v] = job[v]
  BY <1>1, <1>5 DEF Dealt, InFlight
<1>7. /\ \A n \in Messages \ {m} : row'[n] = row[n]
      /\ \/ row'[m] = row[m] /\ pc'[m] # "named"
            /\ (pc'[m] \in {"checking", "annotating", "checked"}
                => pc[m] \in {"checking", "annotating", "checked"})
         \/ pc[m] = "checked" /\ pc'[m] = "uploading"
         \/ pc[m] = "naming" /\ pc'[m] = "named" /\ row'[m].exists = row[m].exists
            /\ row'[m].urls = FilesOf(m) /\ row'[m].harmful = row[m].harmful
  BY DEF Request, UploadToSafetyBucket, CheckRequest, NextVideo, CheckRefuses, Bypass, Refuse,
     CreateUserMessage, UploadRequestFile, CommitFileUrls, CutOff, Goto, TypeOK, RowType
<1>8. Apart(m)
  BY <1>1, <1>3, <1>4, <1>5, <1>7 DEF Apart, TypeOK
<1>9. Timely(m)'
  BY <1>1, <1>2, <1>3, <1>4, <1>6, <1>7 DEF Timely, Over
<1>10. "hasty" \notin slips'[m] => \A v \in FilesOf(m) : job'[v] \notin Dealt
  BY <1>2, <1>3, <1>4, <1>6 DEF Timely
<1>11. NamesFit(m)'
  BY <1>1, <1>10 DEF NamesFit, Dealt
<1>12. MarkFits(m)'
  <2>1. CASE pc[m] = "checked"
    BY <1>1, <1>2, <1>6, <2>1 DEF Timely, MarkFits, Dealt
  <2>2. CASE pc[m] # "checked"
    BY <1>1, <1>2, <1>3, <1>4, <1>6, <1>7, <2>2 DEF MarkFits, Dealt
  <2> QED BY <2>1, <2>2
<1>13. PublicFits(m)'
  <2> SUFFICES ASSUME pc'[m] = "named", slips'[m] \cap {"hasty", "early", "lost"} = {}
               PROVE  /\ (Public(m) \subseteq row[m].urls)'
                      /\ \A v \in FilesOf(m) : job'[v] \notin Dealt
                      /\ del'[m].at = "no"
    BY <1>1 DEF PublicFits, Dealt, InFlight
  <2>1. row'[m].urls = FilesOf(m)
    BY <1>7
  <2>2. del'[m].at = "no"
    BY <1>2, <1>3, <1>4 DEF Timely
  <2> QED BY <1>1, <1>10, <2>1, <2>2 DEF Public
<1> QED BY <1>8, <1>9, <1>11, <1>12, <1>13, ApartFits DEF MessageFits

\* The step of a job is apart from the other messages, and from their slips.
LEMMA JobApart ==
  ASSUME TypeOK, NEW v \in Video,
         Job(v) \/ OperationNotAvailable(v) \/ WorkerDies(v)
  PROVE  /\ Apart(v[1]) /\ pc' = pc /\ del' = del
         /\ \A w \in Video \ {v} : job'[w] = job[w] /\ seen'[w] = seen[w]
         /\ slips[v[1]] \subseteq slips'[v[1]]
         /\ bucket' \subseteq bucket
<1>1. v \in FilesOf(v[1]) /\ v[1] \in Messages /\ FilesOf(v[1]) \subseteq Video
  BY OfItsMessage
<1>2. \A w \in Video \ {v} : job'[w] = job[w] /\ seen'[w] = seen[w]
  BY DEF Job, JobFails, OperationNotAvailable, UpdateFails, Retry, ReadMessage, WorkerDies,
     DeleteSafetyFile, DeleteMessageFiles, UpdateMessage, TypeOK
<1>3. /\ bucket' \subseteq bucket /\ slips[v[1]] \subseteq slips'[v[1]]
      /\ \A n \in Messages \ {v[1]} : slips'[n] = slips[n]
  BY <1>1 DEF Job, JobFails, OperationNotAvailable, UpdateFails, ReadMessage, WorkerDies,
     DeleteSafetyFile, DeleteMessageFiles, UpdateMessage, Deleted, Note, TypeOK
<1>4. /\ pc' = pc /\ del' = del /\ verdict' = verdict
      /\ \A n \in Messages \ {v[1]} : row'[n] = row[n]
  BY DEF Job, JobFails, OperationNotAvailable, UpdateFails, ReadMessage, WorkerDies,
     DeleteSafetyFile, DeleteMessageFiles, UpdateMessage, TypeOK
<1> QED BY <1>1, <1>2, <1>3, <1>4 DEF Apart

\* A job that is taken up again has forgotten what it read.
LEMMA RetryFits ==
  ASSUME TypeOK, VideoInv, NEW v \in Video,
         JobFails(v) \/ UpdateFails(v) \/ OperationNotAvailable(v) \/ WorkerDies(v)
  PROVE  VideoInv'
<1> DEFINE m == v[1]
<1>1. v \in FilesOf(m) /\ m \in Messages /\ FilesOf(m) \subseteq Video /\ FilesOf(m)' = FilesOf(m)
  BY OfItsMessage
<1>2. Timely(m) /\ NamesFit(m) /\ MarkFits(m) /\ PublicFits(m)
  BY <1>1 DEF VideoInv, MessageFits
<1>3. UNCHANGED <<pc, row, verdict, bucket, del, slips>>
  BY DEF JobFails, OperationNotAvailable, UpdateFails, WorkerDies
<1>4. \A w \in FilesOf(m) : job'[w] \in Dealt =>
         job'[w] = job[w] /\ seen'[w] = seen[w]
  BY <1>1 DEF JobFails, OperationNotAvailable, UpdateFails, WorkerDies, Retry, TypeOK, Dealt,
     InFlight
<1>5. Timely(m)'
  BY <1>1, <1>2, <1>3, <1>4 DEF Timely
<1>6. NamesFit(m)'
  BY <1>1, <1>2, <1>3, <1>4 DEF NamesFit, Dealt
<1>7. MarkFits(m)'
  BY <1>1, <1>2, <1>3, <1>4 DEF MarkFits, Dealt
<1>8. PublicFits(m)'
  BY <1>1, <1>2, <1>3, <1>4 DEF PublicFits, Public, Dealt, InFlight
<1> QED BY <1>1, <1>5, <1>6, <1>7, <1>8, JobApart, ApartFits DEF Job, MessageFits

\* A job reads the row as it is; that it comes early or with another is noted.
LEMMA ReadFits ==
  ASSUME TypeOK, VideoInv, NEW v \in Video, ReadMessage(v)
  PROVE  VideoInv'
<1> DEFINE m == v[1]
<1>1. v \in FilesOf(m) /\ m \in Messages /\ FilesOf(m) \subseteq Video /\ FilesOf(m)' = FilesOf(m)
  BY OfItsMessage
<1>2. Timely(m) /\ NamesFit(m) /\ MarkFits(m) /\ PublicFits(m)
  BY <1>1 DEF VideoInv, MessageFits
<1>3. /\ UNCHANGED <<pc, row, verdict, bucket, del>> /\ row[m].exists
      /\ job[v] = "queued" /\ seen'[v] = row[m] /\ job'[v] \in {"marking", "committing"}
      /\ job'[v] = "committing" => verdict[v] # "unsafe"
      /\ \A w \in FilesOf(m) \ {v} : job'[w] = job[w] /\ seen'[w] = seen[w]
  BY <1>1 DEF ReadMessage, Answered, Readable, TypeOK
<1>4. /\ slips[m] \subseteq slips'[m]
      /\ pc[m] \notin Over => "hasty" \in slips'[m]
      /\ (\E w \in FilesOf(m) : job[w] \in InFlight) => "overlap" \in slips'[m]
      /\ "early" \in slips'[m] => "early" \in slips[m]
  BY <1>1 DEF ReadMessage, Note, TypeOK
<1>5. Timely(m)'
  <2>1. pc[m] \notin {"checking", "annotating", "checked"}
    BY <1>2, <1>3 DEF Timely
  <2> QED BY <1>1, <1>2, <1>3, <1>4, <2>1 DEF Timely
<1>6. NamesFit(m)'
  BY <1>1, <1>2, <1>3, <1>4 DEF NamesFit, InFlight
<1>7. MarkFits(m)'
  BY <1>1, <1>2, <1>3, <1>4 DEF MarkFits, InFlight
<1>8. PublicFits(m)'
  BY <1>1, <1>2, <1>3, <1>4 DEF PublicFits, Public, InFlight
<1> QED BY <1>1, <1>5, <1>6, <1>7, <1>8, JobApart, ApartFits DEF Job, MessageFits

\* The files that a job deletes are all that is public, or the loss is noted.
LEMMA DeletesFit ==
  ASSUME TypeOK, VideoInv, NEW v \in Video, DeleteSafetyFile(v) \/ DeleteMessageFiles(v)
  PROVE  VideoInv'
<1> DEFINE m == v[1]
<1>1. v \in FilesOf(m) /\ m \in Messages /\ FilesOf(m) \subseteq Video /\ FilesOf(m)' = FilesOf(m)
  BY OfItsMessage
<1>2. Timely(m) /\ NamesFit(m) /\ MarkFits(m) /\ PublicFits(m)
  BY <1>1 DEF VideoInv, MessageFits
<1>3. /\ UNCHANGED <<pc, row, verdict, del, seen>> /\ bucket' \subseteq bucket
      /\ job[v] \in InFlight /\ job'[v] \in InFlight
      /\ \A w \in FilesOf(m) \ {v} : job'[w] = job[w]
      /\ slips[m] \subseteq slips'[m]
  BY <1>1, JobApart DEF Job, DeleteSafetyFile, DeleteMessageFiles, InFlight, TypeOK
<1>4. \/ job'[v] = "purging"
      \/ job[v] = "purging" /\ bucket' = bucket \ seen[v].urls
      \/ "lost" \in slips'[m]
  BY <1>1 DEF DeleteSafetyFile, DeleteMessageFiles, Deleted, Note, Unwanted, TypeOK
<1>5. /\ "early" \notin slips'[m] => "early" \notin slips[m]
      /\ "hasty" \notin slips'[m] => "hasty" \notin slips[m]
      /\ "overlap" \notin slips'[m] => "overlap" \notin slips[m]
      /\ slips'[m] \cap {"hasty", "early", "lost"} = {} => slips[m] \cap {"hasty", "early", "lost"} = {}
  BY <1>3
<1>6. Timely(m)'
  BY <1>1, <1>2, <1>3, <1>5 DEF Timely, Dealt
<1>7. NamesFit(m)'
  BY <1>1, <1>2, <1>3, <1>5 DEF NamesFit, InFlight
<1>8. MarkFits(m)'
  BY <1>1, <1>2, <1>3, <1>5 DEF MarkFits, InFlight
<1>9. PublicFits(m)'
  <2> SUFFICES ASSUME pc[m] = "named", slips'[m] \cap {"hasty", "early", "lost"} = {}
               PROVE  PublicFits(m)'
    BY <1>3 DEF PublicFits
  <2>1. /\ Public(m) \subseteq row[m].urls
        /\ \A w \in FilesOf(m) :
             /\ job[w] \in InFlight => Public(m) \subseteq seen[w].urls
             /\ job[w] \in {"committing", "done"} /\ verdict[w] = "unsafe" => Public(m) = {}
        /\ del[m].at = "read" => Public(m) \subseteq del[m].urls
        /\ del[m].at \in {"purged", "over"} => Public(m) = {}
    BY <1>2, <1>5 DEF PublicFits
  <2>2. Public(m)' \subseteq Public(m)
    BY <1>1, <1>3 DEF Public
  <2>3. job'[v] = "committing" => Public(m)' = {}
    <3>1. job'[v] = "committing" => bucket' = bucket \ seen[v].urls
      BY <1>4
    <3> QED BY <1>1, <1>3, <2>1, <3>1 DEF Public
  <2>4. job'[v] # "done"
    BY <1>3 DEF InFlight
  <2> HIDE DEF m
  <2> QED BY <1>1, <1>3, <2>1, <2>2, <2>3, <2>4 DEF PublicFits
<1> QED BY <1>1, <1>6, <1>7, <1>8, <1>9, JobApart, ApartFits DEF Job, MessageFits

\* What a job writes to the row is what it has read, and what it has judged.
LEMMA UpdateFits ==
  ASSUME TypeOK, VideoInv, NEW v \in Video, UpdateMessage(v)
  PROVE  VideoInv'
<1> DEFINE m == v[1]
<1>1. v \in FilesOf(m) /\ m \in Messages /\ FilesOf(m) \subseteq Video /\ FilesOf(m)' = FilesOf(m)
  BY OfItsMessage
<1>2. Timely(m) /\ NamesFit(m) /\ MarkFits(m) /\ PublicFits(m)
  BY <1>1 DEF VideoInv, MessageFits
<1>3. /\ UNCHANGED <<pc, verdict, del, bucket, slips>>
      /\ job[v] = "committing" /\ job'[v] = "done"
      /\ \A w \in FilesOf(m) \ {v} : job'[w] = job[w] /\ seen'[w] = seen[w]
  BY <1>1 DEF UpdateMessage, TypeOK
<1>4. /\ row[m] \in RowType /\ row'[m].exists = row[m].exists
      /\ row'[m].harmful = IF Marked(v) # seen[v].harmful THEN Marked(v) ELSE row[m].harmful
      /\ row'[m].urls = IF Named(v) # seen[v].urls THEN Named(v) ELSE row[m].urls
  BY <1>1 DEF UpdateMessage, TypeOK, RowType
<1>5. Timely(m)'
  BY <1>1, <1>2, <1>3, <1>4 DEF Timely, Dealt, InFlight
<1>6. NamesFit(m)'
  <2>1. row'[m].urls \subseteq row[m].urls
    BY <1>4 DEF Named
  <2>2. "hasty" \notin slips[m] /\ verdict[v] = "unsafe" => row'[m].urls = {}
    BY <1>1, <1>2, <1>3, <1>4 DEF NamesFit, InFlight, Named
  <2> QED BY <1>1, <1>2, <1>3, <2>1, <2>2 DEF NamesFit, InFlight
<1>7. MarkFits(m)'
  <2>1. "overlap" \notin slips[m] => \A w \in FilesOf(m) \ {v} : job[w] \notin InFlight
    BY <1>1, <1>2, <1>3 DEF MarkFits, InFlight
  <2>2. "overlap" \notin slips[m] /\ row[m].exists => seen[v].harmful = row[m].harmful
    BY <1>1, <1>2, <1>3 DEF MarkFits, InFlight
  <2>3. "overlap" \notin slips[m] /\ row[m].exists =>
           /\ verdict[v] = "unsafe" => row'[m].harmful = "unsafe"
           /\ row[m].harmful = "unsafe" => row'[m].harmful = "unsafe"
    BY <1>4, <2>2 DEF Marked
  <2> QED BY <1>1, <1>2, <1>3, <1>4, <2>1, <2>3 DEF MarkFits, InFlight
<1>8. PublicFits(m)'
  <2> SUFFICES ASSUME pc[m] = "named", slips[m] \cap {"hasty", "early", "lost"} = {}
               PROVE  PublicFits(m)'
    BY <1>3 DEF PublicFits
  <2>1. /\ Public(m) \subseteq row[m].urls
        /\ \A w \in FilesOf(m) :
             /\ job[w] \in InFlight => Public(m) \subseteq seen[w].urls
             /\ job[w] \in {"committing", "done"} /\ verdict[w] = "unsafe" => Public(m) = {}
        /\ del[m].at = "read" => Public(m) \subseteq del[m].urls
        /\ del[m].at \in {"purged", "over"} => Public(m) = {}
    BY <1>2 DEF PublicFits
  <2>2. Public(m)' = Public(m)
    BY <1>1, <1>3 DEF Public
  <2>3. Public(m) \subseteq row'[m].urls
    BY <1>1, <1>3, <1>4, <2>1 DEF Named
  <2> HIDE DEF m
  <2> QED BY <1>1, <1>3, <2>1, <2>2, <2>3 DEF PublicFits, InFlight
<1> QED BY <1>1, <1>5, <1>6, <1>7, <1>8, JobApart, ApartFits DEF Job, MessageFits

\* The deletion removes what it has read the names of, and then the row.
LEMMA DeletionFits ==
  ASSUME TypeOK, VideoInv, NEW m \in Messages, Deletion(m) \/ Expire(m)
  PROVE  VideoInv'
<1>1. FilesOf(m) \subseteq Video /\ FilesOf(m)' = FilesOf(m)
  BY FilesApart
<1>2. Timely(m) /\ NamesFit(m) /\ MarkFits(m) /\ PublicFits(m)
  BY DEF VideoInv, MessageFits
<1>3. /\ UNCHANGED <<pc, verdict, job, seen>> /\ bucket' \subseteq bucket
      /\ slips[m] \subseteq slips'[m]
      /\ "hasty" \in slips'[m] => "hasty" \in slips[m]
      /\ "overlap" \in slips'[m] => "overlap" \in slips[m]
      /\ \A n \in Messages \ {m} : row'[n] = row[n] /\ del'[n] = del[n] /\ slips'[n] = slips[n]
  BY DEF Deletion, ReadForDelete, DeleteFiles, DeleteRow, Expire, Deleted, Note, TypeOK
<1>4. \/ row'[m].exists = row[m].exists /\ row'[m].harmful = row[m].harmful
         /\ row'[m].urls = row[m].urls
      \/ row'[m].exists = FALSE /\ row'[m].urls = {} /\ del[m].at = "purged"
  BY DEF Deletion, ReadForDelete, DeleteFiles, DeleteRow, Expire, NoRow, TypeOK, RowType
<1>5. \/ del'[m] = del[m]
      \/ /\ del[m].at = "no" /\ del'[m].at = "read" /\ del'[m].urls = row[m].urls
         /\ pc[m] \notin Over => "early" \in slips'[m]
      \/ /\ del[m].at = "read" /\ del'[m].at = "purged"
         /\ bucket' = bucket \ del[m].urls \/ "lost" \in slips'[m]
      \/ del[m].at = "purged" /\ del'[m].at = "over"
  BY DEF Deletion, ReadForDelete, DeleteFiles, DeleteRow, Expire, Deleted, Note, TypeOK
<1>6. Apart(m)
  BY <1>3 DEF Apart
<1>7. row'[m].exists => row[m].exists
  BY <1>4 DEF Deletion, ReadForDelete, DeleteFiles, DeleteRow, Expire, NoRow, TypeOK, RowType
<1>8. Timely(m)'
  BY <1>1, <1>2, <1>3, <1>5, <1>7 DEF Timely
<1>9. NamesFit(m)'
  BY <1>1, <1>2, <1>3, <1>4 DEF NamesFit
<1>10. MarkFits(m)'
  BY <1>1, <1>2, <1>3, <1>4 DEF MarkFits
<1>11. PublicFits(m)'
  <2> SUFFICES ASSUME pc[m] = "named", slips'[m] \cap {"hasty", "early", "lost"} = {}
               PROVE  PublicFits(m)'
    BY <1>3 DEF PublicFits
  <2>1. /\ Public(m) \subseteq row[m].urls
        /\ \A w \in FilesOf(m) :
             /\ job[w] \in InFlight => Public(m) \subseteq seen[w].urls
             /\ job[w] \in {"committing", "done"} /\ verdict[w] = "unsafe" => Public(m) = {}
        /\ del[m].at = "read" => Public(m) \subseteq del[m].urls
        /\ del[m].at \in {"purged", "over"} => Public(m) = {}
    BY <1>2, <1>3 DEF PublicFits
  <2>2. Public(m)' \subseteq Public(m)
    BY <1>1, <1>3 DEF Public
  <2>3. Public(m)' \subseteq row'[m].urls
    BY <1>4, <2>1, <2>2
  <2>4. bucket' = bucket \ del[m].urls /\ del[m].at = "read" => Public(m)' = {}
    BY <1>1, <2>1 DEF Public
  <2>5. del'[m].at = "read" => Public(m)' \subseteq del'[m].urls
    BY <1>5, <2>1, <2>2
  <2>6. del'[m].at \in {"purged", "over"} => Public(m)' = {}
    BY <1>5, <2>1, <2>2, <2>4
  <2> QED BY <1>1, <1>3, <2>1, <2>2, <2>3, <2>5, <2>6 DEF PublicFits
<1> QED BY <1>6, <1>8, <1>9, <1>10, <1>11, ApartFits DEF MessageFits

\* Whatever a job has read of a message covers what is public of it, for any
\* number of videos, workers, retries and deaths.
THEOREM VideoAlways == Spec => []VideoInv
<1>1. Init => VideoInv
  BY DEF Init, VideoInv, MessageFits, Timely, NamesFit, MarkFits, PublicFits, Dealt, InFlight,
     NoRow, FilesOf, Over
<1>2. TypeOK /\ VideoInv /\ [Next]_vars => VideoInv'
  <2> SUFFICES ASSUME TypeOK, VideoInv, [Next]_vars PROVE VideoInv'
    OBVIOUS
  <2>1. CASE UNCHANGED vars
    BY <2>1 DEF vars, VideoInv, MessageFits, Timely, NamesFit, MarkFits, PublicFits, Public,
       FilesOf
  <2>2. ASSUME NEW m \in Messages, Request(m) \/ Deletion(m) \/ Expire(m) PROVE VideoInv'
    BY <2>2, RequestFits, DeletionFits
  <2>3. ASSUME NEW v \in Video, Job(v) \/ OperationNotAvailable(v) \/ WorkerDies(v)
        PROVE  VideoInv'
    BY <2>3, RetryFits, ReadFits, DeletesFit, UpdateFits DEF Job
  <2> QED BY <2>1, <2>2, <2>3 DEF Next
<1> QED BY <1>1, <1>2, VideoTypes, PTL DEF Spec

\* A message whose unsafe video the worker has dealt with, and a message that its
\* user has deleted, has no public file left (UnwantedFilesAreGone), in every
\* instance: who read the names too early, and what the storage lost, is on record.
THEOREM UnwantedGone == Spec => []UnwantedFilesAreGone
<1>1. GateInv /\ VideoInv => UnwantedFilesAreGone
  <2> SUFFICES ASSUME GateInv, VideoInv, NEW m \in Messages,
                      \/ del[m].at = "over"
                      \/ \E v \in FilesOf(m) : verdict[v] = "unsafe" /\ job[v] = "done",
                      pc[m] # "failed", slips[m] \cap {"hasty", "early", "lost"} = {}
               PROVE  FilesOf(m) \cap bucket = {}
    BY DEF UnwantedFilesAreGone
  <2>1. Timely(m) /\ PublicFits(m) /\ GateFits(m)
    BY DEF VideoInv, MessageFits, GateInv
  <2>2. pc[m] \in Over
    BY <2>1 DEF Timely, Dealt
  <2>3. CASE pc[m] = "named"
    BY <2>1, <2>3 DEF PublicFits, Public
  <2>4. CASE pc[m] = "refused"
    BY <2>1, <2>4 DEF GateFits
  <2> QED BY <2>2, <2>3, <2>4 DEF Over
<1> QED BY <1>1, GateAlways, VideoAlways, PTL

\* An unsafe video that the worker has dealt with leaves its message marked and
\* without file names, whatever the jobs of the other videos write after it
\* (UnsafeIsMarked).
THEOREM UnsafeStaysMarked == Spec => []UnsafeIsMarked
<1>1. VideoInv => UnsafeIsMarked
  BY OfItsMessage DEF VideoInv, MessageFits, NamesFit, MarkFits, UnsafeIsMarked
<1> QED BY <1>1, VideoAlways, PTL

=============================================================================
