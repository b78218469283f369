---------------------------- MODULE VideoSafety ----------------------------
(***************************************************************************)
(* The videos of a message: checked, stored, judged, deleted.              *)
(*                                                                         *)
(* Four actors share the row of a message and two buckets.  The request    *)
(* copies its videos to the safety bucket and has them annotated           *)
(* (create_message_service/safety.py), then creates the row, uploads the   *)
(* files and, with a later commit, names them in the row                   *)
(* (create_message_service/stream_new_message.py).  When the check is      *)
(* queued, a job of the safety worker waits for the verdict and acts on it *)
(* (safety_queue/video_safety_handler.py) and is retried when it fails.    *)
(* A worker process has one event loop, and a job that has its verdict     *)
(* does not await any more: jobs overlap only between processes.           *)
(* Meanwhile the user may delete the message (message/message_service.py), *)
(* or the row may expire.                                                  *)
(***************************************************************************)
EXTENDS Naturals, FiniteSets

CONSTANTS
  Messages,    \* the messages that come with videos, one request each
  VideosPer,   \* how many videos each of them has
  Modes,       \* the settings of the feature flags: how videos are checked
  MaxRetries,  \* max_retries of the job
  Workers,     \* how many processes work on the queue
  Deaths,      \* how often a worker process may die
  Anonymous,   \* the messages whose row expires
  Trusted      \* the messages whose user may skip the checks

ASSUME VideosAssumption == /\ VideosPer \in [Messages -> Nat \ {0}]
                           /\ Modes \subseteq {"blocking", "queued", "off"}
ASSUME WorkerAssumption == MaxRetries \in Nat /\ Workers \in Nat /\ Deaths \in Nat
ASSUME UsersAssumption  == Anonymous \subseteq Messages /\ Trusted \subseteq Messages

VARIABLES
  mode,     \* the feature flags of this deployment
  pc,       \* where the request of a message is
  file,     \* the video it is at
  row,      \* the message's row: exists, expired, harmful, file_urls
  verdict,  \* what Google finds in a video
  safety,   \* names of the objects in the safety bucket
  bucket,   \* names of the objects in the public storage bucket
  job,      \* the job of a video
  tries,    \* how often it was retried
  seen,     \* what its session has read of the row
  deaths,   \* worker processes lost so far
  del,      \* the deletion by the user: its progress and the files it has read
  slips     \* history: where the code trusts to luck, and it did not hold

vars == <<mode, pc, file, row, verdict, safety, bucket, job, tries, seen, deaths,
          del, slips>>

-----------------------------------------------------------------------------
Video == UNION {{<<m, i>> : i \in 1..VideosPer[m]} : m \in Messages}
FilesOf(m) == {v \in Video : v[1] = m}

(***************************************************************************)
(* The name of an object is the video it holds.  upload_content returns    *)
(* storage_path, which is "gs://", the bucket and the name; the worker     *)
(* takes the last part of it.                                              *)
(***************************************************************************)
Path(v) == <<"gs", v>>
LastPart(p) == p[2]

Verdicts == {"safe", "unsafe", "unreadable"}
Marks    == {"unset", "safe", "unsafe"}        \* harmful: NULL, FALSE, TRUE
NoRow    == [exists |-> FALSE, expired |-> FALSE, harmful |-> "unset", urls |-> {}]
RowType  == [exists : BOOLEAN, expired : BOOLEAN, harmful : Marks, urls : SUBSET Video]

RequestPC == {"checking", "annotating", "checked", "uploading", "naming", "named",
              "refused", "failed"}
Over == {"named", "refused", "failed"}
InFlight == {"marking", "purging", "committing"}
JobPC == {"none", "queued", "done", "exhausted"} \cup InFlight
DelPC == {"no", "read", "purged", "over"}

(***************************************************************************)
(* What nothing in the code prevents: the checks are skipped; a verdict or *)
(* a deletion comes before the stream has named its files; two processes   *)
(* hold the row of one message; the storage fails to delete.               *)
(***************************************************************************)
Slip == {"bypassed", "hasty", "early", "overlap", "lost"}
Note(m, what) == slips' = [slips EXCEPT ![m] = @ \cup what]

Goto(m, where) == pc' = [pc EXCEPT ![m] = where]
Here(m) == <<m, file[m]>>

\* delete_file and delete_multiple_files_by_url: a failure is logged, no more.
Deleted(m, from, names, to) ==
  \/ to = from \ names /\ UNCHANGED slips
  \/ to = from /\ names \cap from # {} /\ Note(m, {"lost"})

-----------------------------------------------------------------------------
(***************************************************************************)
(* check_video_safety: one video after the other, before the row exists.   *)
(***************************************************************************)
UploadToSafetyBucket(m) ==
  /\ pc[m] = "checking"
  /\ safety' = safety \cup {Here(m)}
  /\ Goto(m, "annotating")
  /\ UNCHANGED <<mode, file, row, verdict, bucket, job, tries, seen, deaths, del, slips>>

\* bypass_safety_check: nothing is checked.
Bypass(m) ==
  /\ pc[m] = "checking"
  /\ m \in Trusted
  /\ file[m] = 1
  /\ Goto(m, "checked")
  /\ Note(m, {"bypassed"})
  /\ UNCHANGED <<mode, file, row, verdict, safety, bucket, job, tries, seen, deaths, del>>

\* Wrong on purpose: an unreadable or late answer passes for a safe one.
Passes_OnError(m) == mode # "blocking" \/ verdict[Here(m)] # "unsafe"

\* A skipped check is a safe one.
Passes(m) == mode # "blocking" \/ verdict[Here(m)] = "safe"

\* Wrong on purpose: the loop goes one video too far.
NextVideo_Beyond(m) ==
  IF file[m] > VideosPer[m]
  THEN Goto(m, "checked") /\ UNCHANGED file
  ELSE Goto(m, "checking") /\ file' = [file EXCEPT ![m] = @ + 1]

NextVideo(m) ==
  IF file[m] = VideosPer[m]
  THEN Goto(m, "checked") /\ UNCHANGED file
  ELSE Goto(m, "checking") /\ file' = [file EXCEPT ![m] = @ + 1]

\* handle_video_safety_check.send
Queued(m) == mode = "queued"

CheckRequest(m) ==
  /\ pc[m] = "annotating"
  /\ Passes(m)
  /\ job' = [job EXCEPT ![Here(m)] = IF Queued(m) THEN "queued" ELSE @]
  /\ NextVideo(m)
  /\ UNCHANGED <<mode, row, verdict, safety, bucket, tries, seen, deaths, del, slips>>

\* delete_from_safety_bucket is handed the path of the upload.
DeletedName(m) == Path(Here(m))

\* An unsafe video in blocking mode, or any exception on the way.
CheckRefuses(m) ==
  /\ pc[m] = "annotating"
  /\ Deleted(m, safety, {DeletedName(m)}, safety')
  /\ Goto(m, "refused")
  /\ UNCHANGED <<mode, file, row, verdict, bucket, job, tries, seen, deaths, del>>

\* Another check of the request fails: text, images; or its first upload.
Refuse(m) ==
  /\ pc[m] \in {"checking", "checked"}
  /\ Goto(m, "refused")
  /\ UNCHANGED <<mode, file, row, verdict, safety, bucket, job, tries, seen, deaths, del, slips>>

-----------------------------------------------------------------------------
(***************************************************************************)
(* create_new_message: the row is committed without file_urls, the files   *)
(* are uploaded, and file_urls goes out with the next commit.              *)
(***************************************************************************)
CreateUserMessage(m) ==
  /\ pc[m] = "checked"
  /\ row' = [row EXCEPT ![m] = [NoRow EXCEPT !.exists = TRUE]]
  /\ file' = [file EXCEPT ![m] = 1]
  /\ Goto(m, "uploading")
  /\ UNCHANGED <<mode, verdict, safety, bucket, job, tries, seen, deaths, del, slips>>

UploadRequestFile(m) ==
  /\ pc[m] = "uploading"
  /\ bucket' = bucket \cup {Here(m)}
  /\ IF file[m] = VideosPer[m]
     THEN Goto(m, "naming") /\ UNCHANGED file
     ELSE file' = [file EXCEPT ![m] = @ + 1] /\ UNCHANGED pc
  /\ UNCHANGED <<mode, row, verdict, safety, job, tries, seen, deaths, del, slips>>

\* The commit of the first reply, or of finalize_messages; an UPDATE of a row that
\* is gone raises StaleDataError.
CommitFileUrls(m) ==
  /\ pc[m] = "naming"
  /\ IF row[m].exists
     THEN row' = [row EXCEPT ![m].urls = FilesOf(m)] /\ Goto(m, "named")
     ELSE UNCHANGED row /\ Goto(m, "failed")
  /\ UNCHANGED <<mode, file, verdict, safety, bucket, job, tries, seen, deaths, del, slips>>

\* An upload raises, the client goes away, or max_steps lets no turn begin.
CutOff(m) ==
  /\ pc[m] \in {"uploading", "naming"}
  /\ Goto(m, "failed")
  /\ UNCHANGED <<mode, file, row, verdict, safety, bucket, job, tries, seen, deaths, del, slips>>

-----------------------------------------------------------------------------
(***************************************************************************)
(* handle_video_safety_check, the job of a video.                          *)
(***************************************************************************)
Readable(m) == row[m].exists /\ ~row[m].expired

\* on_retry_exhausted logs; nothing takes the job up again.
Retry(v) ==
  /\ job' = [job EXCEPT ![v] = IF tries[v] < MaxRetries THEN "queued" ELSE "exhausted"]
  /\ tries' = [tries EXCEPT ![v] = IF @ < MaxRetries THEN @ + 1 ELSE @]
  /\ seen' = [seen EXCEPT ![v] = NoRow]

\* A verdict that comes while the event loop of a worker is free.
Answered(v) ==
  /\ job[v] = "queued"
  /\ Cardinality({w \in Video : job[w] \in InFlight}) < Workers

\* get_message_by_id finds no row, or the response has not one result.
JobFails(v) ==
  /\ Answered(v)
  /\ ~Readable(v[1]) \/ verdict[v] = "unreadable"
  /\ Retry(v)
  /\ UNCHANGED <<mode, pc, file, row, verdict, safety, bucket, deaths, del, slips>>

\* The operation is not available yet, or the call to Google raises.
OperationNotAvailable(v) ==
  /\ job[v] = "queued"
  /\ Retry(v)
  /\ UNCHANGED <<mode, pc, file, row, verdict, safety, bucket, deaths, del, slips>>

ReadMessage(v) ==
  /\ Answered(v)
  /\ Readable(v[1]) /\ verdict[v] # "unreadable"
  /\ seen' = [seen EXCEPT ![v] = row[v[1]]]
  /\ job' = [job EXCEPT ![v] = IF verdict[v] = "unsafe" THEN "marking" ELSE "committing"]
  /\ Note(v[1], {slip \in {"hasty", "overlap"} :
                   \/ slip = "hasty" /\ pc[v[1]] \notin Over
                   \/ slip = "overlap" /\ \E w \in FilesOf(v[1]) : job[w] \in InFlight})
  /\ UNCHANGED <<mode, pc, file, row, verdict, safety, bucket, tries, deaths, del>>

DeleteSafetyFile(v) ==
  /\ job[v] = "marking"
  /\ Deleted(v[1], safety, {LastPart(Path(v))}, safety')
  /\ job' = [job EXCEPT ![v] = "purging"]
  /\ UNCHANGED <<mode, pc, file, row, verdict, bucket, tries, seen, deaths, del>>

\* Wrong on purpose: only the video that was judged goes.
Unwanted_Own(v) == seen[v].urls \cap {v}

\* All files of the message go, as file_urls names them.
Unwanted(v) == seen[v].urls

DeleteMessageFiles(v) ==
  /\ job[v] = "purging"
  /\ Deleted(v[1], bucket, Unwanted(v), bucket')
  /\ job' = [job EXCEPT ![v] = "committing"]
  /\ UNCHANGED <<mode, pc, file, row, verdict, safety, tries, seen, deaths, del>>

\* Wrong on purpose: the last verdict decides.
Marked_Last(v) == verdict[v]

\* Wrong on purpose: nothing is removed from the row.
Named_All(v) == seen[v].urls

\* harmful as the session has it: a verdict of "unsafe" that was read stays.
Marked(v) == IF seen[v].harmful = "unsafe" THEN "unsafe" ELSE verdict[v]
Named(v)  == IF verdict[v] = "unsafe" THEN {} ELSE seen[v].urls

Dirty(v) == Marked(v) # seen[v].harmful \/ Named(v) # seen[v].urls

\* Only columns that the session has changed are written.
UpdateMessage(v) ==
  /\ job[v] = "committing"
  /\ row[v[1]].exists \/ ~Dirty(v)
  /\ row' = [row EXCEPT ![v[1]].harmful = IF Marked(v) # seen[v].harmful THEN Marked(v) ELSE @,
                        ![v[1]].urls    = IF Named(v) # seen[v].urls THEN Named(v) ELSE @]
  /\ job' = [job EXCEPT ![v] = "done"]
  /\ seen' = [seen EXCEPT ![v] = NoRow]
  /\ UNCHANGED <<mode, pc, file, verdict, safety, bucket, tries, deaths, del, slips>>

\* StaleDataError: the row went away since it was read.
UpdateFails(v) ==
  /\ job[v] = "committing"
  /\ ~row[v[1]].exists /\ Dirty(v)
  /\ Retry(v)
  /\ UNCHANGED <<mode, pc, file, row, verdict, safety, bucket, deaths, del, slips>>

\* The queue hands the job of a dead worker to another.
WorkerDies(v) ==
  /\ job[v] \in InFlight
  /\ deaths < Deaths
  /\ deaths' = deaths + 1
  /\ job' = [job EXCEPT ![v] = "queued"]
  /\ seen' = [seen EXCEPT ![v] = NoRow]
  /\ UNCHANGED <<mode, pc, file, row, verdict, safety, bucket, tries, del, slips>>

-----------------------------------------------------------------------------
(***************************************************************************)
(* delete_message: files first, then rows; expired rows are found by the   *)
(* first query and not by the second.                                      *)
(***************************************************************************)
ReadForDelete(m) ==
  /\ del[m].at = "no"
  /\ row[m].exists
  /\ del' = [del EXCEPT ![m] = [at |-> "read", urls |-> row[m].urls]]
  /\ Note(m, IF pc[m] \in Over THEN {} ELSE {"early"})
  /\ UNCHANGED <<mode, pc, file, row, verdict, safety, bucket, job, tries, seen, deaths>>

DeleteFiles(m) ==
  /\ del[m].at = "read"
  /\ Deleted(m, bucket, del[m].urls, bucket')
  /\ del' = [del EXCEPT ![m].at = "purged"]
  /\ UNCHANGED <<mode, pc, file, row, verdict, safety, job, tries, seen, deaths>>

DeleteRow(m) ==
  /\ del[m].at = "purged"
  /\ row' = [row EXCEPT ![m] = IF Readable(m) THEN NoRow ELSE @]
  /\ del' = [del EXCEPT ![m] = [at |-> "over", urls |-> {}]]
  /\ UNCHANGED <<mode, pc, file, verdict, safety, bucket, job, tries, seen, deaths, slips>>

\* expiration_time passes.
Expire(m) ==
  /\ m \in Anonymous
  /\ row[m].exists /\ ~row[m].expired
  /\ row' = [row EXCEPT ![m].expired = TRUE]
  /\ UNCHANGED <<mode, pc, file, verdict, safety, bucket, job, tries, seen, deaths, del, slips>>

-----------------------------------------------------------------------------
Init ==
  /\ mode \in Modes
  /\ pc = [m \in Messages |-> "checking"]
  /\ file = [m \in Messages |-> 1]
  /\ row = [m \in Messages |-> NoRow]
  /\ verdict \in [Video -> Verdicts]
  /\ safety = {} /\ bucket = {}
  /\ job = [v \in Video |-> "none"]
  /\ tries = [v \in Video |-> 0]
  /\ seen = [v \in Video |-> NoRow]
  /\ deaths = 0
  /\ del = [m \in Messages |-> [at |-> "no", urls |-> {}]]
  /\ slips = [m \in Messages |-> {}]

Request(m) == \/ UploadToSafetyBucket(m) \/ CheckRequest(m) \/ CheckRefuses(m)
              \/ Bypass(m) \/ Refuse(m) \/ CreateUserMessage(m) \/ UploadRequestFile(m)
              \/ CommitFileUrls(m) \/ CutOff(m)

Job(v) == \/ JobFails(v) \/ ReadMessage(v) \/ DeleteSafetyFile(v)
          \/ DeleteMessageFiles(v) \/ UpdateMessage(v) \/ UpdateFails(v)

Deletion(m) == ReadForDelete(m) \/ DeleteFiles(m) \/ DeleteRow(m)

Next == \/ \E m \in Messages : Request(m) \/ Deletion(m) \/ Expire(m)
        \/ \E v \in Video : Job(v) \/ OperationNotAvailable(v) \/ WorkerDies(v)

(***************************************************************************)
(* Requests run to their end, and the queue gives every job to a worker.   *)
(* Nothing makes a user go on with a deletion the server has not begun.    *)
(***************************************************************************)
Fairness == /\ \A m \in Messages : WF_vars(Request(m))
            /\ \A m \in Messages : WF_vars(DeleteFiles(m) \/ DeleteRow(m))
            /\ \A v \in Video : WF_vars(Job(v))

Spec == Init /\ [][Next]_vars /\ Fairness

-----------------------------------------------------------------------------
(***************************************************************************)
(* What is expected of the four actors.                                    *)
(***************************************************************************)

\* The row, the buckets' names and what a job remembers have their types.
TypeOK ==
  /\ pc \in [Messages -> RequestPC]
  /\ file \in [Messages -> Nat \ {0}]
  /\ \A m \in Messages : Here(m) \in Video
  /\ row \in [Messages -> RowType]
  /\ verdict \in [Video -> Verdicts]
  /\ safety \subseteq Video /\ bucket \subseteq Video
  /\ job \in [Video -> JobPC]
  /\ tries \in [Video -> 0..MaxRetries]
  /\ seen \in [Video -> RowType]
  /\ deaths \in 0..Deaths
  /\ del \in [Messages -> [at : DelPC, urls : SUBSET Video]]
  /\ mode \in Modes
  /\ slips \in [Messages -> SUBSET Slip]

\* No file of a message is public before all its videos have passed: judged safe
\* when the check blocks, given to the queue when it does not.  The loop over the
\* videos may raise, time out or find an unsafe one at any of them.  Only a user
\* with the permission to skip the checks is exempt.
OnlyCheckedIsPublic ==
  \A m \in Messages :
    FilesOf(m) \cap bucket # {} /\ "bypassed" \notin slips[m] =>
      \A v \in FilesOf(m) : /\ mode = "blocking" => verdict[v] = "safe"
                            /\ mode = "queued" => job[v] # "none"

\* A message with an unsafe video that the worker has dealt with, and a message its
\* user has deleted, has no public file left, whichever of them read file_urls
\* first: unless the stream was cut off or not yet there when one of them read
\* the row, or the storage failed.  Retries and deaths of a worker do not matter.
UnwantedFilesAreGone ==
  \A m \in Messages :
    \/ del[m].at = "over"
    \/ \E v \in FilesOf(m) : verdict[v] = "unsafe" /\ job[v] = "done"
    => \/ FilesOf(m) \cap bucket = {}
       \/ pc[m] = "failed"
       \/ slips[m] \cap {"hasty", "early", "lost"} # {}

\* An unsafe video that the worker has dealt with leaves its message marked and
\* without file names, also when a video of the same message is found safe later:
\* unless two processes held the row at a time, or the files were named later.
UnsafeIsMarked ==
  \A v \in Video :
    verdict[v] = "unsafe" /\ job[v] = "done" /\ row[v[1]].exists =>
      /\ row[v[1]].harmful = "unsafe" \/ "overlap" \in slips[v[1]]
      /\ row[v[1]].urls = {} \/ "hasty" \in slips[v[1]]

\* The row names a file that is not in the bucket.
Dangling(v) == v \in row[v[1]].urls /\ v \notin bucket

\* A row does not go on naming a file that has been deleted, though the worker and
\* the user delete files first and write the row later, and the worker may die in
\* between: unless the row has expired, or the retries are used up.
DanglingNamesEnd ==
  \A v \in Video :
    Dangling(v) ~> \/ ~Dangling(v)
                   \/ row[v[1]].expired
                   \/ \E w \in FilesOf(v[1]) : job[w] = "exhausted"

\* "This function removes videos from the safety bucket after they are checked":
\* a video that the blocking check has turned down is not in the bucket any more.
CheckedVideosLeave ==
  [][\A m \in Messages :
       pc[m] = "annotating" /\ pc'[m] = "refused" => Here(m) \notin safety']_vars
=============================================================================
