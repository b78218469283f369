# Verification of olmo-api

TLA+ models of the service behind the Ai2 Playground: `apps/flask-api` (threads,
messages, streams, safety), `apps/api` (models, templates, users), `apps/safety-worker`
(queued video checks) and the packages they share (`packages/db`, `packages/core`).
The models are checked by TLC on small instances; what matters most of them is proved
with TLAPS for every instance.

A request for a reply passes `RequestGate`, is stored and streamed by `CreateMessage`,
asks its model through `Inference`, takes its connections from `ConnectionPool`, and its
videos go through `VideoSafety`. `ThreadMaintenance` has what may happen to the thread
meanwhile. `Attribution` traces a finished reply. `UserAccounts`, `ModelAdmin` and
`Records` keep what is around it.

```
MessageTable ── CreateMessage ─┬─ MCCreateMessage      branches, tools, streams, ...
                  │            └─ CreateMessageProofs ── GeneratorProofs
                  └─ StreamProtocol (abstract, refined by CreateMessage)
VideoSafety ───────────────────┬─ MCVideoSafety        videos, leftover
                               └─ VideoSafetyProofs
ThreadMaintenance ─────────────┬─ MCThreadMaintenance  maintenance
                               └─ ThreadMaintenanceProofs
UserAccounts, Records ─────────┬─ MCServices           services ─┬─ ServicesProofs
ModelAdmin ────────────────────┴─ ModelAdminProofs ──────────────┘
RequestGate, ConnectionPool ───┬─ MCRequests           requests ─┬─ RequestsProofs
Attribution, Inference ────────┘                                 └─ ReplyProofs
                                                       reread (Inference alone)
```

## 1. The system

Flask serves every request in a thread of its own, with a SQLAlchemy session bound to
the application context (`dao/flask_sqlalchemy_session.py`) and, beside it, a psycopg
pool for the older tables (`db/connection_pool.py`). PostgreSQL is the only thing that
requests share; Google Cloud Storage and the safety queue are shared with the worker.

| Component | State it keeps | Operations | What must be right |
|---|---|---|---|
| Message creation and streaming (`message/create_message_service`) | the chain of messages of a request, the reply in production, the session's unflushed objects | validate, set up the chain, store the message, loop: reply, tools, finalize; yield at each | threads stay trees with one owner; what is shown is stored; calls are answered before the model goes on; a stream ends |
| Message table and unit of work (`dao/message`, `packages/db`) | rows, row locks, identity map | add, update, delete, migrate, listings | rows refer to rows and completions that exist |
| Stream protocol (`message_chunk.py`) | what a client has seen of a stream | start, messages, chunks, tool results, limit, end | the items come in the order clients are written for |
| Completions (`dao/completion.py`) | completion records | create on a connection of its own, remove | committed before a row refers to them |
| Video safety (`safety.py`, `google_video_intelligence`, `safety_queue`) | two buckets, a queue of jobs, `harmful`, `file_urls` | upload, annotate, queue, judge, mark, purge, retry | nothing public unchecked; unsafe files go and stay marked |
| Safety gates (`create_assessment.py`, `WildGuard.py`, ...) | none | captcha, text, image, video checks | order, bypass only with the permission |
| Request validation (`create_message_request.py`, `validate_message_files_from_config.py`, `endpoint.py`) | none | field and thread validators, file rules, inference constraints | a request fits the thread and the model |
| Message deletion (`message_service.py`) | rows, completions, files | delete a thread | all of it goes, also while others write |
| Thread reading (`thread/`) | none | one thread, list of threads | expired and unfinished rows are not shown |
| Users (`user/`, `apps/api/.../user`) | client id, consent dates | upsert, who-am-i, migrate an anonymous user | consent is never older than it was; messages follow their user |
| Labels, templates, datachips | rows with soft deletion | create, update, delete, list | one current label per user and message; owners only |
| Connection pool | connections taken | take, return | requests that hold one get the second |
| Model configuration (both services) | models and their order | create, update, reorder, delete | orders stay distinct and complete |
| Attribution (`flatten_spans.py`) | none | merge and flatten overlapping spans | same text, no overlap |
| Inference mapping, tools, agents, transcription | none | map to and from providers, call tools | mapping keeps roles and calls |
| Authentication, plumbing, telemetry, generated code | none in the system | | |

`PROJECT.json` has the same list with sources and status, and the hazards at their lines.

**Interactions.** A stream reads and commits rows that other streams read; it may hold
row locks while the model answers. Its completion is written on another connection.
Its videos are copied to a bucket and named in a queued job before its row exists; the
worker writes the row that the stream also writes; a user may delete either's work.

**What is hard here.** Interleavings at every commit and `yield`; objects that a session
keeps as it first read them; updates that wait in a session for a commit that may never
come; a generator that is dropped half-way; a queue that hands a job out again; deletion
in several stores without a transaction; clients that do not wait.

## 2. Modules

### MessageTable

The committed rows (`message`, in order of creation: an identity is a position), the
completions, and for each request what its session holds: parent columns flushed but not
committed (`writes`), error columns not flushed (`errs`), collections already loaded
(`loaded`). `Add`, `Update`, `Rollback`, `AssignChildren` are the operations of
`MessageRepository` and of the session that the handlers use. Columns the properties do
not tell apart (content, options, model, timestamps) are left out.

Facts about SQLAlchemy and PostgreSQL that the model relies on, each as the code uses it:
setting a one-to-many collection loads the stored one first, and children that drop out
of it get a NULL parent; a lazy load flushes what is dirty; a row updated in an open
transaction is locked until it ends; an object of the identity map keeps the attributes it
was first read with (the sessions are made with `expire_on_commit=False`); a value that is
equal to the loaded one is not written; an UPDATE of a row that is gone raises; the
teardown of the application context rolls back what was not committed; PostgreSQL ends
a deadlock by failing one of its transactions.

### CreateMessage

One process per request. An action is what the handler does between two commits, two
reads of the table or two yields.

| Code | Actions |
|---|---|
| `stream_message_from_model`, validators | `Post`, `Refuse` |
| `setup_msg_thread` | `SetupSystemMessage`, `ReadThread`, `Climb` |
| `create_new_message` | `CreateUser`, `CreateToolResponse`, `CreateFails`, `CreateAssistant`, `FinalizeAssistant` |
| `stream_new_message` | `Start`, `ShowPending`, `AddReply`, `StopLooping`, `ShowReply`, `CallTool`, `AfterFinalize`, `ShowTurn`, `ExceedLimit`, `End` |
| `prepare_yield_message_chain`, `repair_children` | `RepairChildren` (inside the yields) |
| `stream_assistant_response` | `StreamErrorChunk`, `InferenceFails`, `Respond`, `SaveReply` |
| `finalize_messages` | `FinalizeSystem`, `FinalizeCreated`, `FinalizeNothing` |
| `format_messages`, the server, PostgreSQL | `Abort`, `Deadlock` |

A request is used once. The client is environment: it posts any input of `Inputs` under
any stored row and answers any stored call; with `PoliteClients` it does not post under a
reply that is still being streamed. The model is environment: a reply makes any sequence
of calls of `Answers`, or fails. `Fragile` are the requests that may be cut off.

### StreamProtocol

What a stream promises: it opens, may show pending calls and close, or take turns up to
its budget; a turn asks for calls; server calls are answered within the turn; a stream
goes on only when nothing is left to the client; it ends with at most one limit report.
`CreateMessage!Protocol` is the refinement mapping, from `pc`, `reply`, `step` and the
calls stored.

### VideoSafety

One request per message, one job per video, worker processes, the user's deletion, and
the clock. `row` is the part of the message row that they share, `safety` and `bucket`
the two buckets, `seen` what a job's session read. The loop of `check_video_safety` is
`UploadToSafetyBucket`, `CheckRequest`, `CheckRefuses`; a user with the permission may
skip it (`Bypass`). `create_new_message` is `CreateUserMessage`, `UploadRequestFile`,
`CommitFileUrls`; `handle_video_safety_check` is `OperationNotAvailable`, `JobFails`,
`ReadMessage`, `DeleteSafetyFile`, `DeleteMessageFiles`, `UpdateMessage`, `UpdateFails`;
`delete_message` is `ReadForDelete`, `DeleteFiles`, `DeleteRow`.

A worker process runs its jobs on one event loop (the `AsyncIO` middleware), and from the
verdict on a job does not await: jobs overlap only between processes, of which
`start-safety-worker.sh` starts two and `dev-safety-worker.sh` one. `Workers` counts them.

`slips` is a history variable. It records, per message, what the code leaves to luck and
what then went wrong: checks skipped (`bypassed`), a verdict or a deletion that read the
row before the stream had named its files (`hasty`, `early`), two processes with the row
in hand (`overlap`), a storage failure that was logged and forgotten (`lost`). The
properties are stated up to the slips that can really break them, so the run shows both
that these exceptions are needed (taking one out of a property makes TLC report the race)
and that there are no others.

### ThreadMaintenance

What reaches a thread behind the back of a stream. A stream is reduced to its commits
(`AddSystem`, `AddUser`, `AddReply`, `Create` in `Generate`, `SaveReply`, `FinalizeSystem`,
`FinalizeUser`), what it reads first (`Validate`, `ReadThread`, `ToolsConflict`), and the
ways through it that decide what is committed: calls that wait for the client
(`ShowPending`), an ErrorChunk, after which the reply is not saved and the prompt is made
final all the same (`GenerateError`), and `max_steps` of zero or less, where nothing becomes
final (`NoTurn`). `Cut` drops it anywhere. `repair_children` runs in `ShowPending` and
`ShowReply`: it sets the children of each message of the chain (`chain`) to its successor,
and the branches it finds there besides (`Siblings`) lose their parent with the stream's
next commit, whichever that is (`drops`, `Unlinked`).

`ReadForDelete`, `DeleteOne`, `RemoveCompletions` are `delete_message`,
with the cascades of the foreign keys (`Closed`, `Cascade`) and the rows that
`MessageRepository.delete` skips because they have expired; `CutDeletion` stops it half-way.
`Migrate` is the UPDATE of `migrate_messages_to_new_user`, `Tick` the passing of a day.
`Listed` and `Shown` are what the list of threads and a single thread read.

Reductions: one turn and no tools of the server, as `CreateMessage` has them; whether a
reply above a prompt has calls that nobody answered is left open; the branches are read in
one step, while the code loads the children of one message after the other; and the locks
that flushed parents hold are left out, because the writes of two streams to one row commute
here and a stream that PostgreSQL ends in a deadlock is one that is `Cut`.

`slips` records per thread what met: a stream cut off, a deletion that raced it or was cut
off, a migration or expiry under a running stream, an answer that was an error, a branch
torn off (`forked`). As in `VideoSafety`, the properties name the slips that can break them,
and only those. Two of them describe what the code does to a reader rather than what he
would want: after `forked` a thread comes apart into pieces, which the list shows as threads
of their own, and `EachMessageIsShownOnce` says that this is all that happens to it; after
`error` a thread without an answer is listed.

### UserAccounts

`upsert_user` (`LookUp`, then `UpdateUser` or `CreateUser`), the migration of an anonymous
user (`ReadPrevious`, `ReadNew`, `MergeUsers`, `CopyUser`, `KeepUsers`, `MoveMessages`),
each statement in a transaction of its own, as the psycopg stores have it; `Updated` has the
COALESCEs of the UPDATE. `HasAcceptedTerms`, `HasAcceptedCollection` are what both services
answer to who-am-I. `said` is what the user last said, `flaws` what the code loses of it.

The comment over `whoami` (`user_blueprint.py:53-57`, again in
`user_who_am_i_service.py:29-33`) and the condition below it disagree about users who have
accepted older terms only and revoked them: the comment counts a revocation *before* the
latest terms as acceptance, the code one *on or after* them. Both services have the same
code, and `HasAcceptedTerms` has what the code has. `ConsentIsTheLastWord` compares it with
what the user said, not with itself, and claims nothing about the terms for these users
(`HasLeftOlderTerms`): which of the two is meant is for the authors to say.

### ModelAdmin

`create`, `update`, `reorder` and `delete` of both services on `model_config` and
`multi_modal_model_config`, with the row locks of their transactions. An update reads
(`ReadModel`), changes in memory, and stores the columns that changed (`StoreUpdate`);
`MoveRow` stores a list row by row under locks, `BreakCircle` is PostgreSQL ending a
deadlock. A list is what the request type allows: any models, some of them or one twice, with
any places. `tainted` records writes that nobody checked, and `loose` that the last list
that was stored does not put all models in order (`IsOrder`). The services differ: only FastAPI compares the default with the
limits of the row that results, and it does so before the row is locked.

### Records

Labels and datachips: `CheckLabel` and `InsertLabel`, `FindLabel` and `DeleteLabel`,
`CreateChip`, `FindChip`, `PatchChip`, the deletion of a message with its labels, and the
migration of labels. `overlaps` records where two requests of one user met.

### ConnectionPool

One psycopg pool of one to two connections (`config.py`) serves the session of a request,
through the engine's `creator`, and every store. `Acquire` takes a free connection or stands
in line, `Grow` is the pool's worker opening another, `TimeOut` the 30 seconds after which
the pool gives up on a client, `TearDown` the removal of the session.

### Inference

The chain of a stream is mapped for the provider (`Mapped`, `Sent`), which answers with
deltas (`TextDelta`, `ThinkTag`, `EndThinkTag`, `ReasoningDelta`, `ToolCallDelta`); each
goes on with a part or begins one, and yields a chunk. `Save` makes the stored reply of the
parts, `AnswerCalls` runs the server tools, and `Ask` begins the next turn. `host` tells the
chat model (`OpenAIChatModelVideo`) from the queue (`BeakerQueuesModel`). The parts manager
is Pydantic AI's: it is modelled as the handlers rely on it. A piece of content is the
number of its delta, so that order and loss are seen without any text.

A request continues any thread that the handlers let a client build (`Threads`): a response
answers a call of the last reply before it (`MayFollow`), in any order, late or a second
time, and a client that writes a reply itself may put it over calls that nobody has
answered. `has_pending_tool_calls` looks at the last reply only, so such calls go to the
provider without an answer. `PromptsAreWhole` claims of old calls what is left: those of the
last reply are answered, and an answer stands behind its call and before the next reply. A
call that is made in the exchange has one answer.

### RequestGate

One request from its headers to `create_new_message`: `Protect`, `Parse`, `LookUp`,
`Merge`, `CheckModel`, `CheckFiles`, `CheckParameters`, `CheckCaptcha`, `CheckPermission`,
`CheckText`, `CheckKinds`, `CheckVideos`, `CheckImages`, `Conclude`, in the order of
`stream_message_from_model` and `validate_message_security_and_safety`. External checkers
may fail at every call. What a file is declared as and what its bytes hold are two things:
the safety checks go by the first, the rules of files by the second. A conversation with an
agent becomes a plain request (`OfAgent`), without bypass, files and options.

The default of an option may lie beyond the limits of its model, as `ModelAdmin` shows it
can; a request that leaves the option open is then refused. An option of zero takes another
way: it passes the test of the limits as zero, and `map_settings.py:19-21` sends the default
in its place, which nobody has compared with the limits then. The docstring of
`merge_inference_options` (l.14-23) says that an option of the request takes precedence; of
zero that is not so. `OptionsFitTheModel` claims nothing for zero.

The rule that a model of text only takes no files has no effect, in the code and in the
model: the validator (`validate_message_files_from_config.py:42`) asks for a response
model of several modes whose kind is text only, which no row is.

### Attribution

The inquiry at the index of training data with the errors it can end in, `Filter`,
`flatten_spans` round by round (`Flatten`), the mapping of spans and documents onto each
other (`MapSpan`) and the sorting of the answer (`Attribute`).

### MC modules

Sets of inputs and answers for TLC, and the symmetry of requests. `MCServices` and
`MCRequests` put parts side by side that share no state: one of them moves in a behaviour,
chosen by `focus`, so that the run is the sum and not the product of its parts. Operators
introduced by "Wrong on purpose" in the models are variants of the definition that follows
them, with a bug a programmer could make; each property is known to fail when its variant
is put in.

## 3. Runs

| Run | Instance | Shows |
|---|---|---|
| `branches` | 3 requests, 2 callers, prompts and client-written assistant messages, no calls | `TypeOK`, `ThreadIntegrity`, `RolesAlternate`, `OneOwnerPerThread` while streams relink each other's branches |
| `tools` | 2 requests, prompts and tool responses, replies with two calls, two steps, polite clients | `ResponsesAnswerCalls`, `StreamIsDurable`, `NoReplyOverPendingCalls` |
| `streams` | 2 requests of every role, `max_steps` -1, 0, 1, system prompts, one request may be cut off | `StreamsFollowProtocol`, `EveryRequestEnds`, `StreamIsDurable`, `CompletionsExist` |
| `videos` | one message, two videos, all modes, two workers, one death, one retry | `OnlyCheckedIsPublic`, `UnwantedFilesAreGone`, `UnsafeIsMarked`, `DanglingNamesEnd`, `TypeOK` |
| `maintenance` | 2 streams that may branch, end in an error or have no turn, a deletion, migration, expiry, one request cut off, 4 rows | `DeletedThreadsStayDeleted`, `CompletionsGoWithTheirThread`, `ThreadsHaveOneOwner`, `EachMessageIsShownOnce`, `ListedThreadsHaveAnAnswer`, `FinishedThreadsAreListed`, `AncestorsAreFound`, `TypeOK` |
| `services` | 3 requests on users, on two models in both services, or on labels and datachips | `OneRowPerClient`, `ConsentIsTheLastWord`; `PlacesAreDistinct`, `DefaultsFitTheirLimits`, `FileOptionsGoWithTheKind`; `OneOpenLabelEach`, `LabelsAreDeletedByTheirCreator`; `ServicesTypeOK` |
| `requests` | 3 requests on a pool of 1 to 2; 2 turns of a stream with 4 deltas; requests that differ from a plain one in a respect or two; up to 3 spans over 4 tokens | `ConnectionsComeBack`, `RequestsEnd`; `ClientSeesWhatIsStored`, `PromptsAreWhole`; `WhatPassesWasLookedAt`, `OptionsFitTheModel`, `CallersAgree`; `SpansAndDocumentsAgree` |
| `lost_error` | 2 requests, one call | violates `ErrorIsPersisted` |
| `stuck` | two server calls and one of the client's | violates `AnsweredCallsUnblock` |
| `orphans` | 3 requests on two branches | violates `RepliesHaveParents` |
| `leftover` | blocking check | violates `CheckedVideosLeave` |
| `reread` | a prompt with a file, one call of a server tool, two turns | violates `NextConsumerCanRead` |

The five runs that end in a violation each refute something the repository itself says;
`PROJECT.json` quotes it under "findings".

* An error chunk of a later turn is set on the row in memory and lost by the teardown,
  because `finalize_messages` commits nothing when there is nothing to finalize.
* Responses to several calls of one reply are stored side by side under it (`last_msg` is
  never advanced); the line that `repair_children` makes of them is rolled back when a
  call for the client ends the stream, and the thread is held back for ever.
* `repair_children` sets the parent of the heads of other branches to NULL.
* The stream of an uploaded file is read for the first prompt and not rewound: the second
  turn sends the file empty.
* `delete_from_safety_bucket` is given a `gs://` path where a name is expected.

**Bounds.** `Requests`, `Inputs`, `Answers`, `max_steps` and the videos of a message bound
a behaviour; nothing else is cut. Three requests make two branches under one message with
one stream on each, or a thread, an interfering stream and a latecomer, which is what
detaching, relinking and deadlock need. Two make a reply and the answer to its calls, in
parallel or in turn. Two calls in a reply are the first number with an order; `max_steps`
of -1, 0, 1 and 2 are below the loop, no turn, one turn and a second. Two videos of one
message, two workers and one death let a job die at each of its steps while another job
and the user hold the row; a retry bound of one reaches "retried" and "exhausted", and
the code treats all retries alike.

Four rows are a system message, a prompt, its reply and one more of a second stream, or two
branches under the reply of a thread that was there; two streams and a deletion let a row
come before, between and after the statements of a deletion. Of the rows the first two may
expire (`Horizon`), which are the root and its child; the order of expiry is that of
creation, so later ones add no new order. Three calls make a lookup, a competing insert and a third that sees both; two
models and three administrators make a circle of locks and an outsider. Three requests on
two connections are the least with which all that hold one wait for another while a third
stands in line. Lists of up to two entries with the places 10 and 20 are full, partial,
tied, with one model twice, and ahead of the sequence. Four deltas are a part of each kind or two parts that are mixed, begun and
gone on with; two turns are one before and one after a tool. A thread of five messages (`ThreadLength`) has a
reply with two calls and room behind it for two answers and a prompt, one call answered
twice, or a written reply over an open call and a prompt. Requests of `RequestGate` vary
in the dimensions that one test or two related ones look at, the others being plain: no test
looks at more. Three spans over four tokens nest, overlap in a row and lie apart. The proofs
need no bound.

**Fairness.** `CreateMessage`: weak fairness of each handler and of the resolution of
deadlocks. The server runs a handler to its end; calls of the model have a timeout; a
handler waits for nothing but row locks, and PostgreSQL leaves no deadlock standing.
Clients and aborts have none. `VideoSafety`: weak fairness of requests, of the steps of a
deletion that has begun and of jobs, which the queue hands to a worker until they are
acknowledged. Nothing makes a user delete, a row expire, a storage fail or a worker die.
`ConnectionPool`: a store returns its connection and a wait ends after its 30 seconds (weak
fairness); a request is torn down if it again and again could be (strong fairness, as a
handler that can return is not kept from it by what it does in between); a connection that
is being opened is opened.

`NoReplyOverPendingCalls` is checked for clients that wait for the end of a stream. One that
posts under a reply while it is being streamed gets an answer over calls that become pending
meanwhile: the gate is read once, before the loop (`stream_new_message.py:234`).

Deadlock is not checked: every request, job and deletion of an instance ends, and then
the system stops. That none of them waits for ever is `EveryRequestEnds` and
`DanglingNamesEnd`.

## 4. Proofs

For all values of the constants that satisfy the named assumptions:

| Theorem | States |
|---|---|
| `CreateMessageProofs` | under `ClientsAssumption`, `InputsAssumption`, `AnswersAssumption`, `CutAssumption` |
| `InvAlways`, `TypeCorrect` | the inductive invariant `Inv`; `TypeOK` |
| `ThreadsIntact`, `OneOwner` | `ThreadIntegrity`, `OneOwnerPerThread` |
| `GeneratorProofs` | under the same assumptions |
| `SoundAlways` | the inductive invariant `Sound`, on top of `Inv` |
| `CompletionsAlwaysExist`, `RolesAlwaysAlternate`, `ResponsesAlwaysAnswer`, `StreamsAreDurable` | `CompletionsExist`, `RolesAlternate`, `ResponsesAnswerCalls`, `StreamIsDurable` |
| `StreamsImplementProtocol` | `StreamsFollowProtocol`: every step of `CreateMessage` is a step of `StreamProtocol` or none |
| `WaitedAlways`, `NoReplyOverPending` | for polite clients: the inductive invariant `Waited`; `NoReplyOverPendingCalls` |
| `VideoSafetyProofs` | under `VideosAssumption`, `WorkerAssumption`, `UsersAssumption` |
| `GateAlways`, `GateHolds`, `VideoTypes` | the inductive invariant `GateInv`; `OnlyCheckedIsPublic`; `TypeOK` |
| `VideoAlways`, `UnwantedGone`, `UnsafeStaysMarked` | the inductive invariant `VideoInv`; `UnwantedFilesAreGone`, `UnsafeIsMarked` |
| `ThreadMaintenanceProofs` | under `PeopleAssumption`, `BoundAssumption` |
| `MaintenanceAlways`, `DeletedForGood`, `OwnersStayTogether`, `MaintenanceTypes` | the inductive invariant `MaintenanceInv`; `DeletedThreadsStayDeleted`, `ThreadsHaveOneOwner`, `TypeOK` |
| `ReadersAlways`, `CompletionsFollow`, `AncestorsAreThere`, `FinishedAreListed`, `ListedAreAnswered`, `ShownOnce` | the inductive invariant `ReadersInv`; `CompletionsGoWithTheirThread`, `AncestorsAreFound`, `FinishedThreadsAreListed`, `ListedThreadsHaveAnAnswer`, `EachMessageIsShownOnce` |
| `ModelAdminProofs` | under `OptionsAssumption`, `NumbersAssumption`, `ModelsAssumption` |
| `AdminAlways`, `PlacesHold`, `LimitsHold`, `KindsHold` | the inductive invariant `AdminInv`; `PlacesAreDistinct`, `DefaultsFitTheirLimits`, `FileOptionsGoWithTheKind` |
| `ServicesProofs` | under the same and, of `UserAccounts`, `ClientsAssumption`, `DatesAssumption` |
| `AccountAlways`, `RowsAreSingle`, `LastWordIsTold` | the inductive invariant `AccountInv`; `OneRowPerClient`, `ConsentIsTheLastWord` |
| `RecordsAlways`, `LabelsAreSingle`, `LabelsGoByTheirCreator` | the inductive invariant `RecordInv`; `OneOpenLabelEach`, the action property `LabelsAreDeletedByTheirCreator` |
| `UsersTyped`, `ModelsTyped`, `ServicesAreApart`, `ServicesTyped` | the types of both parts; users, models and records side by side implement each of the three; `ServicesTypeOK` |
| `RequestsProofs` | under `PoolAssumption`, `GateAssumption` |
| `PoolAlways`, `NoConnectionIsLost` | the inductive invariant `PoolInv`; `ConnectionsComeBack` |
| `TestsAlways`, `HarmIsSeen`, `OptionsAlwaysFit`, `CallersAlwaysAgree` | the invariant `TestsInv`; `WhatPassesWasLookedAt`, `OptionsFitTheModel`, `CallersAgree` |
| `PoolIsApart`, `RequestsHold` | the parts of `MCRequests` side by side implement the pool; four properties hold of them |
| `ReplyProofs` | under `AttributionAssumption`; of `Inference` under none |
| `ExchangeAlways`, `ClientSees`, `PromptsWhole` | the inductive invariants `ReplyInv` and `ChainInv`; `ClientSeesWhatIsStored`, `PromptsAreWhole` |
| `Built`, `AttributionAlways`, `SpansAndDocuments` | what the loop of `flatten_spans` builds from a span; the inductive invariant `AttributionInv`; `SpansAndDocumentsAgree` |
| `RepliesHold` | the other three properties of `MCRequests` hold of the parts side by side |

**Threads (`Inv`).** `ThreadIntegrity` is not inductive: a parent column is computed from
what a request has read and flushed earlier, and committed later, often by a commit meant
for another row. `Inv` therefore says of every request that the parents it has flushed
(`WritesFit`), the parents it has read (`SnapshotFits`), the chain it has climbed
(`ChainFits`) and the request it has validated (`ReqFits`) fit the table. These facts are
about rows that exist, rows are only added, and the thread, visibility and owner of a row
never change (`Frozen`): so they survive the steps of all other requests, and the proof of
each action is about its own request. Chains grow from newer to older rows and then by new
rows, so they are ordered, and linking a message to its successor in a chain can close no
cycle.

**Streams (`Sound`).** What a row is worth is known only to the request that makes it: an
empty reply gets its calls, its completion and its end when its maker stores it. `RowSound`
says of every row that its role alternates with its parent's, that only replies have calls
and a completion, that the completion is committed, and that a tool's response answers a
call of an earlier row of its thread. `GeneratorSound` follows the generator: what it has
validated (`ReqSound`), the rows it has made (`CreatedSound`), the reply in the making
(`ReplySound`), what the turn has stored (`TurnSound`) and the flushed parents that keep
roles alternating (`WritesSound`). `OneMaker` says that a row belongs to one request, so
that no two requests store one reply; all else that a step of another request may do to a
row (`RowsKept`) adds to it and takes nothing back. The refinement (`NextMaps`) takes from
`TurnSound` that a further turn begins with every call answered and below the limit.

`Waited` is about clients that wait for the end of a stream (`PoliteClients`, a hypothesis
of its two theorems): a reply that is being made is known only to its maker and nothing
hangs on it (`Unread`), so nothing is pending when the generator turns to its next reply.

**Videos (`GateInv`, `VideoInv`).** `OnlyCheckedIsPublic` needs to know how far the loop has
come: `GateInv` says that the videos before the current one are cleared, that a request
beyond the loop has all of them cleared, that no file is public before the upload, and that
a job goes on only with a response it could read (`Legible`, for the type of `harmful`).
`VideoInv` follows what is found too late: rows, deletions and jobs come after the checks
(`Timely`), a row names no more than a job has read and nothing after an unsafe verdict
(`NamesFit`), one job at a time holds a row and its verdict stays in it (`MarkFits`), and
whoever is about to delete has read the names of all that is public (`PublicFits`). Each
fact names the slips that break it, which are those of the properties.

**Models (`AdminInv`).** The three properties of `ModelAdmin` compare rows, but a request
writes what it made of an earlier read. `AdminInv` relates the two: the kind of an accepted
update is textual exactly when the row it has read still is, as long as `born` shows it is
that row (`KindFits`); `LimitsFit` keeps what the FastAPI service has compared; `MovesFit`
says that only a reorder has moved rows, and `BirthFits` that no model stands behind the
last number of the sequence while the last list put all models in order: a model that is
created next then comes after all others. A step of another request keeps these facts
because it keeps the kind of every row textual or not, or says so in `tainted`
(`KindsStay`). A list can pass over a model that is deleted and created anew before the
list is stored: `IsOrder` therefore compares the table with the rows that were moved, not
with those of the list.

**Maintenance (`MaintenanceInv`, `ReadersInv`).** `DeletedThreadsStayDeleted` speaks of
streams that still add rows when the deletion is over. What keeps them out is the foreign
key of `root`: `RootsExist` says that every row's root is in the table, so a thread without
its root is empty, and `DeletionFits` follows the root through the deletion. A cascade keeps
`RootsExist` because a row that is left names no row that is deleted (`CascadeCloses`).
`StreamFits` says that a stream writes the owner its thread has unless the thread was
migrated meanwhile, which `ThreadsHaveOneOwner` rests on.

What a reader sees rests on threads that no deletion has begun on (`Whole`): their rows stay,
their root has no parent, and a row besides it without a parent was torn off by a stream
that is on record (`RowKept`, `Torn`); a stream's rows are where it left them (`PlaceFits`,
`WholeFits`), and otherwise the history says what happened (`StreamKnows`, `DeletionKnows`).
A parent is older than its child and of the same thread (`RowShape`), so every set of rows
holds one whose parent is outside of it (`Least`): that is why each message is below a row
without a parent, and why the climb comes to one. No induction along the parents is needed,
and a parent that is lost in between keeps the fact. Whether a root becomes final depends on
a stream that is still to do it: `Asks` is the stream of a root that is a prompt, `Closes`
one about to make a system message final, `Unturned` one that had no turn, and `Keeps` says
that a step of a stream does what it owes, still owes it, or goes on record. `EndFits` says
what a stream that has ended leaves behind. `Ledger` names who
answers for a completion: a row that says so, a deletion that has it on its list, or a
stream about to save the reply. `Orderly` is the contract of a step: rows stay unless their
thread is being deleted, and a deletion or an expiry that meets a stream goes on record.

**Users and records (`AccountInv`, `RecordInv`).** `RowIsHeard` is `ConsentIsTheLastWord` by
columns. A migration settles dates that it stores later, while the account may be updated:
`MergeFits` says that each date it carries is the anonymous user's or a later one, and no
later than what the account has by then, unless something went wrong with the account. `FoundStays` says that a row that a call has found is still there, and
`RowIsFirst` that a client without a row has said nothing. `RecordInv` says what a request
knows of the label it was asked to delete (`AskedFits`) and that two open labels of one
creator on one message are two whose requests overlapped (`OpenOnce`).

**Pool and gate (`PoolInv`, `TestsInv`).** Who waits is in line once; who asks for a
connection does not have it; every opened connection is free, held or being opened
(`Counted`); and nobody waits while one is free. `TestsInv` says what a request carries and
gives each test it has passed the fact it leaves (`OptionsMerged`, `OptionsLimited`,
`TextTold`, `VideosTold`, `ImagesTold`), which the steps behind it keep.

**Replies (`ReplyInv`, `ChainInv`).** `ClientSeesWhatIsStored` compares a reply put together
from parts with one put together from chunks. `ReplyInv` relates the two while they grow:
ids of parts are single, and one part at most is open for a vendor (`PartsFit`); the pieces
of text and of thoughts gathered from the parts are those gathered from the chunks, in order
unless deltas were mixed (`ContentFits`); and the calls that have a name are those that the
chunks begin, with the arguments that follow (`CallsFit`). A delta goes on with a part in
the middle and a chunk at the end, so the order is kept exactly if no part of its kind
stands behind, which is what `mixed` records. The lines that are put between parts are taken
out again by `SeamlessFlatten`. `ChainInv` follows the chain from turn to turn: an answer
stands behind its call and before the next reply, and that to a call of this exchange has
one place (`ChainFits`); the calls of a reply are answered before the next one
(`IsAnswered`), or are old and covered by another reply (`IsSettled`); the parts of the
reply in the making have ids above those of all answers so far (`IsNew`); and the prompt
mirrors the chain (`Mirrors`). A last reply that nobody has answered may stand in the chain of a new
request; then nothing is asked, which is what `HasPendingToolCalls` looks for.

**Documents (`AttributionInv`).** The loop of `flatten_spans` takes a later span in if it
overlaps what has been built so far. `Grown` is its invariant: what was taken in is held,
and what was not begins behind, as the spans are ranked. `TopsFit` is the invariant of the
rounds: spans built lie apart, every span that has been looked at is a member of one of
them, and every other begins behind them all. So they begin one after the other, the sort
of the response leaves them in place (`InPlace`), and the documents mapped before it
(`ListsFit`, `Agree`) still name the right spans.

These three are about sequences of any length and about functions defined by recursion. The
library's induction theorems have an operator for a parameter, which the provers cannot
instantiate; `Induction` and `SeqInduction` state the same for sets (a set that has zero and
with a number the next has all numbers), and follow from the theorem of the least element,
`WFMin`. A function defined by recursion is shown to exist by the same induction, for
`FlattenSeq` (`SumsExist`) and for the loop of `TopLevel` (`TopsExist`); what it computes is
a lemma on top (`FlattenBasics`, `Built`).

The types of users and of models have counters that are bounded by the number of requests
of the instance; their theorems, and `ServicesTyped`, suppose that these are finitely many
(`IsFiniteSet`).

The inductive invariants were checked by TLC, as invariants of runs, before they were
proved.

**Model-checked only.** `EveryRequestEnds`, `DanglingNamesEnd` and `RequestsEnd` are liveness
under fairness, which needs ENABLED and is beyond the provers used. Every invariant and every
action property that a passing run checks is proved. No model has a recursive operator;
recursion is by functions.

## 5. Not modelled, and why

* Content, metrics and wording: no property depends on them. Of the options of inference one
  stands for three; stop sequences are left out (a list in the request, empty by default,
  always overrides those of parent and model).
* What providers, tools, MCP servers and Google compute: external, any answer is possible.
  A MCP server's list of tools is read once per request and not modelled.
* A job that is handed out again although its first worker still runs, and the bucket's
  own lifecycle rule (files go after one day).
* Paging, sorting and searching of lists, and the export of labels: reads that change
  nothing. Which rows a list of threads holds is `Listed`.
* Prompt templates: single statements. The templates of `v3.py` name the column `author`,
  which migration `5a5c5b3e5614` has dropped, so that every one of these endpoints fails.
* Transcription: one call of an external service, nothing kept. Decoding of tokens: a token
  is valid or it is not.
* OpenAPI documentation, logging, telemetry, HubSpot, generated and deployment code: no
  state the rest depends on.

## 6. What is left

1. The step conditions of liveness (a waiting request of the pool is enabled once a
   connection is given back, a job that is acknowledged leaves no name behind) as action
   properties.
2. What the runs that end in a violation would show once the code is changed: `CreateMessage`
   with a commit at the end of a stream and with responses in line.
