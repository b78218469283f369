--------------------------- MODULE CreateMessage ---------------------------
(***************************************************************************)
(* Creating a message and streaming the answer:                            *)
(* apps/flask-api/src/message/create_message_service.                      *)
(*                                                                         *)
(* A request validates its input, sets up the chain of messages from the   *)
(* root of the thread, stores the new message and, unless that message is  *)
(* an assistant's, becomes a generator.  The generator yields the chain,   *)
(* asks the model for a reply, streams it, stores it, calls the tools it   *)
(* asks for and goes round again.  Requests run in threads of their own:   *)
(* an action is what one of them does between two commits, two reads of    *)
(* the table, or two yields.                                               *)
(***************************************************************************)
EXTENDS MessageTable, Integers

CONSTANTS
  Inputs,        \* what clients post: who, role, visibility, max_steps, and
                 \* whether the model chosen has a default system prompt
  Answers,       \* the tool calls a reply may make, as sequences of sources
  Fragile,       \* the requests that may be cut short
  PoliteClients  \* TRUE: nobody answers a reply that is still being streamed

ASSUME InputsAssumption  == Inputs \subseteq [client : Clients, role : Role,
                                            private : BOOLEAN, limit : Int,
                                            prompt : BOOLEAN]
ASSUME AnswersAssumption == Answers \subseteq Seq(Source)
ASSUME CutAssumption     == Fragile \subseteq Requests /\ PoliteClients \in BOOLEAN

VARIABLES
  pc,       \* where the handler of a request is
  req,      \* the validated request, and what validation has read
  parents,  \* the parent columns that setup_msg_thread read
  chain,    \* message_chain, the root first
  created,  \* created_message
  open,     \* rows of the chain that are not final in memory
  reply,    \* the assistant message being produced
  heard,    \* the tool calls of the response, before they are stored
  step      \* step_count

local == <<req, parents, chain, created, open, reply, heard, step>>
vars == <<storeVars, pc, local>>

-----------------------------------------------------------------------------
Last(s) == s[Len(s)]

Request == [client : Clients, role : Role, parent : MsgRef, up : MsgRef,
            private : BOOLEAN, call : CallId, limit : Int, prompt : BOOLEAN]

NoRequest == [client |-> CHOOSE c \in Clients : TRUE, role |-> "system",
              parent |-> None, up |-> None, private |-> FALSE, call |-> NoCall,
              limit |-> 0, prompt |-> FALSE]

\* The generator has yielded its first item and not its last.
Streaming == {"showing_pending", "closing_pending", "looping", "showing_reply",
              "inferring", "saving", "calling", "showing_turn", "exceeded",
              "ending"}
Running == Streaming \cup {"posted", "climbing", "chained", "made", "opening"}
PC == Running \cup {"idle", "refused", "failed", "done"}

Goto(r, where) == pc' = [pc EXCEPT ![r] = where]
Extend(r, id)  == chain' = [chain EXCEPT ![r] = Append(@, id)]

\* The objects of a request do not outlive it.
Forget(r) ==
  /\ req'     = [req EXCEPT ![r] = NoRequest]
  /\ parents' = [parents EXCEPT ![r] = <<>>]
  /\ chain'   = [chain EXCEPT ![r] = <<>>]
  /\ created' = [created EXCEPT ![r] = None]
  /\ open'    = [open EXCEPT ![r] = {}]
  /\ reply'   = [reply EXCEPT ![r] = None]
  /\ heard'   = [heard EXCEPT ![r] = <<>>]
  /\ step'    = [step EXCEPT ![r] = 0]

\* The response ends, by a return or by an exception.
Leave(r, how) == Goto(r, how) /\ Rollback(r) /\ Forget(r)

-----------------------------------------------------------------------------
(***************************************************************************)
(* The request: stream_message_from_model and the validators of            *)
(* CreateMessageRequestWithFullMessages.                                   *)
(***************************************************************************)
RootOf(p) == message[p].root

\* get_parent_and_root_messages_and_private
PrivateOf(in) == in.client \in Anonymous \/ in.private

\* Wrong on purpose: the visibility and the owner of the thread are ignored.
Valid_AnyOwner(in, parent, call) ==
  /\ in.role = "assistant" => parent # None
  /\ in.role = "tool_call_result" => parent # None /\ call # NoCall
  /\ parent # None => \/ message[parent].role = "tool_call_result"
                      \/ message[parent].role # in.role

\* Wrong on purpose: a message may follow one of its own role.
Valid_AnyRole(in, parent, call) ==
  /\ in.role = "assistant" => parent # None
  /\ in.role = "tool_call_result" => parent # None /\ call # NoCall
  /\ parent # None => /\ message[RootOf(parent)].private = PrivateOf(in)
                      /\ message[RootOf(parent)].creator = in.client

Valid(in, parent, call) ==
  /\ in.role = "assistant" => parent # None
  /\ in.role = "tool_call_result" => parent # None /\ call # NoCall
  /\ parent # None =>
       /\ message[RootOf(parent)].private = PrivateOf(in)
       /\ message[RootOf(parent)].creator = in.client
       /\ \/ message[parent].role = "tool_call_result"
          \/ message[parent].role # in.role

\* The calls a client can know of.
StoredCalls == UNION {{<<m, k>> : k \in DOMAIN message[m].calls} : m \in Ids}

\* A client that waits for the end of a stream does not answer its reply.
Waits(parent) ==
  PoliteClients /\ parent # None =>
    \A q \in Requests : pc[q] \in Streaming => reply[q] # parent

Post(r) ==
  /\ pc[r] = "idle"
  /\ \E in \in Inputs, parent \in {None} \cup Ids, call \in {NoCall} \cup StoredCalls :
       /\ Waits(parent)
       /\ Valid(in, parent, call)
       \* Only the handler of a tool response looks at the call.
       /\ in.role # "tool_call_result" => call = NoCall
       /\ req' = [req EXCEPT ![r] =
                    [client |-> in.client, role |-> in.role, parent |-> parent,
                     up |-> IF parent = None THEN None ELSE message[parent].parent,
                     private |-> PrivateOf(in), call |-> call,
                     limit |-> in.limit, prompt |-> in.prompt /\ parent = None]]
       \* The session keeps the root message as it is now.
       /\ open' = [open EXCEPT ![r] =
                    IF parent = None THEN {}
                    ELSE {m \in {RootOf(parent)} : ~message[m].final}]
  /\ Goto(r, "posted")
  /\ UNCHANGED <<storeVars, parents, chain, created, reply, heard, step>>

\* A validator, the file rules or the safety checks turn the request down.
Refuse(r) ==
  /\ pc[r] \in {"idle", "posted"}
  /\ Leave(r, "refused")

-----------------------------------------------------------------------------
(***************************************************************************)
(* setup_msg_thread: a system message for a new thread, or the chain from  *)
(* the parent to the root, followed through one read of the thread.        *)
(***************************************************************************)
\* Wrong on purpose: the root of the parent is not copied.
NewRow_OwnRoot(r, role, parent, private) ==
  [role |-> role, root |-> NewId, parent |-> parent, final |-> FALSE,
   private |-> private, creator |-> req[r].client, calls |-> <<>>,
   answers |-> NoCall, err |-> FALSE, completion |-> FALSE]

\* Wrong on purpose: a new thread keeps an empty root.
NewRow_NoRoot(r, role, parent, private) ==
  [role |-> role, root |-> IF parent = None THEN None ELSE message[parent].root,
   parent |-> parent, final |-> FALSE, private |-> private,
   creator |-> req[r].client, calls |-> <<>>, answers |-> NoCall,
   err |-> FALSE, completion |-> FALSE]

NewRow(r, role, parent, private) ==
  [role |-> role,
   root |-> IF parent = None THEN NewId ELSE message[parent].root,
   parent |-> parent, final |-> FALSE, private |-> private,
   creator |-> req[r].client, calls |-> <<>>, answers |-> NoCall,
   err |-> FALSE, completion |-> FALSE]

SetupSystemMessage(r) ==
  /\ pc[r] = "posted"
  /\ req[r].parent = None
  /\ IF req[r].prompt
     THEN /\ Add(r, NewRow(r, "system", None, req[r].private))
          /\ Extend(r, NewId)
          /\ open' = [open EXCEPT ![r] = @ \cup {NewId}]
     ELSE UNCHANGED <<message, writes, errs, chain, open>>
  /\ Goto(r, "chained")
  /\ UNCHANGED <<completions, loaded, req, parents, created, reply, heard, step>>

\* The parent is in the session since validation and keeps what was read then.
ReadThread(r) ==
  /\ pc[r] = "posted"
  /\ req[r].parent # None
  /\ parents' = [parents EXCEPT ![r] =
                   [m \in Ids |-> IF m = req[r].parent THEN req[r].up
                                  ELSE message[m].parent]]
  /\ Extend(r, req[r].parent)
  /\ Goto(r, "climbing")
  /\ UNCHANGED <<storeVars, req, created, open, reply, heard, step>>

Climb(r) ==
  /\ pc[r] = "climbing"
  /\ LET up == parents[r][chain[r][1]] IN
       IF up # None
       THEN /\ chain' = [chain EXCEPT ![r] = <<up>> \o @]
            /\ UNCHANGED <<pc, parents>>
       ELSE /\ Goto(r, "chained")
            /\ parents' = [parents EXCEPT ![r] = <<>>]
            /\ UNCHANGED chain
  /\ UNCHANGED <<storeVars, req, created, open, reply, heard, step>>

-----------------------------------------------------------------------------
(***************************************************************************)
(* create_new_message: one row for the request, by role.                   *)
(***************************************************************************)
InChain(r, id) == \E i \in DOMAIN chain[r] : chain[r][i] = id

\* find_last_matching(message_chain, role == Assistant); None if there is none.
LastAssistant(r) ==
  LET at == {i \in DOMAIN chain[r] : message[chain[r][i]].role = "assistant"}
  IN  IF at = {} THEN None ELSE chain[r][CHOOSE i \in at : \A j \in at : j <= i]

Newest(r) == IF chain[r] = <<>> THEN None ELSE Last(chain[r])

CreateUser(r) ==
  /\ pc[r] = "chained"
  /\ req[r].role = "user"
  /\ Add(r, NewRow(r, "user", Newest(r), req[r].private))
  /\ Extend(r, NewId)
  /\ created' = [created EXCEPT ![r] = NewId]
  /\ open' = [open EXCEPT ![r] = @ \cup {NewId}]
  /\ Goto(r, "opening")
  /\ UNCHANGED <<completions, loaded, req, parents, reply, heard, step>>

Answerable(r) ==
  /\ LastAssistant(r) # None
  /\ req[r].call[1] = LastAssistant(r)
  /\ req[r].call[2] \in DOMAIN message[LastAssistant(r)].calls

CreateToolResponse(r) ==
  /\ pc[r] = "chained"
  /\ req[r].role = "tool_call_result"
  /\ Answerable(r)
  /\ Add(r, [NewRow(r, "tool_call_result", Newest(r), message[Newest(r)].private)
               EXCEPT !.final = TRUE, !.answers = req[r].call,
                      !.err = message[Newest(r)].err])
  /\ Extend(r, NewId)
  /\ created' = [created EXCEPT ![r] = NewId]
  /\ Goto(r, "opening")
  /\ UNCHANGED <<completions, loaded, req, parents, open, reply, heard, step>>

\* No assistant message with that call, or a role that cannot be created.
CreateFails(r) ==
  /\ pc[r] = "chained"
  /\ \/ req[r].role = "tool_call_result" /\ ~Answerable(r)
     \/ req[r].role = "system"
  /\ Leave(r, "failed")

CreateAssistant(r) ==
  /\ pc[r] = "chained"
  /\ req[r].role = "assistant"
  /\ Add(r, NewRow(r, "assistant", req[r].parent, message[req[r].parent].private))
  /\ created' = [created EXCEPT ![r] = NewId]
  /\ Goto(r, "made")
  /\ UNCHANGED <<completions, loaded, req, parents, chain, open, reply, heard, step>>

FinalizeAssistant(r) ==
  /\ pc[r] = "made"
  /\ Update(r, created[r], <<>>, FALSE)
  /\ Goto(r, "done")
  /\ Forget(r)
  /\ loaded' = [loaded EXCEPT ![r] = {}]
  /\ UNCHANGED completions

-----------------------------------------------------------------------------
(***************************************************************************)
(* stream_new_message: the generator.                                      *)
(***************************************************************************)
Answered(r) == {message[chain[r][i]].answers :
                  i \in {j \in DOMAIN chain[r] :
                          message[chain[r][j]].role = "tool_call_result"}}

HasPendingToolCalls(r) ==
  LET a == LastAssistant(r)
  IN  a # None /\ \E k \in DOMAIN message[a].calls : <<a, k>> \notin Answered(r)

\* Wrong on purpose: pending calls are not looked for.
Start_Unchecked(r) ==
  /\ pc[r] = "opening"
  /\ Goto(r, "looping")
  /\ UNCHANGED <<storeVars, local>>

\* The first item is the identity of the thread.
Start(r) ==
  /\ pc[r] = "opening"
  /\ Goto(r, IF HasPendingToolCalls(r) THEN "showing_pending" ELSE "looping")
  /\ UNCHANGED <<storeVars, local>>

\* Wrong on purpose: one turn too many.
MayTurn_Once(r) == step[r] <= req[r].limit

MayTurn(r) == step[r] < req[r].limit

\* create_assistant_message under the newest message, the head of a turn.
AddReply(r) ==
  /\ pc[r] = "looping"
  /\ MayTurn(r)
  /\ Add(r, NewRow(r, "assistant", Newest(r), message[Newest(r)].private))
  /\ Extend(r, NewId)
  /\ reply' = [reply EXCEPT ![r] = NewId]
  /\ Goto(r, "showing_reply")
  /\ UNCHANGED <<completions, loaded, req, parents, created, open, heard, step>>

StopLooping(r) ==
  /\ pc[r] = "looping"
  /\ ~MayTurn(r)
  /\ Goto(r, IF step[r] = req[r].limit THEN "exceeded" ELSE "ending")
  /\ UNCHANGED <<storeVars, local>>

(***************************************************************************)
(* prepare_yield_message_chain: repair_children gives every message of the *)
(* chain its successor as the only child, in order; a message whose        *)
(* collection is loaded already has that child.  Of the messages this      *)
(* request has made, tool responses in a row all name the reply as parent, *)
(* so the second and later ones change their parent.                       *)
(***************************************************************************)
Showing == {"showing_pending", "showing_reply", "showing_turn"}

Unrepaired(r) == {i \in DOMAIN chain[r] : chain[r][i] \notin loaded[r]}

Position(r, id) == CHOOSE i \in DOMAIN chain[r] : chain[r][i] = id

RepairNext(r) ==
  CHOOSE i \in Unrepaired(r) : \A j \in Unrepaired(r) : i <= j

Successor(r, i) == {chain[r][j] : j \in DOMAIN chain[r] \cap {i + 1}}

Relinked(r, i) ==
  {t \in Successor(r, i) :
     /\ i > Position(r, created[r])
     /\ message[chain[r][i]].role = "tool_call_result"
     /\ message[t].role = "tool_call_result"}

RepairChildren(r) ==
  /\ pc[r] \in Showing
  /\ Unrepaired(r) # {}
  /\ LET i == RepairNext(r)
     IN  AssignChildren(r, chain[r][i], Successor(r, i), Relinked(r, i))
  /\ UNCHANGED <<pc, local>>

Shown(r, from) ==
  /\ pc[r] = from
  /\ Unrepaired(r) = {}

ShowPending(r) ==
  /\ Shown(r, "showing_pending")
  /\ Goto(r, "closing_pending")
  /\ UNCHANGED <<storeVars, local>>

ShowReply(r) ==
  /\ Shown(r, "showing_reply")
  /\ Goto(r, "inferring")
  /\ UNCHANGED <<storeVars, local>>

\* The loop ends after a turn without tool calls or with one for the user.
ShowTurn(r) ==
  /\ Shown(r, "showing_turn")
  /\ LET calls == message[reply[r]].calls IN
       IF calls = <<>> \/ \E k \in DOMAIN calls : calls[k] = "user_defined"
       THEN /\ Goto(r, "ending")
            /\ UNCHANGED step
       ELSE /\ Goto(r, "looping")
            /\ step' = [step EXCEPT ![r] = @ + 1]
  /\ UNCHANGED <<storeVars, req, parents, chain, created, open, reply, heard>>

-----------------------------------------------------------------------------
(***************************************************************************)
(* stream_assistant_response: what the model answers.  Chunks pass through *)
(* and leave nothing behind.                                               *)
(***************************************************************************)
\* An ErrorChunk ends the turn; the reply keeps it, in memory.
StreamErrorChunk(r) ==
  /\ pc[r] = "inferring"
  /\ errs' = [errs EXCEPT ![r] = @ \cup {reply[r]}]
  /\ Goto(r, "calling")
  /\ UNCHANGED <<message, completions, writes, loaded, local>>

\* ModelHTTPError and every other exception: an error item, then raise.
InferenceFails(r) ==
  /\ pc[r] = "inferring"
  /\ Leave(r, "failed")

\* Wrong on purpose: the completion is not committed.
CompletionFor_None(r) == {}

CompletionFor(r) == IF req[r].client \in Anonymous THEN {} ELSE {reply[r]}

\* dbc.completion.create commits on a connection of its own.
Respond(r) ==
  /\ pc[r] = "inferring"
  /\ \E calls \in Answers : heard' = [heard EXCEPT ![r] = calls]
  /\ completions' = completions \cup CompletionFor(r)
  /\ Goto(r, "saving")
  /\ UNCHANGED <<message, writes, errs, loaded, req, parents, chain, created,
                 open, reply, step>>

SaveReply(r) ==
  /\ pc[r] = "saving"
  /\ Update(r, reply[r], heard[r], req[r].client \notin Anonymous)
  /\ heard' = [heard EXCEPT ![r] = <<>>]
  /\ Goto(r, "calling")
  /\ UNCHANGED <<completions, loaded, req, parents, chain, created, open, reply,
                 step>>

-----------------------------------------------------------------------------
(***************************************************************************)
(* The tool calls of the reply that are not the user's, in order, each     *)
(* answered by a row whose parent is the reply.                            *)
(***************************************************************************)
Uncalled(r) ==
  {k \in DOMAIN message[reply[r]].calls :
     /\ message[reply[r]].calls[k] # "user_defined"
     /\ <<reply[r], k>> \notin Answered(r)}

NextCall(r) == CHOOSE k \in Uncalled(r) : \A j \in Uncalled(r) : k <= j

\* Wrong on purpose: the call is looked up in the newest message of the chain.
ResponseTo_Newest(r, k) ==
  [NewRow(r, "tool_call_result", reply[r], message[reply[r]].private)
     EXCEPT !.final = TRUE, !.answers = <<Newest(r), k>>]

ResponseTo(r, k) ==
  [NewRow(r, "tool_call_result", reply[r], message[reply[r]].private)
     EXCEPT !.final = TRUE, !.answers = <<reply[r], k>>, !.err = message[reply[r]].err]

CallTool(r) ==
  /\ pc[r] = "calling"
  /\ Uncalled(r) # {}
  /\ Add(r, ResponseTo(r, NextCall(r)))
  /\ Extend(r, NewId)
  /\ UNCHANGED <<completions, loaded, pc, req, parents, created, open, reply, heard,
                 step>>

-----------------------------------------------------------------------------
(***************************************************************************)
(* finalize_messages: the system message at the head of the chain, then    *)
(* the message of the request; nothing is committed when neither is open.  *)
(***************************************************************************)
Finalizing(r) == \/ pc[r] = "calling" /\ Uncalled(r) = {}
                 \/ pc[r] = "closing_pending"

AfterFinalize(r) == IF pc[r] = "calling" THEN "showing_turn" ELSE "ending"

OpenSystem(r) == /\ chain[r][1] \in open[r]
                 /\ message[chain[r][1]].role = "system"

FinalizeSystem(r) ==
  /\ Finalizing(r)
  /\ OpenSystem(r)
  /\ Update(r, chain[r][1], <<>>, FALSE)
  /\ open' = [open EXCEPT ![r] = @ \ {chain[r][1]}]
  /\ UNCHANGED <<completions, loaded, pc, req, parents, chain, created, reply, heard,
                 step>>

FinalizeCreated(r) ==
  /\ Finalizing(r)
  /\ ~OpenSystem(r)
  /\ created[r] \in open[r]
  /\ Update(r, created[r], <<>>, FALSE)
  /\ open' = [open EXCEPT ![r] = @ \ {created[r]}]
  /\ Goto(r, AfterFinalize(r))
  /\ UNCHANGED <<completions, loaded, req, parents, chain, created, reply, heard,
                 step>>

FinalizeNothing(r) ==
  /\ Finalizing(r)
  /\ ~OpenSystem(r)
  /\ created[r] \notin open[r]
  /\ Goto(r, AfterFinalize(r))
  /\ UNCHANGED <<storeVars, local>>

ExceedLimit(r) ==
  /\ pc[r] = "exceeded"
  /\ Goto(r, "ending")
  /\ UNCHANGED <<storeVars, local>>

\* The last item; then the response is over and the session is removed.
End(r) ==
  /\ pc[r] = "ending"
  /\ Leave(r, "done")

-----------------------------------------------------------------------------
(***************************************************************************)
(* The client goes away, a call the handler makes raises, or the server    *)
(* process dies: the session is rolled back where it stands.               *)
(***************************************************************************)
Abort(r) == /\ r \in Fragile
            /\ pc[r] \in Running
            /\ Leave(r, "failed")
          
(***************************************************************************)
(* The rows the next statement of a request locks, and the deadlock that   *)
(* PostgreSQL resolves by failing one of the requests in it.               *)
(***************************************************************************)
Wants(r) ==
  CASE pc[r] = "saving" -> {reply[r]} \cup errs[r]
    [] Finalizing(r) /\ OpenSystem(r) -> {chain[r][1]} \cup errs[r]
    [] Finalizing(r) /\ ~OpenSystem(r) /\ created[r] \in open[r]
         -> {created[r]} \cup errs[r]
    [] pc[r] \in Showing /\ Unrepaired(r) # {} ->
         LET i == RepairNext(r)
         IN  (StoredChildren(r, chain[r][i]) \ Successor(r, i)) \cup Relinked(r, i)
    [] OTHER -> {}

WaitsFor(r, q) == r # q /\ Wants(r) \cap Locked(q) # {}

\* r and others wait for each other in a circle.
InCircle(r) ==
  \E S \in SUBSET Requests :
    /\ r \in S
    /\ \A q \in S : (\E p \in S : WaitsFor(q, p)) /\ (\E p \in S : WaitsFor(p, q))

Deadlock(r) == InCircle(r) /\ Leave(r, "failed")

-----------------------------------------------------------------------------
Init ==
  /\ StoreInit
  /\ pc = [r \in Requests |-> "idle"]
  /\ req = [r \in Requests |-> NoRequest]
  /\ parents = [r \in Requests |-> <<>>]
  /\ chain = [r \in Requests |-> <<>>]
  /\ created = [r \in Requests |-> None]
  /\ open = [r \in Requests |-> {}]
  /\ reply = [r \in Requests |-> None]
  /\ heard = [r \in Requests |-> <<>>]
  /\ step = [r \in Requests |-> 0]

Setup(r) == \/ SetupSystemMessage(r) \/ ReadThread(r) \/ Climb(r)
            \/ CreateUser(r) \/ CreateToolResponse(r) \/ CreateFails(r)
            \/ CreateAssistant(r) \/ FinalizeAssistant(r)

Generator(r) == \/ Start(r) \/ AddReply(r) \/ StopLooping(r)
                \/ RepairChildren(r) \/ ShowPending(r) \/ ShowReply(r) \/ ShowTurn(r)
                \/ SaveReply(r) \/ CallTool(r)
                \/ FinalizeSystem(r) \/ FinalizeCreated(r) \/ FinalizeNothing(r)
                \/ ExceedLimit(r) \/ End(r)

\* What ends the wait for the model.
Inference(r) == StreamErrorChunk(r) \/ InferenceFails(r) \/ Respond(r)

Handler(r) == Setup(r) \/ Generator(r) \/ Inference(r)

Next == \E r \in Requests :
          Post(r) \/ Refuse(r) \/ Handler(r) \/ Abort(r) \/ Deadlock(r)

(***************************************************************************)
(* The server runs the handler of a request to its end: nothing but a row  *)
(* lock or the model makes it wait, the call of the model has a timeout,   *)
(* and PostgreSQL does not leave a deadlock standing.                      *)
(***************************************************************************)
Fairness == \A r \in Requests : WF_vars(Handler(r)) /\ WF_vars(Deadlock(r))

Spec == Init /\ [][Next]_vars /\ Fairness

-----------------------------------------------------------------------------
(***************************************************************************)
(* What is expected of the handlers.                                       *)
(***************************************************************************)

\* The variables have the types of their columns and of the session's objects.
TypeOK ==
  /\ StoreTypeOK
  /\ pc \in [Requests -> PC]
  /\ req \in [Requests -> Request]
  /\ parents \in [Requests -> Seq(MsgRef)]
  /\ chain \in [Requests -> Seq(MsgId)]
  /\ created \in [Requests -> MsgRef]
  /\ open \in [Requests -> SUBSET MsgId]
  /\ reply \in [Requests -> MsgRef]
  /\ heard \in [Requests -> Seq(Source)]
  /\ step \in [Requests -> Nat]

\* A thread is a forest of older-to-newer links under one root: a parent is an
\* older row of the same thread, and the root is its own root.  Concurrent
\* streams detach and relink rows of each other's branches; no order of that
\* may tie two threads together or close a cycle, which Climb would never leave.
ThreadIntegrity ==
  \A id \in Ids :
    LET row == message[id] IN
      /\ row.root \in 1..id
      /\ message[row.root].root = row.root
      /\ message[row.root].parent = None
      /\ row.parent # None => /\ row.parent \in 1..(id - 1)
                              /\ message[row.parent].root = row.root

\* "Visibility must be identical for all messages in a thread", and one caller
\* owns them all, whichever requests of whichever callers made them.
OneOwnerPerThread ==
  \A id \in Ids :
    LET root == message[message[id].root] IN
      /\ message[id].private = root.private
      /\ message[id].creator = root.creator

\* A tool response answers a call that an older assistant message of its
\* thread has made, also when the call is the client's to answer.
ResponsesAnswerCalls ==
  \A id \in Ids :
    message[id].role = "tool_call_result" =>
      LET a == message[id].answers[1] IN
        /\ a \in 1..(id - 1)
        /\ message[a].root = message[id].root
        /\ message[id].answers[2] \in DOMAIN message[a].calls

\* A message and its parent have different roles, tool responses excepted: the
\* validator states it of requests, the generator must keep it for the rows it
\* adds and relinks itself.
RolesAlternate ==
  \A id \in Ids :
    LET p == message[id].parent IN
      p # None => \/ message[p].role = "tool_call_result"
                  \/ message[p].role # message[id].role

\* A completion that a row refers to is committed, although it was committed
\* on another connection and before the row.
CompletionsExist == \A id \in Ids : message[id].completion => id \in completions

\* When the last item of a stream goes out, what it showed is stored: the
\* message of the request is final unless max_steps let no turn begin, so is the
\* system message of the thread once a turn was made (the list of threads leaves
\* out roots that are not final), and every reply without an error is final and,
\* for a caller who has logged in, has its completion.
StreamIsDurable ==
  \A r \in Requests :
    pc[r] = "ending" =>
      /\ message[created[r]].final \/ (reply[r] = None /\ req[r].limit <= 0)
      /\ message[chain[r][1]].role = "system" /\ reply[r] # None
           => message[chain[r][1]].final
      /\ \A i \in DOMAIN chain[r] :
           LET m == chain[r][i] IN
             m >= created[r] /\ message[m].role = "assistant" /\ m \notin errs[r]
             /\ ~message[m].err =>
               /\ message[m].final
               /\ message[m].completion <=> req[r].client \notin Anonymous

\* A reply is not produced while a tool call of the last assistant message of
\* the chain is unanswered ("if we have pending tool calls we should not get an
\* assistant message").
NoReplyOverPendingCalls ==
  [][\A r \in Requests :
       pc[r] = "looping" /\ pc'[r] = "showing_reply" => ~HasPendingToolCalls(r)]_vars

\* "If an error_chunk is encountered during streaming, persist it on the full
\* assistant message": nothing is left in the session for the teardown to lose.
ErrorIsPersisted == \A r \in Requests : pc[r] = "ending" => errs[r] = {}

\* A request posted under the newest message of a thread whose calls have all
\* been answered is not held back as if calls were pending ("if we haven't
\* answered them all return true").
AnsweredCallsUnblock ==
  \A r \in Requests :
    /\ pc[r] = "showing_pending"
    /\ \A id \in Ids : message[id].root = message[created[r]].root /\ id < created[r]
                       => id <= req[r].parent
    => LET a == LastAssistant(r) IN
         \E k \in DOMAIN message[a].calls :
           \A id \in Ids : message[id].answers # <<a, k>>

\* "Assistant messages must have a parent", "Tool response must have parent".
RepliesHaveParents ==
  \A id \in Ids :
    message[id].role \in {"assistant", "tool_call_result"} => message[id].parent # None

\* Every request that is posted comes to its end, whatever rows other streams
\* hold locked while they wait for the model.
EveryRequestEnds ==
  \A r \in Requests : pc[r] = "posted" ~> pc[r] \in {"refused", "failed", "done"}

-----------------------------------------------------------------------------
(***************************************************************************)
(* The items of a stream, as a client sees them.                           *)
(***************************************************************************)
Phase(r) ==
  CASE pc[r] \in {"idle", "posted", "climbing", "chained", "made", "opening"} -> "idle"
    [] pc[r] \in {"showing_pending", "closing_pending", "ending"} -> "closing"
    [] pc[r] = "looping" -> IF reply[r] = None THEN "open" ELSE "between"
    [] pc[r] \in {"showing_reply", "inferring", "saving", "calling", "showing_turn"} -> "turn"
    [] pc[r] = "exceeded" -> "limit"
    [] pc[r] \in {"refused", "failed", "done"} -> "closed"

\* max_steps, while turns can begin.
Budget(r) == IF Phase(r) \in {"open", "turn", "between"} THEN req[r].limit ELSE 0

\* The turns that have begun: step_count goes up at the end of one.
Turns(r) == IF Phase(r) = "turn" THEN step[r] + 1
            ELSE IF Phase(r) = "between" THEN step[r] ELSE 0

Unanswered(r) == {k \in DOMAIN message[reply[r]].calls :
                    <<reply[r], k>> \notin Answered(r)}

Asked(r) == IF Phase(r) \in {"turn", "between"} /\ reply[r] \in Ids
            THEN Cardinality(Unanswered(r)) ELSE 0

Protocol == INSTANCE StreamProtocol WITH
  phase  <- [r \in Requests |-> Phase(r)],
  budget <- [r \in Requests |-> Budget(r)],
  turns  <- [r \in Requests |-> Turns(r)],
  asked  <- [r \in Requests |-> Asked(r)]

\* The generator yields what StreamProtocol promises.
StreamsFollowProtocol == Protocol!Spec
=============================================================================
