------------------------------ MODULE Inference ------------------------------
(***************************************************************************)
(* What passes between a stream of replies and the provider of its model:  *)
(* the chain of messages is mapped for the provider, the deltas it sends   *)
(* are collected into parts and mapped one by one into chunks for the      *)
(* client, and the parts become the stored reply, whose calls of server    *)
(* tools are answered before the provider is asked again.                  *)
(*                                                                         *)
(* A piece of content is the number of the delta that brought it; Gap is   *)
(* the empty line that joins parts.  The parts manager is of Pydantic AI.  *)
(***************************************************************************)
EXTENDS Naturals, Sequences, FiniteSets, SequencesExt

CONSTANTS
  ServerTools, UserTools,  \* tools defined in the message, by who runs them
  Undefined,               \* a name that is not a tool of the message
  NoName,                  \* a delta that names no tool
  FileKinds,               \* media types of files
  Pieces,                  \* deltas the provider sends in an exchange at most
  MaxSteps,                \* turns of a stream
  ThreadLength             \* messages of a thread that a request continues

ASSUME InferenceAssumption ==
  /\ Pieces \in Nat /\ MaxSteps \in Nat /\ ThreadLength \in Nat
  /\ ServerTools \cap UserTools = {} /\ Undefined \notin ServerTools \cup UserTools

VARIABLES
  host,        \* the backend of the model
  chain,       \* the messages of the thread, a reply in the making left out
  unread,      \* files of this request whose stream has not been read yet
  prompt,      \* the messages the provider was last asked with
  exchange,    \* where the exchange is
  turn,        \* turns begun
  sent,        \* deltas sent so far
  parts,       \* parts of the reply collected so far
  chunks,      \* chunks of the reply that went out to the client
  mixed        \* a delta continued a part after another of its kind had begun

inferenceVars == <<host, chain, unread, prompt, exchange, turn, sent, parts, chunks, mixed>>

\* The provider is told of the tools that are defined in the message.
Tools == ServerTools \cup UserTools

Gap == 0

\* Content without the lines that join it.
Seamless(pieces) == FlattenSeq([k \in DOMAIN pieces |-> IF pieces[k] = Gap THEN <<>> ELSE <<pieces[k]>>])

-----------------------------------------------------------------------------
(* Messages for the provider.                                              *)

User(files) == [role |-> "user", text |-> <<>>, thinking |-> <<>>, calls |-> <<>>, answers |-> 0, files |-> files]
Assistant(text, thinking, calls) ==
  [role |-> "assistant", text |-> text, thinking |-> thinking, calls |-> calls, answers |-> 0, files |-> <<>>]
ToolResponse(call) ==
  [role |-> "tool", text |-> <<>>, thinking |-> <<>>, calls |-> <<call>>, answers |-> call.id, files |-> <<>>]

\* A tool of a stored reply was called by its name and id.
Stored(id, name) == [id |-> id, name |-> name, args |-> <<>>]

\* Wrong on purpose: a reply that is not the last message has been answered.
HasPendingToolCalls_LastMessage(msgs) ==
  msgs[Len(msgs)].role = "assistant" /\ msgs[Len(msgs)].calls # <<>>

\* The calls of the last assistant message that no response of the chain answers.
HasPendingToolCalls(msgs) ==
  LET replies == {i \in DOMAIN msgs : msgs[i].role = "assistant"}
      answered == {msgs[i].answers : i \in {j \in DOMAIN msgs : msgs[j].role = "tool"}}
  IN replies # {} /\ \E call \in ToSet(msgs[CHOOSE i \in replies : \A j \in replies : j <= i].calls) :
                        call.id \notin answered

\* A file of this request goes as bytes, whatever is left in its stream; an
\* older one goes as an address, whose kind is guessed from its name.
MapFile(file) ==
  IF file.uploaded
  THEN [as |-> "bytes", kind |-> IF file.kind = "none" THEN "image" ELSE file.kind, whole |-> file \in unread]
  ELSE [as |-> "url", kind |-> IF file.kind = "none" THEN "image" ELSE file.kind, whole |-> TRUE]

IsMappable(file) == file.uploaded \/ file.kind # "other"

\* pydantic_map_messages: one model message for each message of the chain.
Mapped(msgs) == [i \in DOMAIN msgs |-> [msgs[i] EXCEPT !.files = [k \in DOMAIN @ |-> MapFile(@[k])]]]

\* How a chat completion names a file of that kind.
ContentPart(kind) ==
  CASE kind = "image" -> "image_url" [] kind = "video" -> "video_url"
    [] kind = "audio" -> "input_audio" [] kind = "application" -> "file" [] OTHER -> "text"

\* OpenAIChatModelVideo sends each file as the content part of its kind and
\* knows no other kinds; the queue sends the addresses in a list of their own.
IsSendable(file) == host = "queue" \/ file.kind # "other"

Sent(msg) ==
  [role |-> msg.role,
   text |-> Seamless(msg.text),
   files |-> [k \in DOMAIN msg.files |->
       [as |-> IF host = "queue" THEN "file_urls" ELSE ContentPart(msg.files[k].kind), whole |-> msg.files[k].whole]],
   calls |-> IF msg.role = "tool" THEN {} ELSE {msg.calls[k].id : k \in DOMAIN msg.calls},
   answers |-> msg.answers]

UploadedFiles(msgs) == {f \in UNION {ToSet(msgs[i].files) : i \in DOMAIN msgs} : f.uploaded}

Fail ==
  /\ exchange' = "failed"
  /\ UNCHANGED <<host, chain, turn, sent, parts, chunks, mixed>>

\* A turn begins with the chain as it is: every stream of this request's files
\* is read to its end.
Ask ==
  /\ exchange = "asking" /\ ~HasPendingToolCalls(chain) /\ turn < MaxSteps
  /\ turn' = turn + 1
  /\ parts' = <<>> /\ chunks' = <<>> /\ mixed' = FALSE
  /\ LET mapped == Mapped(chain)
         mappable == \A i \in DOMAIN chain : \A k \in DOMAIN chain[i].files : IsMappable(chain[i].files[k])
         sendable == \A i \in DOMAIN mapped : \A k \in DOMAIN mapped[i].files : IsSendable(mapped[i].files[k])
     IN /\ unread' = unread \ UploadedFiles(chain)
        /\ IF mappable /\ sendable
           THEN exchange' = "streaming" /\ prompt' = [i \in DOMAIN mapped |-> Sent(mapped[i])]
           ELSE exchange' = "failed" /\ UNCHANGED prompt
  /\ UNCHANGED <<host, chain, sent>>

\* Nothing is asked over pending calls, or once max_steps turns are used up.
StopAsking ==
  /\ exchange = "asking" /\ (HasPendingToolCalls(chain) \/ turn >= MaxSteps)
  /\ exchange' = "ended"
  /\ UNCHANGED <<host, chain, unread, prompt, turn, sent, parts, chunks, mixed>>

-----------------------------------------------------------------------------
(* Deltas of the provider, the parts they build, and the chunks they yield. *)

Part(kind, vendor, name, pieces) ==
  [kind |-> kind, vendor |-> vendor, tracked |-> TRUE, name |-> name, id |-> sent + 1, pieces |-> pieces]

\* The part a delta with this key of the vendor goes on with.
Open(vendor) == {k \in DOMAIN parts : parts[k].vendor = vendor /\ parts[k].tracked}

Chunk(kind, id, name, pieces) == [kind |-> kind, id |-> id, name |-> name, pieces |-> pieces]

Streams == exchange = "streaming" /\ sent < Pieces /\ sent' = sent + 1

Untrack(ks) == [k \in DOMAIN parts |-> [parts[k] EXCEPT !.tracked = @ /\ k \notin ks]]

\* A new part of text or thinking, or a piece for one that is there.
Collect(kind, vendor, pieces) ==
  /\ parts' = IF Open(vendor) = {}
              THEN Append(parts, Part(kind, vendor, <<>>, pieces))
              ELSE [k \in DOMAIN parts |->
                      IF k \in Open(vendor) THEN [parts[k] EXCEPT !.pieces = @ \o pieces] ELSE parts[k]]
  /\ chunks' = Append(chunks, Chunk(kind, 0, NoName, pieces))
  /\ mixed' = (mixed \/ \E k \in Open(vendor) : \E l \in k + 1..Len(parts) : parts[l].kind = kind)

Quiet == UNCHANGED <<host, chain, unread, prompt, exchange, turn>>

\* Content: it goes on with the part it belongs to, which is a thinking part
\* after a tag that opens one.
TextDelta ==
  /\ Streams /\ Quiet
  /\ Collect(IF \E k \in Open("content") : parts[k].kind = "thinking" THEN "thinking" ELSE "text",
             "content", <<sent + 1>>)

\* A tag that opens a thinking part; inside of one it is content.
ThinkTag ==
  /\ Streams /\ Quiet
  /\ IF \E k \in Open("content") : parts[k].kind = "thinking"
     THEN Collect("thinking", "content", <<sent + 1>>)
     ELSE /\ parts' = Append(Untrack(Open("content")), Part("thinking", "content", <<>>, <<>>))
          /\ chunks' = Append(chunks, Chunk("thinking", 0, NoName, <<>>))
          /\ UNCHANGED mixed

\* A tag that closes it yields nothing; elsewhere it is content.
EndThinkTag ==
  /\ Streams /\ Quiet
  /\ IF \E k \in Open("content") : parts[k].kind = "thinking"
     THEN parts' = Untrack(Open("content")) /\ UNCHANGED <<chunks, mixed>>
     ELSE Collect("text", "content", <<sent + 1>>)

\* Reasoning comes in a field of its own, one of two.
ReasoningDelta ==
  /\ Streams /\ Quiet
  /\ \E field \in {"reasoning_content", "reasoning"} : Collect("thinking", field, <<sent + 1>>)

\* find_tool_def_by_name
IsDefined(name) == name \in Tools

\* An unknown tool ends the reply with an error chunk: nothing of it is kept.
ErrorOut ==
  /\ chunks' = Append(chunks, Chunk("error", 0, NoName, <<>>))
  /\ exchange' = "errored" /\ parts' = <<>>
  /\ UNCHANGED mixed

\* A delta of a call, which calls are numbered in their order: the first that names the tool starts it for the client,
\* the others follow without its id.
ToolCallDelta ==
  /\ Streams
  /\ \E index \in {"first", "second"}, name \in Tools \cup {Undefined, NoName}, more \in BOOLEAN :
       /\ name = NoName => more
       /\ index = "second" => Open("first") # {}
       /\ LET ks == Open(index)
              old == CHOOSE k \in ks : TRUE
              given == IF name = NoName THEN <<>> ELSE <<name>>
              pieces == IF more THEN <<sent + 1>> ELSE <<>>
              part == IF ks = {} THEN Part("call", index, given, pieces)
                      ELSE [parts[old] EXCEPT !.name = @ \o given, !.pieces = @ \o pieces]
              begins == ks = {} \/ parts[old].name = <<>>
              collected == IF ks = {} THEN Append(parts, part) ELSE [parts EXCEPT ![old] = part]
          IN IF name # NoName /\ ~IsDefined(name) THEN ErrorOut
             ELSE /\ parts' = collected /\ UNCHANGED exchange
                  /\ IF part.name = <<>> THEN UNCHANGED <<chunks, mixed>>
                     ELSE IF begins
                     THEN chunks' = Append(chunks, Chunk("call", part.id, name, part.pieces)) /\ UNCHANGED mixed
                     ELSE /\ chunks' = Append(chunks, Chunk("args", 0, name, pieces))
                          /\ mixed' = (mixed \/ part.id # chunks[CHOOSE c \in DOMAIN chunks :
                                 chunks[c].kind = "call" /\ \A d \in DOMAIN chunks :
                                    chunks[d].kind = "call" => d <= c].id)
  /\ UNCHANGED <<host, chain, unread, prompt, turn>>

\* The provider refuses the request, or the connection breaks: an error for the
\* client, and the exception goes on.
ProviderFails == exchange = "streaming" /\ Fail /\ UNCHANGED <<unread, prompt>>

-----------------------------------------------------------------------------
(* The reply.                                                              *)

\* Wrong on purpose: the last text part is taken for the text.
Text_LastPart ==
  LET texts == SelectSeq(parts, LAMBDA part : part.kind = "text")
  IN IF texts = <<>> THEN <<>> ELSE texts[Len(texts)].pieces

\* ModelResponse.text and .thinking: neighbours are joined as they are, parts
\* with others between them by an empty line, and thoughts always are.
IsParted(k) ==
  /\ k > 1 /\ parts[k - 1].kind # "text"
  /\ \E j \in 1..k - 1 : parts[j].kind = "text" /\ parts[j].pieces # <<>>

Text ==
  FlattenSeq([k \in DOMAIN parts |->
     IF parts[k].kind # "text" THEN <<>>
     ELSE IF IsParted(k) THEN <<Gap>> \o parts[k].pieces ELSE parts[k].pieces])

Thinking ==
  FlattenSeq([k \in DOMAIN parts |->
     IF parts[k].kind # "thinking" THEN <<>>
     ELSE IF \E j \in 1..k - 1 : parts[j].kind = "thinking"
     THEN <<Gap>> \o parts[k].pieces ELSE parts[k].pieces])

\* Calls that were never named are not parts of the response.
IsNamed(part) == part.kind = "call" /\ part.name # <<>>
Call(part) == [id |-> part.id, name |-> part.name[1], args |-> part.pieces]
Calls == FlattenSeq([k \in DOMAIN parts |-> IF IsNamed(parts[k]) THEN <<Call(parts[k])>> ELSE <<>>])

\* map_response_to_final_output: a name that was sent twice is not a tool.
AreStorable == \A k \in DOMAIN parts : parts[k].kind = "call" => Len(parts[k].name) <= 1

\* _process_streamed_response: the chat model refuses a stream without any chunk,
\* the queue takes it for an empty reply.  A chunk need not bring content.
HasBegun(begun) == host = "queue" \/ begun

\* The end of the deltas.  Arguments that are not an object are refused.
Save ==
  /\ exchange = "streaming"
  /\ \E isObject, begun \in BOOLEAN :
       /\ ~isObject => \E k \in DOMAIN Calls : Calls[k].args # <<>>
       /\ parts # <<>> => begun
       /\ IF AreStorable /\ isObject /\ HasBegun(begun)
          THEN /\ chain' = Append(chain, Assistant(Text, Thinking, Calls)) /\ exchange' = "saved"
               /\ UNCHANGED <<host, unread, prompt, turn, sent, parts, chunks, mixed>>
          ELSE Fail /\ UNCHANGED <<unread, prompt>>

\* A tool that fails answers with its error.  A remote tool whose server is not
\* configured or not enabled does not answer: call_tool raises an error.
Raises(server) == {0} \cup DOMAIN server

Answers(server, raises) ==
  [k \in 1..IF raises = 0 THEN Len(server) ELSE raises - 1 |-> ToolResponse(server[k])]

\* The server tools answer in the order of their calls.  A call of the user's
\* tools leaves the next word to the user.
AnswerCalls ==
  /\ exchange = "saved"
  /\ LET calls == chain[Len(chain)].calls
         server == SelectSeq(calls, LAMBDA call : call.name \in ServerTools)
     IN \E raises \in Raises(server) :
          /\ chain' = chain \o Answers(server, raises)
          /\ exchange' = IF raises # 0 THEN "failed"
                         ELSE IF calls = <<>> \/ server # calls THEN "ended" ELSE "asking"
  /\ UNCHANGED <<host, unread, prompt, turn, sent, parts, chunks, mixed>>

\* The calls of a reply that is there when the request comes.
OldCalls ==
  <<Stored(Pieces + 1, CHOOSE t \in ServerTools : TRUE), Stored(Pieces + 2, CHOOSE t \in UserTools : TRUE)>>

IsOld(id) == id > Pieces

\* The messages of a thread with such a reply.  A reply without calls may be one
\* that the client has written.
OldMessages ==
  {User(<<>>), Assistant(<<>>, <<>>, <<>>), Assistant(<<>>, <<>>, OldCalls)}
    \cup {ToolResponse(OldCalls[k]) : k \in DOMAIN OldCalls}

\* What the handlers let a message follow: another role, or a response; and a
\* response names a call of the last reply before it, one that is answered
\* already or not.
MayFollow(msgs, msg) ==
  /\ msgs[Len(msgs)].role # "tool" => msg.role # msgs[Len(msgs)].role
  /\ msg.role = "tool" =>
       \E i \in DOMAIN msgs : /\ msgs[i].role = "assistant" /\ msg.calls[1] \in ToSet(msgs[i].calls)
                              /\ \A j \in i + 1..Len(msgs) : msgs[j].role # "assistant"

\* Threads a request continues: one that begins, with or without a file, and
\* any that goes on after a reply, which ends in what the request brings.
Threads ==
  {<<User(<<>>)>>}
    \cup {<<User(<<file>>)>> : file \in [kind : FileKinds, uploaded : BOOLEAN]}
    \cup {msgs \in UNION {[1..n -> OldMessages] : n \in 3..ThreadLength} :
            /\ msgs[1] = User(<<>>) /\ msgs[Len(msgs)].role # "assistant"
            /\ \A i \in 2..Len(msgs) : MayFollow(SubSeq(msgs, 1, i - 1), msgs[i])
            /\ \A i, j \in DOMAIN msgs : msgs[i].calls = OldCalls /\ msgs[j].calls = OldCalls => i = j}

InferenceInit ==
  /\ host \in {"openai", "queue"} /\ chain \in Threads
  /\ unread = UploadedFiles(chain)
  /\ prompt = <<>> /\ exchange = "asking" /\ turn = 0
  /\ sent \in {IF Len(chain) = 1 /\ chain[1].files = <<>> THEN 0 ELSE 2}
  /\ parts = <<>> /\ chunks = <<>> /\ mixed = FALSE

InferenceNext ==
  \/ Ask \/ StopAsking \/ TextDelta \/ ThinkTag \/ EndThinkTag \/ ReasoningDelta
  \/ ToolCallDelta \/ ProviderFails \/ Save \/ AnswerCalls

InferenceSpec == InferenceInit /\ [][InferenceNext]_inferenceVars

-----------------------------------------------------------------------------
\* What a client makes of the chunks of a reply: content in the order it came,
\* and arguments added to the call that was begun last.
Shown(kind) == FlattenSeq([c \in DOMAIN chunks |-> IF chunks[c].kind = kind THEN chunks[c].pieces ELSE <<>>])

ShownCall(c) ==
  [id |-> chunks[c].id, name |-> chunks[c].name,
   args |-> chunks[c].pieces \o FlattenSeq([d \in DOMAIN chunks |->
      IF chunks[d].kind = "args" /\ c < d /\ \A e \in c + 1..d : chunks[e].kind # "call"
      THEN chunks[d].pieces ELSE <<>>])]

ShownCalls == {ShownCall(c) : c \in {d \in DOMAIN chunks : chunks[d].kind = "call"}}

\* A reply that is stored is the one the client was shown: nothing was shown
\* that is not in it, nothing is in it that was not shown, and content and
\* arguments are in order, but for parts whose deltas were mixed: a chunk does
\* not say what it continues.
ClientSeesWhatIsStored ==
  exchange = "saved" => LET reply == chain[Len(chain)] IN
    /\ ToSet(Seamless(reply.text)) = ToSet(Shown("text"))
    /\ ToSet(Seamless(reply.thinking)) = ToSet(Shown("thinking"))
    /\ {[id |-> c.id, name |-> c.name] : c \in ToSet(reply.calls)}
         = {[id |-> c.id, name |-> c.name] : c \in ShownCalls}
    /\ ~mixed => /\ Seamless(reply.text) = Shown("text")
                 /\ Seamless(reply.thinking) = Shown("thinking")
                 /\ ToSet(reply.calls) = ShownCalls

\* The provider is asked with every message of the thread.  By then no call of
\* the last reply is open, whoever was to answer it and whatever was written in
\* between; an answer comes before the next reply; and a call that was made in
\* this exchange has been answered once.  An older call may go to the provider
\* without an answer if another reply, which the client can write, covers it
\* (has_pending_tool_calls looks no further than the last), or with two, as
\* nothing keeps a client from answering twice.
PromptsAreWhole ==
  exchange = "streaming" =>
    /\ Len(prompt) = Len(chain)
    /\ \A i \in DOMAIN prompt : Len(prompt[i].files) = Len(chain[i].files)
    /\ \A i \in DOMAIN prompt : \A id \in prompt[i].calls :
         LET answers == {j \in i + 1..Len(prompt) : prompt[j].answers = id}
             replies == {j \in i + 1..Len(prompt) : prompt[j].role = "assistant"}
         IN /\ answers = {} => IsOld(id) /\ replies # {}
            /\ \A j \in answers, k \in replies : j < k
            /\ ~IsOld(id) => \A j, k \in answers : j = k

\* The comment in upload_request_files (files.py:43): the next consumer of a
\* file can read it.
NextConsumerCanRead ==
  \A i \in DOMAIN prompt : \A k \in DOMAIN prompt[i].files : prompt[i].files[k].whole
=============================================================================
