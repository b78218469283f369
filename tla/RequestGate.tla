----------------------------- MODULE RequestGate -----------------------------
(***************************************************************************)
(* What happens to a request for a reply before anything is stored: who    *)
(* asks, is the request sound, which model, parent and root does it name,  *)
(* which options result, are its files within the rules of the model, and  *)
(* are its text, images and videos safe.  Each test may end the request    *)
(* with a status; what passes all of them is handed to create_new_message. *)
(*                                                                         *)
(* One request moves here: nothing it reads is written by another.  The    *)
(* three numeric options of inference are treated alike, so one stands for *)
(* them.  Texts are sets of categories a moderator finds in them.          *)
(***************************************************************************)
EXTENDS Naturals, Sequences, FiniteSets, SequencesExt

CONSTANTS
  MemberId, GuestId, NoId,   \* a subject of a token, an anonymous id, an empty id
  None,                      \* nothing was given
  MaxOption                  \* options are 0..MaxOption

ASSUME GateAssumption == MaxOption \in Nat \ {0} /\ None \notin Nat /\ Cardinality({MemberId, GuestId, NoId}) = 3

VARIABLES
  caller,     \* the headers of the request, and whether its token allows a bypass
  request,    \* its body
  above,      \* the message it names as its parent, with what matters of the root
  config,     \* the row of the model it names
  settings,   \* configuration of the service
  step,       \* the next test
  status,     \* the answer, or None
  options,    \* the options of inference, once they are merged
  verdict     \* what the safety checks said: of the text, of images and videos

gateVars == <<caller, request, above, config, settings, step, status, options, verdict>>

-----------------------------------------------------------------------------
(* Who asks.  Both services read the same headers.                         *)

\* A token is valid, stale when it expires between decoding and use, or invalid.
IsToken(authorization) == authorization \in {"valid", "stale"}

\* The Flask service: the anonymous id counts only if there is no Authorization
\* header, and then whatever it is.
FlaskClient(c) ==
  IF c.authorization = "absent" THEN c.anonymousId
  ELSE IF IsToken(c.authorization) THEN MemberId ELSE None

\* Wrong on purpose: the anonymous id comes first.
FastApiClient_AnonymousFirst(c) ==
  IF c.anonymousId \notin {None, NoId} THEN c.anonymousId
  ELSE IF IsToken(c.authorization) THEN MemberId ELSE None

\* The FastAPI service: the anonymous id counts when no token is valid, unless
\* it is empty.
FastApiClient(c) ==
  IF IsToken(c.authorization) THEN MemberId
  ELSE IF c.anonymousId = NoId THEN None ELSE c.anonymousId

\* authn and optional_auth: a token that has expired is refused.
Admitted(client, c) ==
  IF client = None \/ (client = MemberId /\ c.authorization = "stale") THEN None ELSE client

Client == FlaskClient(caller)
IsAnonymous == ~IsToken(caller.authorization)

\* Permissions are claims of a token: user_has_permission, and the
\* PermissionService of the FastAPI service.
MayBypass == ~IsAnonymous /\ caller.bypasser
FastApiPermits(client) == client = MemberId /\ caller.bypasser

-----------------------------------------------------------------------------
(* What is asked.                                                          *)

\* A conversation with an agent: the request that is made of it carries its
\* text and parent, and the model of the agent.  The bypass and the captcha
\* token are left behind.
OfAgent(r) ==
  [r EXCEPT !.role = "user", !.original = FALSE, !.private = FALSE, !.toolCallId = FALSE, !.points = 0,
            !.option = None, !.files = <<>>, !.captcha = "none", !.bypass = FALSE]

Asked == IF request.route = "agents" THEN OfAgent(request) ELSE request

HasParent == request.parent = "known" \/ request.parent = "rootless"

\* Validators of CreateMessageRequest; original says that its original and its
\* parent are given as the same message.
IsSoundMessage(r) ==
  /\ r.original => r.parent = "none"
  /\ r.role = "assistant" => r.parent # "none"
  /\ r.points <= 1
  /\ r.content # None \/ r.points > 0

\* Those of AgentChatRequest.
IsSoundChat(r) == r.content # None

\* captcha_token_required_if_captcha_enabled is a validator of both.
IsSound(r) ==
  /\ r.body = "object"
  /\ settings.requireRecaptcha => r.captcha # "none"
  /\ IF r.route = "agents" THEN IsSoundChat(r) ELSE IsSoundMessage(r)

\* get_agent_by_id, and get_model_by_id for the model asked for or the agent's.
IsAgent(r) == r.target # "unknown"
IsModel(r) == r.target = "known"

\* create_assessment: what the captcha service says of the token.
IsHuman(r) == r.captcha = "good"

\* Anonymous users do not share messages.
Private(r) == IsAnonymous \/ r.private

\* Validators of CreateMessageRequestWithFullMessages, those before the test of
\* the creator and those after it.
IsConsistent(r) ==
  /\ r.parent \notin {"unknown", "rootless"}
  /\ r.role = "assistant" => HasParent
  /\ HasParent => above.private = Private(r)

IsCreator == HasParent => above.creator = Client

IsNextInThread(r) ==
  /\ r.role = "tool_call_result" => HasParent /\ r.toolCallId
  /\ HasParent /\ above.role # "tool_call_result" => above.role # r.role

\* Wrong on purpose: the parent's option comes first.
Merged_ParentFirst(r) ==
  IF HasParent /\ above.option # None THEN above.option
  ELSE IF r.option # None THEN r.option ELSE config.default

\* merge_inference_options: the request's option, else the parent's, else the
\* model's.
Merged(r) ==
  IF r.option # None THEN r.option
  ELSE IF HasParent /\ above.option # None THEN above.option ELSE config.default

\* validate_inference_parameters_against_model_constraints
IsWithinLimits(option) == option = None \/ (config.lower <= option /\ option <= config.upper)

\* pydantic_settings_map: zero counts as nothing.
Setting(option) == IF option \in {None, 0} THEN config.default ELSE option

-----------------------------------------------------------------------------
(* Files.                                                                  *)

\* check_is_file_in_allowed_file_types: the type is found in the bytes.
IsAccepted(file) == config.accepted = {} \/ file.holds \in config.accepted

TotalSize(files) == FoldLeft(LAMBDA sum, file : sum + file.size, 0, files)

\* The rules apply to models of several modes only.
FilesFollowTheRules(files) ==
  config.kind # "text_only" =>
    /\ config.required = "all_messages" => files # <<>>
    /\ config.required = "first_message" /\ ~HasParent => files # <<>>
    /\ HasParent /\ files # <<>> => config.allowInFollowups
    /\ config.maxFiles # None => Len(files) <= config.maxFiles
    /\ config.maxSize # None => TotalSize(files) <= config.maxSize

\* The first file of a type the model does not accept, or zero.
FirstUnaccepted(files) ==
  IF config.kind = "text_only" THEN 0 ELSE SelectInSeq(files, LAMBDA file : ~IsAccepted(file))

\* Where the files are that a safety check looks at: it goes by the type the
\* client declares.
Declared(type) == {k \in DOMAIN Asked.files : Asked.files[k].declared = type}

\* GoogleModerateTextResponse.get_violations
Violations(text) == {found \in text : found.listed /\ found.confident /\ found.severe}

\* GoogleModerateText.check_request
TextVerdict(text) == IF text # None /\ Violations(text) # {} THEN "unsafe" ELSE "safe"

\* Wrong on purpose: one of the categories is forgotten.
ImageViolations_NotRacy(file) ==
  {category \in DOMAIN file.likelihood \ {"racy"} : file.likelihood[category] = "VERY_LIKELY"}

\* GoogleVisionSafeSearchResponse.get_violation_categories
ImageViolations(file) == {category \in DOMAIN file.likelihood : file.likelihood[category] = "VERY_LIKELY"}

\* GoogleVisionSafeSearch.check_request: what is no image is refused.
IsLookedAt(file) == file.holds = "image"

-----------------------------------------------------------------------------
(* The tests, in their order.                                              *)

At(name) == step = name /\ status = None

Answer(code) ==
  /\ status' = code /\ step' = "answered"
  /\ UNCHANGED <<caller, request, above, config, settings>>

Go(name) ==
  /\ step' = name
  /\ UNCHANGED <<caller, request, above, config, settings, status>>

\* Goes on if test holds, and else answers with code.
Demand(test, code, next) == IF test THEN Go(next) ELSE Answer(code)

\* anonymous_auth_protector comes before the body is looked at.
Protect ==
  /\ At("protect") /\ Demand(Client # None, 401, "parse")
  /\ UNCHANGED <<options, verdict>>

\* The body becomes a request, or a ValidationError that error.handle answers.
Parse ==
  /\ At("parse") /\ Demand(IsSound(request), 400, "lookUp")
  /\ UNCHANGED <<options, verdict>>

\* get_agent_by_id comes before authn, get_model_by_id after it.
LookUp ==
  /\ At("lookUp")
  /\ IF request.route = "agents" /\ ~IsAgent(request) THEN Answer(400)
     ELSE IF Admitted(Client, caller) = None THEN Answer(401)
     ELSE Demand(IsModel(request), 400, "merge")
  /\ UNCHANGED <<options, verdict>>

\* Parent and root are read, options merged, and the whole is validated.
Merge ==
  /\ At("merge")
  /\ options' = Merged(Asked)
  /\ IF ~IsConsistent(Asked) THEN Answer(400)
     ELSE IF ~IsCreator THEN Answer(403)
     ELSE Demand(IsNextInThread(Asked), 400, "model")
  /\ UNCHANGED verdict

CheckModel ==
  /\ At("model")
  /\ Demand(config.kind = "files_only" => settings.filesOnlyInThread, 400, "files")
  /\ UNCHANGED <<options, verdict>>

\* validate_message_files_from_config.  Bytes of no known type are an error of
\* the library that looks at them, and no rule.
CheckFiles ==
  /\ At("files")
  /\ LET first == FirstUnaccepted(Asked.files) IN
       IF FilesFollowTheRules(Asked.files) /\ first # 0 /\ Asked.files[first].holds = "unknown"
       THEN Answer(500)
       ELSE Demand(FilesFollowTheRules(Asked.files) /\ first = 0, 400, "parameters")
  /\ UNCHANGED <<options, verdict>>

CheckParameters ==
  /\ At("parameters") /\ Demand(IsWithinLimits(options), 400, "captcha")
  /\ UNCHANGED <<options, verdict>>

\* A token is assessed whoever sends it; the assessment counts for anonymous
\* users only.  An error of the service is an error of the request.
CheckCaptcha ==
  /\ At("captcha")
  /\ IF ~settings.recaptchaKey \/ Asked.captcha = "none" THEN Go("permission")
     ELSE \/ Answer(500)
          \/ Demand(IsAnonymous /\ settings.enableRecaptcha => IsHuman(Asked), 400, "permission")
  /\ UNCHANGED <<options, verdict>>

\* Who may bypass the checks is not checked any further.
CheckPermission ==
  /\ At("permission")
  /\ IF ~Asked.bypass THEN Go("text") ELSE Answer(IF MayBypass THEN 200 ELSE 403)
  /\ UNCHANGED <<options, verdict>>

\* check_message_safety: an error says nothing.  The input points are not part
\* of the text.
CheckText ==
  /\ At("text") /\ Go("kinds")
  /\ \E text \in {"unknown", TextVerdict(Asked.content)} :
       verdict' = [verdict EXCEPT !.text = text]
  /\ UNCHANGED options

CheckKinds ==
  /\ At("kinds")
  /\ Demand(\A i \in DOMAIN Asked.files : Asked.files[i].declared \in {"image", "video"}, 400, "videos")
  /\ UNCHANGED <<options, verdict>>

\* check_video_safety: one after another, an error is as bad as a bad video.
\* What is found in a video is known here only when the check blocks.
CheckVideos ==
  /\ At("videos") /\ Go("images")
  /\ \E broken \in SUBSET Declared("video") :
       verdict' = [verdict EXCEPT !.videos = \A k \in Declared("video") :
         k \notin broken /\ (settings.blockingVideoCheck => ~Asked.files[k].harmful)]
  /\ UNCHANGED options

\* check_image_safety: one after another up to the first that is unsafe, and up
\* to the first error, after which no image is looked at.
CheckImages ==
  /\ At("images") /\ Go("conclude")
  /\ LET unsafe == {k \in Declared("image") : ImageViolations(Asked.files[k]) # {}} IN
       \E seen \in {0} \cup Declared("image") :
         /\ \A k \in Declared("image") : k <= seen => IsLookedAt(Asked.files[k])
         /\ verdict' = [verdict EXCEPT
              !.seen = seen,
              !.images = IF \E k \in unsafe : k <= seen THEN "unsafe"
                         ELSE IF \E k \in Declared("image") : k > seen THEN "unknown" ELSE "safe"]
  /\ UNCHANGED options

Conclude ==
  /\ At("conclude")
  /\ Answer(IF verdict.text = "unsafe" \/ verdict.images = "unsafe" \/ ~verdict.videos THEN 400 ELSE 200)
  /\ UNCHANGED <<options, verdict>>

GateNext ==
  \/ Protect \/ Parse \/ LookUp \/ Merge \/ CheckModel \/ CheckFiles \/ CheckParameters \/ CheckCaptcha
  \/ CheckPermission \/ CheckText \/ CheckKinds \/ CheckVideos \/ CheckImages \/ Conclude

-----------------------------------------------------------------------------
(* The requests: a plain one, and what differs from it in one respect.     *)

Harmless == {[listed |-> FALSE, confident |-> TRUE, severe |-> TRUE], [listed |-> TRUE, confident |-> FALSE, severe |-> TRUE],
             [listed |-> TRUE, confident |-> TRUE, severe |-> FALSE]}
Harmful == Harmless \cup {[listed |-> TRUE, confident |-> TRUE, severe |-> TRUE]}

File(declared, holds, harmful) ==
  [declared |-> declared, holds |-> holds, harmful |-> harmful, size |-> 1,
   likelihood |-> [category \in {"adult", "racy", "violence"} |->
                     IF harmful /\ category = "racy" THEN "VERY_LIKELY" ELSE "LIKELY"]]

Files == {File(declared, declared, harmful) : declared \in {"image", "video"}, harmful \in BOOLEAN}
         \cup {File("image", "video", TRUE), File("image", "unknown", FALSE), File("other", "other", FALSE)}

Plain ==
  [route |-> "threads", body |-> "object", target |-> "known", parent |-> "none", original |-> FALSE, role |-> "user",
   content |-> {}, points |-> 0, private |-> FALSE, toolCallId |-> FALSE, option |-> None, captcha |-> "none",
   bypass |-> FALSE, files |-> <<>>]

PlainModel ==
  [kind |-> "multi_modal", lower |-> 0, upper |-> MaxOption, default |-> 1, accepted |-> {}, maxFiles |-> None,
   maxSize |-> None, required |-> "no_requirement", allowInFollowups |-> TRUE]

PlainSettings ==
  [requireRecaptcha |-> FALSE, enableRecaptcha |-> TRUE, recaptchaKey |-> TRUE, filesOnlyInThread |-> FALSE,
   blockingVideoCheck |-> TRUE]

Parents ==
  [creator : {MemberId, GuestId}, private : BOOLEAN, role : {"user", "assistant", "tool_call_result"},
   option : {None} \cup 0..MaxOption]

SomeParent == [creator |-> MemberId, private |-> FALSE, role |-> "assistant", option |-> None]

Signed == [authorization |-> "valid", anonymousId |-> None, bypasser |-> FALSE]
Anonymous == [Signed EXCEPT !.authorization = "absent", !.anonymousId = GuestId]

\* Any caller, who may ask for a bypass.
AnyCaller ==
  /\ caller \in [authorization : {"absent", "valid", "stale", "invalid"}, anonymousId : {None, NoId, GuestId},
                 bypasser : BOOLEAN]
  /\ \E route \in {"threads", "agents"}, target \in {"known", "unknown", "modelless"}, bypass \in BOOLEAN :
       request = [Plain EXCEPT !.route = route, !.target = target, !.bypass = bypass]
  /\ above = SomeParent /\ config = PlainModel /\ settings = PlainSettings

\* Any place in a thread.
AnyPlace ==
  /\ caller \in {Signed, Anonymous}
  /\ \E route \in {"threads", "agents"}, parent \in {"none", "unknown", "rootless", "known"},
        role \in {"user", "assistant", "system", "tool_call_result"}, private \in BOOLEAN, original \in BOOLEAN,
        toolCallId \in BOOLEAN :
       request = [Plain EXCEPT !.route = route, !.parent = parent, !.role = role, !.private = private,
                               !.original = original, !.toolCallId = toolCallId]
  /\ above \in Parents /\ above.option = None /\ (above.creator = GuestId => above.private)
  /\ config = PlainModel /\ settings = PlainSettings

\* Any options, with a model of any limits and any default: neither service sees
\* to it that the one lies within the others (see DefaultsFitTheirLimits).
AnyOptions ==
  /\ caller = Signed
  /\ \E parent \in {"none", "known"}, option \in {None} \cup 0..MaxOption :
       request = [Plain EXCEPT !.parent = parent, !.option = option]
  /\ \E option \in {None} \cup 0..MaxOption : above = [SomeParent EXCEPT !.option = option]
  /\ \E kind \in {"text_only", "files_only"}, default \in 0..MaxOption, lower \in 0..1, upper \in 1..MaxOption :
       config = [PlainModel EXCEPT !.kind = kind, !.default = default, !.lower = lower, !.upper = upper]
  /\ \E flag \in BOOLEAN : settings = [PlainSettings EXCEPT !.filesOnlyInThread = flag]

\* Any content and captcha token.
AnyContent ==
  /\ caller \in {Signed, Anonymous}
  /\ \E route \in {"threads", "agents"}, body \in {"object", "other"}, content \in {None, {}, Harmless, Harmful},
        points \in 0..2, captcha \in {"none", "invalid", "good"} :
       request = [Plain EXCEPT !.route = route, !.body = body, !.content = content, !.points = points,
                               !.captcha = captcha]
  /\ above = SomeParent /\ config = PlainModel
  /\ settings \in [requireRecaptcha : BOOLEAN, enableRecaptcha : BOOLEAN, recaptchaKey : BOOLEAN,
                   filesOnlyInThread : {FALSE}, blockingVideoCheck : {TRUE}]

\* Any files, with a model of any rules.
AnyFiles ==
  /\ caller = Signed
  /\ \E parent \in {"none", "known"}, files \in BoundedSeq(Files, 2) :
       request = [Plain EXCEPT !.parent = parent, !.files = files]
  /\ above = SomeParent
  /\ \E accepted \in {{}, {"image"}}, most \in {None, 1},
        required \in {"no_requirement", "first_message", "all_messages"}, allowed \in BOOLEAN :
       config = [PlainModel EXCEPT !.accepted = accepted, !.maxFiles = most, !.maxSize = most, !.required = required,
                                   !.allowInFollowups = allowed]
  /\ \E flag \in BOOLEAN : settings = [PlainSettings EXCEPT !.blockingVideoCheck = flag]

GateInit ==
  /\ step = "protect" /\ status = None /\ options = None
  /\ verdict = [text |-> "safe", images |-> "safe", seen |-> 0, videos |-> TRUE]
  /\ AnyCaller \/ AnyPlace \/ AnyOptions \/ AnyContent \/ AnyFiles

GateSpec == GateInit /\ [][GateNext]_gateVars

-----------------------------------------------------------------------------
Passed == status = 200

\* A request that passes the checks has nothing harmful in it that they could
\* have seen: unless its caller was allowed to bypass them, harmful text passes
\* only if the moderator failed, a harmful image only if the check of it or of
\* one before it failed, and a harmful video only if the check does not block.
WhatPassesWasLookedAt ==
  Passed /\ ~(Asked.bypass /\ MayBypass) =>
    /\ ~Asked.bypass
    /\ Asked.content # None /\ Violations(Asked.content) # {} => verdict.text = "unknown"
    /\ \A k \in Declared("image") : Asked.files[k].harmful => k > verdict.seen
    /\ settings.blockingVideoCheck => \A k \in Declared("video") : ~Asked.files[k].harmful

\* Whatever the model of the thread was before, and whatever its row holds, a
\* reply is made with options within the limits of the model that makes it, and
\* they are the ones of the request, or of its parent if it gives none: a default
\* beyond the limits refuses every request that leaves the option open.  Nothing
\* is claimed for an option of zero.  It passes the test of the limits as zero
\* and is sent as the model's default (map_settings.py:19-21), which nobody has
\* compared with them then, and which is not what merge_inference_options.py:14-23
\* says of a request's option.
OptionsFitTheModel ==
  Passed => LET given == IF Asked.option # None THEN Asked.option
                         ELSE IF HasParent THEN above.option ELSE None
            IN /\ given # 0 => config.lower <= Setting(options) /\ Setting(options) <= config.upper
               /\ given \notin {None, 0} => Setting(options) = given

\* Whoever both services let in is the same client to both, and may do the
\* same.
CallersAgree ==
  LET flask == Admitted(FlaskClient(caller), caller)
      fastApi == Admitted(FastApiClient(caller), caller)
  IN flask # None /\ fastApi # None => flask = fastApi /\ (MayBypass <=> FastApiPermits(fastApi))
=============================================================================
