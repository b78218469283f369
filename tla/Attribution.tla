----------------------------- MODULE Attribution -----------------------------
(***************************************************************************)
(* Which documents of the training data hold the text of a reply.  An      *)
(* index of that data is asked over the network for spans of the reply and *)
(* the documents they are found in; documents that must not be shown are   *)
(* left out, spans that overlap become one with the others nested in it,   *)
(* and spans and documents are told which of the others they go with.      *)
(*                                                                         *)
(* Positions are tokens of the reply.  A document is its number in the     *)
(* index.  Relevance, which orders the documents, is left out.             *)
(***************************************************************************)
EXTENDS Naturals, Sequences, FiniteSets, SequencesExt, FiniteSetsExt

CONSTANTS
  Documents,      \* documents of the index
  Blocked,        \* those that the index asks not to show
  Personal,       \* those whose text holds an address or a number of a person
  Found,          \* sets of documents that hold a span
  Tokens,         \* tokens of a reply
  MaxSpans        \* spans the index finds at most

ASSUME AttributionAssumption ==
  Blocked \subseteq Documents /\ Personal \subseteq Documents /\ Tokens \in Nat /\ MaxSpans \in Nat

VARIABLES
  inquiry,     \* the prompt's and the model's part in whether the index is asked
  received,    \* the spans the index found
  ranked,      \* spans that are left, by position and then by length
  current,     \* the next of them to look at
  nested,      \* those that are nested already
  flattened,   \* top level spans, in the order in which they were built
  mapped,      \* how many of them the response holds so far
  shown,       \* for each document of the response the spans it goes with
  listed,      \* for each span of the response the documents it goes with
  reply        \* the status of the answer, or zero

attributionVars == <<inquiry, received, ranked, current, nested, flattened, mapped, shown, listed, reply>>

Span(left, right, documents) == [left |-> left, right |-> right, documents |-> documents]

\* The index finds at most one span at a place.
Places == {place \in (0..Tokens) \X (0..Tokens) : place[1] < place[2]}
SomePlaces == UNION {kSubset(k, Places) : k \in 0..MaxSpans}

-----------------------------------------------------------------------------
End(code) == reply' = code /\ UNCHANGED <<received, ranked, current, nested, flattened, mapped, shown, listed>>

\* should_block_prompt, and the endpoint's look for the model and its index.
Refused(i) ==
  CASE i.prompt = "blocked" -> 400
    [] i.model = "missing"  -> 404
    [] i.model = "without"  -> 400
    [] OTHER -> 0

\* What the index answers: _parse_response knows three statuses and raises
\* UnexpectedStatus for the others; the answer it builds may be an error.
Failures ==
  {[status |-> 503, type |-> "server-overloaded"], [status |-> 503, type |-> "other"],
   [status |-> 422, type |-> "request-validation-failed"], [status |-> 404, type |-> "other"],
   [status |-> 200, type |-> "no tokens"]}

\* An answer that lacks a field, or none at all, is an error nobody expects.
AnswerOfFailure(failure) ==
  CASE failure.status = 503 -> IF failure.type = "server-overloaded" THEN 503 ELSE 500
    [] failure.status = 422 -> 500
    [] OTHER -> 502

Unanswered == 500

\* The index is asked once, without a retry, and what goes wrong with the
\* request or its answer is passed on.
Refusals == {AnswerOfFailure(failure) : failure \in Failures} \cup {Unanswered}

Inquire ==
  /\ reply = 0 /\ received = <<>>
  /\ UNCHANGED inquiry
  /\ IF Refused(inquiry) # 0 THEN End(Refused(inquiry))
     ELSE \/ \E code \in Refusals : End(code)
          \/ /\ \E chosen \in SomePlaces : \E found \in [chosen -> Found] :
                  received' = <<{Span(place[1], place[2], found[place]) : place \in chosen}>>
             /\ UNCHANGED <<ranked, current, nested, flattened, mapped, shown, listed, reply>>

\* does_contain_pii, and filter_document
IsPersonal(d) == d \in Personal
IsShown(d) == d \notin Blocked /\ ~IsPersonal(d)

\* filter_span_documents: spans without documents are left out.
Filtered(spans) ==
  {span \in {[s EXCEPT !.documents = {d \in @ : IsShown(d)}] : s \in spans} : span.documents # {}}

\* By left position, and the shorter first.
Before(a, b) == a.left < b.left \/ (a.left = b.left /\ a.right - a.left <= b.right - b.left)

Filter ==
  /\ reply = 0 /\ received # <<>> /\ current = 0
  /\ ranked' \in {spans \in SetToSeqs(Filtered(received[1])) :
                   \A i, j \in DOMAIN spans : i < j => Before(spans[i], spans[j])}
  /\ current' = 1
  /\ UNCHANGED <<inquiry, received, nested, flattened, mapped, shown, listed, reply>>

-----------------------------------------------------------------------------
Overlaps(top, span) ==
  (top.left <= span.left /\ span.left < top.right) \/ (top.left <= span.right /\ span.right < top.right)

\* Wrong on purpose: what is nested is compared with the first span only.
TopLevel_NotGrowing(i) ==
  LET members == {i} \cup {j \in i + 1..Len(ranked) : j \notin nested /\ Overlaps(ranked[i], ranked[j])}
  IN [left |-> ranked[i].left, right |-> Max({ranked[j].right : j \in members}), members |-> members]

\* A top level span takes a later span in that overlaps it, and grows with it.
TakeIn(top, j) ==
  IF j \notin nested /\ Overlaps(top, ranked[j])
  THEN [left |-> IF ranked[j].left < top.left THEN ranked[j].left ELSE top.left,
        right |-> IF ranked[j].right > top.right THEN ranked[j].right ELSE top.right,
        members |-> top.members \cup {j}]
  ELSE top

TopLevel(i) ==
  LET grown[j \in i..Len(ranked)] ==
        IF j = i THEN [left |-> ranked[i].left, right |-> ranked[i].right, members |-> {i}]
        ELSE TakeIn(grown[j - 1], j)
  IN grown[Len(ranked)]

\* One round of flatten_spans.
Flatten ==
  /\ reply = 0 /\ current \in DOMAIN ranked
  /\ current' = current + 1
  /\ IF current \in nested THEN UNCHANGED <<nested, flattened>>
     ELSE LET top == TopLevel(current)
          IN nested' = nested \cup (top.members \ {current}) /\ flattened' = Append(flattened, top)
  /\ UNCHANGED <<inquiry, received, ranked, mapped, shown, listed, reply>>

\* The documents of a top level span are those of the spans nested in it.
DocumentsOf(top) == UNION {ranked[j].documents : j \in top.members}

\* The spans a document goes with: from_flattened_span_document, and
\* update_mapped_document for one that is there already.
FromDocument(k) == {k}
UpdateMapped(spans, k) == spans \cup {k}

WithSpan(documents, new, k) ==
  [d \in DOMAIN documents \cup new |->
     IF d \notin DOMAIN documents THEN FromDocument(k)
     ELSE IF d \in new THEN UpdateMapped(documents[d], k) ELSE documents[d]]

\* One round of the loop over the flattened spans.
MapSpan ==
  /\ reply = 0 /\ current > Len(ranked) /\ current > 0 /\ mapped < Len(flattened)
  /\ mapped' = mapped + 1
  /\ LET documents == {d \in DocumentsOf(flattened[mapped + 1]) : ~IsPersonal(d)}
     IN /\ listed' = Append(listed, documents)
        /\ shown' = WithSpan(shown, documents, mapped + 1)
  /\ UNCHANGED <<inquiry, received, ranked, current, nested, flattened, reply>>

\* The spans of the response are sorted by where they start; a sort is stable.
Orders ==
  {order \in SetToSeqs(DOMAIN flattened) :
     \A k, l \in DOMAIN order : k < l =>
       LET first == flattened[order[k]].left
           second == flattened[order[l]].left
       IN first < second \/ (first = second /\ order[k] < order[l])}

Attribute ==
  /\ reply = 0 /\ current > Len(ranked) /\ current > 0 /\ mapped = Len(flattened)
  /\ reply' = 200
  /\ \E order \in Orders :
       /\ flattened' = [k \in DOMAIN flattened |-> flattened[order[k]]]
       /\ listed' = [k \in DOMAIN listed |-> listed[order[k]]]
  /\ UNCHANGED <<inquiry, received, ranked, current, nested, mapped, shown>>

AttributionInit ==
  /\ inquiry \in [prompt : {"fine", "blocked"}, model : {"indexed", "without", "missing"}]
  /\ received = <<>> /\ ranked = <<>> /\ current = 0 /\ nested = {} /\ flattened = <<>>
  /\ mapped = 0 /\ shown = <<>> /\ listed = <<>> /\ reply = 0

AttributionNext == Inquire \/ Filter \/ Flatten \/ MapSpan \/ Attribute

AttributionSpec == AttributionInit /\ [][AttributionNext]_attributionVars

-----------------------------------------------------------------------------
\* The response fits together: a document says that it goes with a span, by
\* the place of that span in the response, exactly if the span lists it; no
\* document is shown that must not be; the spans lie apart; and each span that
\* was found in a document that may be shown lies in one of them, which lists
\* that document.
SpansAndDocumentsAgree ==
  reply = 200 =>
    /\ \A k \in DOMAIN listed, d \in Documents :
         d \in listed[k] <=> d \in DOMAIN shown /\ k \in shown[d]
    /\ \A d \in DOMAIN shown : IsShown(d) /\ shown[d] \subseteq DOMAIN listed
    /\ \A k, l \in DOMAIN flattened : k < l => flattened[k].right <= flattened[l].left
    /\ \A s \in received[1], d \in Documents : d \in s.documents /\ IsShown(d) =>
         \E k \in DOMAIN flattened :
           flattened[k].left <= s.left /\ s.right <= flattened[k].right /\ d \in listed[k]
=============================================================================
