-------------------------- MODULE MCCreateMessage --------------------------
(***************************************************************************)
(* Finite instances of CreateMessage: what the clients post and what the   *)
(* model answers.  A request is used once, so Requests bounds a behaviour. *)
(***************************************************************************)
EXTENDS CreateMessage, TLC

CONSTANTS alice, guest   \* a caller who has logged in, an anonymous one

Posting(clients, roles, visibilities, limits, prompts) ==
  [client : clients, role : roles, private : visibilities, limit : limits,
   prompt : prompts]

\* Prompts, and assistant messages a client writes itself, on any branch.
Branching == Posting({alice}, {"user", "assistant"}, {FALSE}, {1}, {FALSE})

\* The same with a second caller, whose threads are private.
TwoCallers == Branching \cup Posting({guest}, {"user"}, {TRUE}, {1}, {FALSE})

\* Prompts and answers to calls.
Conversation == Posting({alice}, {"user", "tool_call_result"}, {FALSE}, {2}, {FALSE})

\* Prompts with every kind of max_steps, and what a client may post after them.
Anything == Posting({alice}, {"user"}, {FALSE}, {-1, 0, 1}, {TRUE, FALSE})
            \cup Posting({alice}, {"assistant", "tool_call_result"}, {FALSE}, {1}, {FALSE})

NoCalls  == {<<>>}
OneCall  == {<<>>, <<"internal">>, <<"user_defined">>}
Mixed    == {<<>>, <<"internal", "internal">>, <<"internal", "user_defined">>}
ForTheUser  == {<<"user_defined">>}
TwoAndOne == {<<"internal", "internal", "user_defined">>}

Symmetry == Permutations(Requests)
=============================================================================
