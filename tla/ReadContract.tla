---------------------------- MODULE ReadContract ----------------------------
(***************************************************************************)
(* What config << text promises its client: hooks in their order, between   *)
(* them one step that adds the items of the text to what the root group     *)
(* holds, and an answer that says how far it got.                           *)
(***************************************************************************)
EXTENDS Trees

CONSTANTS
    Viable(_),           \* a sequence of tokens begins some document
    IsDocument(_),       \* it is one
    Expect(_, _, _),     \* the trees once it has been added to some, under a policy
    Refuses(_, _, _, _)  \* Add refuses, with an exception, what its last token completes

VARIABLES
    policy,     \* the policy of the Config
    before,     \* the hooks to call before the text is read
    after,      \* those to call once it has been
    onFailure,  \* the hook that decides on an error
    contents,   \* the trees in the root group
    stage,      \* "idle" outside of a read
    given,      \* the tokens of the text, as far as they have been looked at
    calls,      \* the hooks called
    ret         \* the answer

client == <<policy, before, after, onFailure>>
vars   == <<client, contents, stage, given, calls, ret>>

Init ==
    /\ policy = "ThrowException" /\ before = <<>> /\ after = <<>> /\ onFailure = "null"
    /\ contents = <<>> /\ stage = "idle" /\ given = <<>> /\ calls = <<>> /\ ret = "none"

\* The client sets a policy or a hook.
Client == stage = "idle" /\ UNCHANGED <<contents, stage, given, calls, ret>>

Begin ==
    /\ stage = "idle" /\ stage' = "before"
    /\ given' = <<>> /\ calls' = <<>> /\ ret' = "none"
    /\ UNCHANGED <<client, contents>>

\* The calls of the hooks that are not empty pointers.
Calls(when, hooks) ==
    LET there == InOrder({k \in DOMAIN hooks : hooks[k] = "hook"}, Len(hooks))
    IN  [i \in DOMAIN there |-> <<when, there[i]>>]

\* All the calls there are to be by the end of a stage.
Due == Calls("before", before) \o IF stage = "after" THEN Calls("after", after) ELSE <<>>

\* A hook does to the contents what it likes, and may end the read.
CallHook ==
    /\ stage \in {"before", "after"} /\ Len(calls) < Len(Due)
    /\ calls' = Append(calls, Due[Len(calls) + 1])
    /\ \/ UNCHANGED <<stage, ret>>
       \/ stage' = "idle" /\ ret' \in {"HookException"} \cup AddErrors
    /\ UNCHANGED <<client, given>>

\* The items of a document are all added; of anything else those before the
\* first token that no document goes on with, or that completes an item which
\* Add refuses.
ReadText ==
    /\ stage = "before" /\ calls = Due
    /\ given' # <<>> /\ Viable(Front(given'))
    /\ \/ /\ IsDocument(given') /\ stage' = "after"
          /\ contents' = Expect(given', contents, policy)
          /\ UNCHANGED ret
       \/ /\ ~Viable(given') /\ stage' = "failed"
          /\ contents' = Expect(Front(given'), contents, policy)
          /\ UNCHANGED ret
       \/ /\ Viable(given') /\ stage' = "idle" /\ ret' \in AddErrors
          /\ Refuses(given', contents, policy, ret')
          /\ contents' = Expect(Front(given'), contents, policy)
    /\ UNCHANGED <<client, calls>>

\* The failure hook may swallow an error; no other answer hides one.
Answer ==
    /\ stage' = "idle"
    /\ \/ stage = "after" /\ calls = Due /\ ret' = "done" /\ UNCHANGED calls
       \/ stage = "failed" /\ onFailure = "null" /\ ret' = "ParseError" /\ UNCHANGED calls
       \/ /\ stage = "failed" /\ onFailure = "hook"
          /\ calls' = Append(calls, <<"failure", 1>>)
          /\ ret' \in {"ParseError", "done", "HookException"}
    /\ UNCHANGED <<client, contents, given>>

Next == Client \/ Begin \/ CallHook \/ ReadText \/ Answer

Spec == Init /\ [][Next]_vars
=============================================================================
