------------------------------ MODULE TextRead ------------------------------
(***************************************************************************)
(* Reading a text document into a Config: Config::operator<<(std::istream&) *)
(* and its string overloads, the static Parser::Parse with its hooks, and  *)
(* the recursive Parser::Parse.                                            *)
(*                                                                         *)
(* The C++ stack of the recursive Parse is the sequence frames, one frame  *)
(* per container being filled.  The document is chosen token by token.  A  *)
(* read takes a step per token and per hook, since each may end it.        *)
(***************************************************************************)
EXTENDS Grammar

CONSTANTS
    Root,         \* the Config that reads
    UsedPolicies, \* the policies the client and the hooks ask for
    UsedHooks,    \* what the client registers as hooks: a hook, or an empty pointer
    MaxHooks,     \* bound on the hooks of each kind
    MaxTokens,    \* bound on the tokens of a document, end of file aside
    MaxReads      \* bound on the reads

ASSUME ReadAssumption ==
    /\ Root \in Configs
    /\ UsedPolicies \subseteq Policies
    /\ UsedHooks \subseteq {"null", "hook"}
    /\ MaxHooks \in Nat /\ MaxTokens \in Nat /\ MaxReads \in Nat

VARIABLES
    heap,       \* address -> item, or Null where nothing is allocated
    policy,     \* m_on_existing_action of the Config
    before,     \* m_before_read_hooks
    after,      \* m_after_read_hooks
    onFailure,  \* m_on_parse_failure_hook
    phase,      \* where the static Parse is; "idle" outside of it
    next,       \* the position of its loop over hooks
    frames,     \* the activations of the recursive Parse, the outermost first
    level,      \* m_container_level
    action,     \* c_on_existing_action
    ret,        \* what the last read answered
    read,       \* history: the tokens this read has consumed
    origin,     \* history: the heap when the first token was asked for
    calls,      \* history: the hooks this read has called
    reads       \* history: the number of reads

client  == <<policy, before, after, onFailure>>
history == <<origin, reads>>
vars    == <<heap, client, phase, next, frames, level, action, ret, read, calls, history>>

\* An activation of Parse(container, mode): in a loop that wants an item, the
\* Equal after a name, or what the name stands for.
Frame == [at: Addresses, mode: {"Named", "Unnamed"},
          want: {"item", "equal", "value"}, name: AnyName]

NewFrame(x, mode) == [at |-> x, mode |-> mode, want |-> "item", name |-> NoName]

Wanting(frame, want, name) ==
    [at |-> frame.at, mode |-> frame.mode, want |-> want, name |-> name]

Outcomes == {"none", "done", "ParseError", "HookException"} \cup AddErrors

Phases == {"idle", "before", "parse", "failed", "after"}

Free == {x \in Ids : heap[x] = Null}

Top == Last(frames)

\* The containers that the activations in fs hold as local variables.
Locals(fs) == {frame.at : frame \in ToSet(fs)} \cap Ids

-----------------------------------------------------------------------------
Init ==
    /\ heap = [x \in Addresses |-> IF x \in Configs THEN NewItem("Group", NoName, NoVal)
                                                    ELSE Null]
    /\ policy = "ThrowException"
    /\ before = <<>> /\ after = <<>> /\ onFailure = "null"
    /\ phase = "idle" /\ next = 1 /\ frames = <<>> /\ level = 0
    /\ action = "ThrowException"
    /\ ret = "none" /\ read = <<>> /\ origin = heap /\ calls = <<>> /\ reads = 0

(* The client, between reads *)

Idle == phase = "idle" /\ UNCHANGED <<phase, next, frames, level, action, ret, read, calls, history>>

\* Config::OnExistingAction
OnExistingAction(p) ==
    /\ Idle
    /\ policy' = p
    /\ heap' = [heap EXCEPT ![Root].policy = p]
    /\ UNCHANGED <<before, after, onFailure>>

AddHookBeforeRead(hook) ==
    /\ Idle /\ Len(before) < MaxHooks
    /\ before' = Append(before, hook)
    /\ UNCHANGED <<heap, policy, after, onFailure>>

AddHookAfterRead(hook) ==
    /\ Idle /\ Len(after) < MaxHooks
    /\ after' = Append(after, hook)
    /\ UNCHANGED <<heap, policy, before, onFailure>>

OnParseFailure(hook) ==
    /\ Idle
    /\ onFailure' = hook
    /\ UNCHANGED <<heap, policy, before, after>>

\* config << text: the parser copies the policy before any hook runs.
StartRead ==
    /\ phase = "idle" /\ reads < MaxReads
    /\ phase' = "before" /\ next' = 1
    /\ action' = policy
    /\ ret' = "none" /\ read' = <<>> /\ calls' = <<>> /\ reads' = reads + 1
    /\ UNCHANGED <<heap, client, frames, level, origin>>

-----------------------------------------------------------------------------
(* Hooks *)

\* The read is over, with an answer or an exception.
Finish(out) == phase' = "idle" /\ ret' = out

HookReturns(h) ==
    /\ heap' = Settled(h, {})
    /\ next' = next + 1
    /\ UNCHANGED <<phase, ret>>

HookThrows(h, what) ==
    /\ heap' = Settled(h, {})
    /\ Finish(what)
    /\ UNCHANGED next

\* root.Add(Value(name, v)), which goes by the policy of the root group.
HookAdds(x, name, v) ==
    LET r == AddTo([heap EXCEPT ![x] = NewItem("Value", name, v)], Root, x,
                   heap[Root].policy)
    IN  IF r.out \in AddErrors THEN HookThrows(r.heap, r.out) ELSE HookReturns(r.heap)

\* What a hook may do with the root group it is given.
HookBody ==
    \/ HookReturns(heap)
    \/ HookReturns([heap EXCEPT ![Root].kids = <<>>])
    \/ \E p \in UsedPolicies : HookReturns([heap EXCEPT ![Root].policy = p])
    \/ \E x \in Free, name \in Names \cup OddNames, v \in Vals : HookAdds(x, name, v)
    \/ HookThrows(heap, "HookException")

\* Mutation: the loop stays where it is at an empty pointer.
CallHookStuck(when, hooks) ==
    /\ phase = when /\ next <= Len(hooks)
    /\ \/ /\ hooks[next] = "null"
          /\ UNCHANGED <<heap, next, phase, ret, calls>>
       \/ /\ hooks[next] = "hook"
          /\ calls' = Append(calls, <<when, next>>)
          /\ HookBody
    /\ UNCHANGED <<client, frames, level, action, read, history>>

\* One iteration of for (hook : hooks) if (hook) (*hook)(root).
CallHook(when, hooks) ==
    /\ phase = when /\ next <= Len(hooks)
    /\ \/ /\ hooks[next] = "null"
          /\ next' = next + 1
          /\ UNCHANGED <<heap, phase, ret, calls>>
       \/ /\ hooks[next] = "hook"
          /\ calls' = Append(calls, <<when, next>>)
          /\ HookBody
    /\ UNCHANGED <<client, frames, level, action, read, history>>

\* Mutation: a read starts from an empty root.
StartParseAfresh ==
    /\ phase = "before" /\ next > Len(before)
    /\ phase' = "parse"
    /\ frames' = <<NewFrame(Root, "Named")>> /\ level' = 0
    /\ origin' = heap
    /\ heap' = Settled([heap EXCEPT ![Root].kids = <<>>], {})
    /\ UNCHANGED <<client, next, action, ret, read, calls, reads>>

\* The before hooks have run: parser.Parse(root, Mode::Named).
StartParse ==
    /\ phase = "before" /\ next > Len(before)
    /\ phase' = "parse"
    /\ frames' = <<NewFrame(Root, "Named")>> /\ level' = 0
    /\ origin' = heap
    /\ UNCHANGED <<heap, client, next, action, ret, read, calls, reads>>

EndRead ==
    /\ phase = "after" /\ next > Len(after)
    /\ Finish("done")
    /\ UNCHANGED <<heap, client, next, frames, level, action, read, calls, history>>

\* Mutation: a failure that was swallowed goes on as a success.
ReportFailureThenAfter ==
    /\ phase = "failed"
    /\ \/ /\ onFailure = "null"
          /\ Finish("ParseError")
          /\ UNCHANGED <<calls, next>>
       \/ /\ onFailure = "hook"
          /\ calls' = Append(calls, <<"failure", 1>>)
          /\ \/ Finish("ParseError") /\ UNCHANGED next
             \/ phase' = "after" /\ next' = 1 /\ UNCHANGED ret
             \/ Finish("HookException") /\ UNCHANGED next
    /\ UNCHANGED <<heap, client, frames, level, action, read, history>>

\* The parse has failed: the failure hook answers whether to throw the error or
\* to swallow it, and may throw itself.
ReportFailure ==
    /\ phase = "failed"
    /\ \/ /\ onFailure = "null"
          /\ Finish("ParseError")
          /\ UNCHANGED calls
       \/ /\ onFailure = "hook"
          /\ calls' = Append(calls, <<"failure", 1>>)
          /\ \E out \in {"ParseError", "done", "HookException"} : Finish(out)
    /\ UNCHANGED <<heap, client, next, frames, level, action, read, history>>

-----------------------------------------------------------------------------
(* The recursive Parse *)

\* m_tokenizer.Next() returns token.
Consume(token) ==
    /\ phase = "parse"
    /\ token.type = "EndOfFile" \/ Len(read) < MaxTokens
    /\ read' = Append(read, token)
    /\ UNCHANGED <<client, action, calls, history>>

\* A ParseError is returned through every activation to the static Parse.
Fail ==
    /\ heap' = Settled(heap, {})
    /\ phase' = "failed"
    /\ frames' = <<>>
    /\ UNCHANGED <<next, level, ret>>

\* The innermost activation goes on wanting something else.
Await(want, name) ==
    /\ frames' = Append(Front(frames), Wanting(Top, want, name))
    /\ UNCHANGED <<heap, phase, next, level, ret>>

\* Mutation: items are added by the policy of the container they go to.
DeliverByContainer(h, x, fs) ==
    \E r \in {AddTo(h, Last(fs).at, x, h[Last(fs).at].policy)} :
       \/ /\ r.out \in AddErrors
          /\ heap' = Settled(r.heap, {}) /\ frames' = <<>>
          /\ Finish(r.out)
       \/ /\ r.out \notin AddErrors
          /\ heap' = Settled(r.heap, Locals(fs))
          /\ frames' = Append(Front(fs), NewFrame(Last(fs).at, Last(fs).mode))
          /\ UNCHANGED <<phase, ret>>

\* container.Add(item, c_on_existing_action) in the innermost activation of fs,
\* which then goes round its loop.  An exception of Add is caught nowhere: it
\* leaves the read without the failure hook having heard of it.
Deliver(h, x, fs) ==
    \E r \in {AddTo(h, Last(fs).at, x, action)} :
       \/ /\ r.out \in AddErrors
          /\ heap' = Settled(r.heap, {}) /\ frames' = <<>>
          /\ Finish(r.out)
       \/ /\ r.out \notin AddErrors
          /\ heap' = Settled(r.heap, Locals(fs))
          /\ frames' = Append(Front(fs), NewFrame(Last(fs).at, Last(fs).mode))
          /\ UNCHANGED <<phase, ret>>

\* An item is made of one token and added.
AddItem(x, kind, token) ==
    /\ x \in Free
    /\ Deliver([heap EXCEPT ![x] = NewItem(kind, Top.name, token.text)], x, frames)
    /\ UNCHANGED <<next, level>>

\* The tokens the innermost activation can go on with.
Expected ==
    CASE Top.want = "equal" -> {"Equal"}
      [] Top.want = "value" -> ItemTokens
      [] Top.want = "item" /\ Top.mode = "Named" ->
           {"Identifier", "Comment", "EndOfFile"} \cup Closers
      [] Top.want = "item" /\ Top.mode = "Unnamed" ->
           ItemTokens \cup {"EndOfFile"} \cup Closers

Unexpected(token) ==
    /\ Consume(token)
    /\ token.type \notin Expected
    /\ Fail

ReadName(token) ==
    /\ Consume(token)
    /\ token.type = "Identifier" /\ token.type \in Expected
    /\ Await("equal", token.text)

\* Expect(TokenType::Equal)
ReadEqual(token) ==
    /\ Consume(token)
    /\ token.type = "Equal" /\ token.type \in Expected
    /\ Await("value", Top.name)

\* Mutation: a comment never has a name.
ReadItemCommentUnnamed(token, x) ==
    /\ Consume(token)
    /\ token.type \in {"Value", "Comment"} /\ token.type \in Expected
    /\ x \in Free
    /\ \E name \in {IF token.type = "Comment" THEN NoName ELSE Top.name} :
          Deliver([heap EXCEPT ![x] = NewItem(token.type, name, token.text)], x, frames)
    /\ UNCHANGED <<next, level>>

\* A comment where an item may start has no name; after = it takes the name.
ReadItem(token, x) ==
    /\ Consume(token)
    /\ token.type \in {"Value", "Comment"} /\ token.type \in Expected
    /\ AddItem(x, token.type, token)

\* { or [: the new container is a local variable of the activation that called
\* the new one.
OpenContainer(token, x) ==
    /\ Consume(token)
    /\ token.type \in Openers /\ token.type \in Expected
    /\ x \in Free
    /\ \E list \in {token.type = "LBracket"} :
          /\ heap' = [heap EXCEPT ![x] =
                         NewItem(IF list THEN "List" ELSE "Group", NoName, NoVal)]
          /\ frames' = Append(frames, NewFrame(x, IF list THEN "Unnamed" ELSE "Named"))
    /\ level' = level + 1
    /\ UNCHANGED <<phase, next, ret>>

\* Mutation: the level is not counted down.
CloseContainerUncounted(token) ==
    /\ Consume(token)
    /\ token.type \in Closers /\ token.type \in Expected
    /\ \/ level = 0 /\ Fail
       \/ /\ level > 0
          /\ Deliver([heap EXCEPT ![Top.at].name = Last(Front(frames)).name],
                     Top.at, Front(frames))
          /\ UNCHANGED <<next, level>>

\* } or ], whichever bracket opened the container: it takes the name it was
\* given and is added to the container around it.
CloseContainer(token) ==
    /\ Consume(token)
    /\ token.type \in Closers /\ token.type \in Expected
    /\ \/ level = 0 /\ Fail
       \/ /\ level > 0
          /\ level' = level - 1
          /\ Deliver([heap EXCEPT ![Top.at].name = Last(Front(frames)).name],
                     Top.at, Front(frames))
          /\ UNCHANGED next

\* Mutation: the end of the document closes whatever is open.
EndDocumentAnywhere(token) ==
    /\ Consume(token)
    /\ token.type = "EndOfFile" /\ token.type \in Expected
    /\ heap' = Settled(heap, {})
    /\ phase' = "after" /\ next' = 1 /\ frames' = <<>>
    /\ UNCHANGED <<level, ret>>

EndDocument(token) ==
    /\ Consume(token)
    /\ token.type = "EndOfFile" /\ token.type \in Expected
    /\ \/ level > 0 /\ Fail
       \/ /\ level = 0
          /\ phase' = "after" /\ next' = 1 /\ frames' = <<>>
          /\ UNCHANGED <<heap, level, ret>>

-----------------------------------------------------------------------------
Client ==
    \/ \E p \in UsedPolicies : OnExistingAction(p)
    \/ \E hook \in UsedHooks :
          AddHookBeforeRead(hook) \/ AddHookAfterRead(hook) \/ OnParseFailure(hook)

Hooks == CallHook("before", before) \/ CallHook("after", after) \/ ReportFailure

ReadToken ==
    \E token \in Token :
       \/ Unexpected(token) \/ ReadName(token) \/ ReadEqual(token)
       \/ \E x \in Ids : ReadItem(token, x) \/ OpenContainer(token, x)
       \/ CloseContainer(token) \/ EndDocument(token)

ReadStep == Hooks \/ StartParse \/ ReadToken \/ EndRead

Next == Client \/ StartRead \/ ReadStep

Spec == Init /\ [][Next]_vars /\ WF_vars(ReadStep)
-----------------------------------------------------------------------------
(* Properties *)

\* Every variable has its type; there is an activation per open container, as
\* m_container_level counts them; each fills a container of its own which is
\* alive and of the kind its mode is for.
TypeOK ==
    /\ heap \in [Addresses -> Item \cup {Null}]
    /\ policy \in Policies /\ action \in Policies
    /\ before \in Seq({"null", "hook"}) /\ after \in Seq({"null", "hook"})
    /\ onFailure \in {"null", "hook"}
    /\ phase \in Phases /\ next \in Nat \ {0} /\ ret \in Outcomes /\ reads \in Nat
    /\ read \in Seq(Token)
    /\ frames \in Seq(Frame)
    /\ phase = "parse" <=> frames # <<>>
    /\ frames # <<>> => level = Len(frames) - 1 /\ frames[1].at = Root
    /\ \A j, k \in DOMAIN frames : frames[j].at = frames[k].at => j = k
    /\ \A k \in DOMAIN frames :
          /\ heap[frames[k].at] # Null
          /\ heap[frames[k].at].kind = IF frames[k].mode = "Named" THEN "Group" ELSE "List"
    /\ \A x \in Addresses : Kids(heap, x) \cap Free = {}

\* The parser accepts exactly the documents: it goes on while what it has read
\* begins one, the after hooks are for a document only, and the failure is
\* reported at the first token that no document goes on with.
GrammarDecides ==
    /\ phase = "parse" => Viable(read)
    /\ phase = "after" => IsDocument(read)
    /\ phase = "failed" => ~Viable(read)

\* Whatever the hooks add, no two items of a group share a name after any number
\* of reads, no list holds a value twice, and every item is named as its
\* container asks; in the containers still being read too.
ReadsKeepUnique ==
    \A x \in Addresses : heap[x] # Null =>
        UniqueNamesIn(heap, x) /\ DistinctValuesIn(heap, x)

\* The calls of the first k hooks, of those that are not empty, in the order of
\* registration; and of them all.
CalledSoFar(when, hooks) ==
    LET called[k \in 0..Len(hooks)] ==
            IF k = 0 THEN <<>>
            ELSE IF hooks[k] = "hook" THEN Append(called[k - 1], <<when, k>>)
            ELSE called[k - 1]
    IN  called

Called(when, hooks) == CalledSoFar(when, hooks)[Len(hooks)]

AllHooks == Called("before", before) \o Called("after", after)

FailureHooks == Append(Called("before", before), <<"failure", 1>>)

EndsAsTold ==
    CASE ret' = "done" -> \/ IsDocument(read) /\ calls' = AllHooks
                          \/ ~Viable(read) /\ calls' = FailureHooks
      [] ret' = "ParseError" ->
            /\ ~Viable(read)
            /\ calls' = IF onFailure = "hook" THEN FailureHooks ELSE Called("before", before)
      [] ret' = "HookException" -> calls' = FailureHooks \/ IsPrefix(calls', AllHooks)
      [] ret' \in AddErrors -> IsPrefix(calls', AllHooks)

\* When a read is over: if it returned, either the text was a document and all
\* before and after hooks have run, in order and once, or it was none and the
\* failure hook swallowed the error, with no after hook; if it threw a
\* ParseError, the text was no document and the failure hook, if there is one,
\* has been asked once; an exception of Add leaves the failure hook unasked.
HookProtocol == [][phase # "idle" /\ phase' = "idle" => EndsAsTold]_vars

\* A read returns or throws.
ReadEnds == phase # "idle" ~> phase = "idle"
=============================================================================
