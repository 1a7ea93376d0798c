------------------------------ MODULE Document ------------------------------
(***************************************************************************)
(* Config objects and the calls a client makes on them.                    *)
(*                                                                         *)
(* The client is sequential.  It keeps at most one item of its own (hand): *)
(* a local object or a PointerType, fresh or taken from Items().  Every    *)
(* call is one step, except Config::operator<<(const Config&), whose loop  *)
(* takes one step per imported item because it may throw half-way.         *)
(***************************************************************************)
EXTENDS Items

CONSTANTS
    UsedKinds,   \* the kinds of item the client makes
    UsedPolicies,\* the policies the client asks for
    MaxKids,     \* bound on the items of one container
    MaxPath,     \* bound on the segments of a path
    MaxIndex,    \* bound on the indices of a path
    MayNest      \* TRUE if the client may add a copy of a container below itself

ASSUME BoundsAssumption ==
    /\ UsedKinds \subseteq Kinds /\ UsedPolicies \subseteq Policies
    /\ MaxKids \in Nat /\ MaxPath \in Nat /\ MaxIndex \in Nat /\ MayNest \in BOOLEAN

VARIABLES
    heap,       \* address -> item, or Null where nothing is allocated
    policy,     \* Config -> m_on_existing_action
    hand,       \* the item the client owns, or Null
    ret,        \* what the last call answered
    import,     \* the loop of operator<<(const Config&)
    mutated     \* history: containers holding an item renamed or reassigned

vars == <<heap, policy, hand, ret, import, mutated>>

NoImport == [src |-> Null, dst |-> Null, next |-> 0]

\* How following a path may fail (Container::LookUp).
LookUpErrors == {"OutOfBounds", "ItemNotFound", "Exception"}

Errors == AddErrors \cup LookUpErrors \cup {"InvalidPath", "WrongType"}

Outcomes == {"none", "done", "removed", "imported"} \cup AddOutcomes \cup Errors

Answers == [out: Outcomes, item: Ids \cup {Null}]

Imports == [src: Configs, dst: Configs, next: Nat \ {0}] \cup {NoImport}

Segments == {Indexed(i) : i \in 0..MaxIndex} \cup {Named(n) : n \in Names \cup OddNames}

Paths == UNION {[1..n -> Segments] : n \in 0..MaxPath}

Live == {x \in Addresses : heap[x] # Null}
Free == Addresses \ Live

\* Containers the client can call: a Config or any live container item.
Targets == {t \in Live : IsContainer(heap, t)}

Holders(x) == {t \in Live : x \in Kids(heap, t)}

\* The step shared by all calls: release what is no longer referenced.
Commit(h, newHand, touched) ==
    /\ heap' = Settled(h, {newHand} \ {Null})
    /\ hand' = newHand
    /\ mutated' = {t \in touched : heap'[t] # Null}

NoAnswer == [out |-> "none", item |-> Null]

Answer(out, item) == ret' = [out |-> out, item |-> item]

\* The client makes a call once the last one has returned and it has seen the
\* answer.
Idle == import = NoImport
Ready == Idle /\ ret = NoAnswer

-----------------------------------------------------------------------------
Init ==
    /\ heap = [x \in Addresses |-> IF x \in Configs THEN NewItem("Group", NoName, NoVal)
                                                    ELSE Null]
    /\ policy = [c \in Configs |-> "ThrowException"]
    /\ hand = Null
    /\ ret = NoAnswer
    /\ import = NoImport
    /\ mutated = {}

(* The client's own item *)

\* Value(name, v), Comment<T>(text), Group(name), List(name).
Make(x, kind, name, val) ==
    /\ Ready /\ hand = Null /\ x \in Ids \cap Free
    /\ (kind \in ContainerKinds) = (val = NoVal)
    /\ Commit([heap EXCEPT ![x] = NewItem(kind, name, val)], x, mutated)
    /\ Answer("done", Null)
    /\ UNCHANGED <<policy, import>>

\* auto p = container.Items()[k]
Take(x) ==
    /\ Ready /\ hand = Null /\ x \in Ids \cap Live
    /\ Commit(heap, x, mutated)
    /\ Answer("done", Null)
    /\ UNCHANGED <<policy, import>>

\* The client's object goes out of scope.
Release ==
    /\ Ready /\ hand # Null
    /\ Commit(heap, Null, mutated)
    /\ Answer("done", Null)
    /\ UNCHANGED <<policy, import>>

-----------------------------------------------------------------------------
(* Add *)

\* Config's copying and moving overloads use its own policy; every other
\* overload takes any policy or the container's own.
CallPolicy(t, p) == t \in Configs => p = policy[t]

\* The client adds nothing to itself or to what is below it: a precondition of
\* the pointer and moving overloads that no overload checks.
NotUnder(t, roots) == t \notin Reach(heap, roots)

\* Mutation: the item itself is added where a clone should be.
AddCopyUncloned(t, p, x) ==
    LET r == AddTo(heap, t, hand, p)
    IN  /\ Ready /\ hand # Null /\ t \in Targets /\ x \in Ids \cap Free
        /\ CallPolicy(t, p)
        /\ Len(heap[t].kids) < MaxKids
        /\ MayNest \/ NotUnder(t, Kids(heap, hand))
        /\ Commit(r.heap, hand, mutated)
        /\ Answer(r.out, r.item)
        /\ UNCHANGED <<policy, import>>

\* Add(const Base&): the clone shares the children of a container.
AddCopy(t, p, x) ==
    LET r == AddTo([heap EXCEPT ![x] = heap[hand]], t, x, p)
    IN  /\ Ready /\ hand # Null /\ t \in Targets /\ x \in Ids \cap Free
        /\ CallPolicy(t, p)
        /\ Len(heap[t].kids) < MaxKids
        /\ MayNest \/ NotUnder(t, Kids(heap, hand))
        /\ Commit(r.heap, hand, Passed(mutated, hand, x))
        /\ Answer(r.out, r.item)
        /\ UNCHANGED <<policy, import>>

\* Add(Base&&): the item is moved out before the container checks anything.
AddMove(t, p, x) ==
    LET moved == [heap EXCEPT ![x] = heap[hand], ![hand] = MovedFrom(heap[hand])]
        r     == AddTo(moved, t, x, p)
    IN  /\ Ready /\ hand # Null /\ t \in Targets /\ x \in Ids \cap Free
        /\ CallPolicy(t, p)
        /\ Len(heap[t].kids) < MaxKids
        /\ NotUnder(t, {hand})
        /\ Commit(r.heap, hand, Passed(mutated \cup Holders(hand), hand, x) \ {hand})
        /\ Answer(r.out, r.item)
        /\ UNCHANGED <<policy, import>>

\* Add(PointerType, policy): the container and the client share the item.
AddPointer(t, p) ==
    LET r == AddTo(heap, t, hand, p)
    IN  /\ Ready /\ hand # Null /\ t \in Targets
        /\ Len(heap[t].kids) < MaxKids
        /\ NotUnder(t, {hand})
        /\ Commit(r.heap, hand, mutated)
        /\ Answer(r.out, r.item)
        /\ UNCHANGED <<policy, import>>

-----------------------------------------------------------------------------
(* Remove and Clear *)

\* Remove(Size)
RemoveIndex(t, i) ==
    /\ Ready /\ t \in Targets
    /\ IF i < Len(heap[t].kids)
       THEN /\ Commit([heap EXCEPT ![t].kids = RemoveAt(@, i + 1)], hand, mutated)
            /\ Answer("removed", Null)
       ELSE /\ Answer("OutOfBounds", Null)
            /\ UNCHANGED <<heap, hand, mutated>>
    /\ UNCHANGED <<policy, import>>

\* Remove(path): walk to the parent of the last segment and erase there.
RemovePath(t, path) ==
    /\ Ready /\ t \in Targets
    /\ \/ /\ path = <<>>
          /\ Answer("InvalidPath", Null)
          /\ UNCHANGED <<heap, hand, mutated>>
       \/ /\ path # <<>>
          /\ LET parent == LookUp(heap, t, Front(path))
                 found  == Step(heap, parent, Last(path))
             IN  \/ /\ found.err = "none" /\ parent.at \in Targets
                    /\ Commit([heap EXCEPT ![parent.at].kids =
                                  RemoveAt(@, Find(heap, parent.at, Last(path)))],
                              hand, mutated)
                    /\ Answer("removed", Null)
                 \/ \E why \in LookUpErrors :
                      /\ found.err = why
                      /\ Answer(why, Null)
                      /\ UNCHANGED <<heap, hand, mutated>>
    /\ UNCHANGED <<policy, import>>

Clear(t) ==
    /\ Ready /\ t \in Targets
    /\ Commit([heap EXCEPT ![t].kids = <<>>], hand, mutated)
    /\ Answer("done", Null)
    /\ UNCHANGED <<policy, import>>

-----------------------------------------------------------------------------
(* Changing an item in place, wherever it is held *)

\* Base::Name(name): no check, and no container is told.
Rename(x, name) ==
    /\ Ready /\ x \in Ids \cap Live
    /\ Commit([heap EXCEPT ![x].name = name], hand, mutated \cup Holders(x))
    /\ Answer("done", Null)
    /\ UNCHANGED <<policy, import>>

\* Value::operator=(int), (double), ..., or an assignment to the reference that
\* operator int&() or one of its like returns: the kind of a value never changes.
SetValue(x, v) ==
    /\ Ready /\ x \in Ids \cap Live /\ heap[x].kind = "Value"
    /\ IF KindOf[heap[x].val] = KindOf[v]
       THEN /\ Commit([heap EXCEPT ![x].val = v], hand, mutated \cup Holders(x))
            /\ Answer("done", Null)
       ELSE /\ Answer("WrongType", Null)
            /\ UNCHANGED <<heap, hand, mutated>>
    /\ UNCHANGED <<policy, import>>

\* comment.Text() = ...
SetText(x, v) ==
    /\ Ready /\ x \in Ids \cap Live /\ heap[x].kind = "Comment"
    /\ Commit([heap EXCEPT ![x].val = v], hand, mutated \cup Holders(x))
    /\ Answer("done", Null)
    /\ UNCHANGED <<policy, import>>

\* item = other, the name included (Value, Comment, Group, List operator=).
Assign(x) ==
    /\ Ready /\ hand # Null /\ x \in Ids \cap Live /\ heap[x].kind = heap[hand].kind
    /\ NotUnder(x, Kids(heap, hand))
    /\ Commit([heap EXCEPT ![x] = heap[hand]], hand,
              Passed(mutated \cup Holders(x), hand, x))
    /\ Answer("done", Null)
    /\ UNCHANGED <<policy, import>>

\* item = std::move(other), by the same operators.
AssignMove(x) ==
    /\ Ready /\ hand # Null /\ x \in Ids \cap Live /\ heap[x].kind = heap[hand].kind
    /\ NotUnder(x, {hand})
    /\ Commit([heap EXCEPT ![x] = heap[hand], ![hand] = MovedFrom(heap[hand])], hand,
              Passed(mutated \cup Holders(x) \cup Holders(hand), hand, x) \ {hand})
    /\ Answer("done", Null)
    /\ UNCHANGED <<policy, import>>

\* Container::SetOnExistingAction on a nested container.
SetOnExistingAction(x, p) ==
    /\ Ready /\ x \in Targets \cap Ids
    /\ Commit([heap EXCEPT ![x].policy = p], hand, mutated)
    /\ Answer("done", Null)
    /\ UNCHANGED <<policy, import>>

-----------------------------------------------------------------------------
(* Config *)

\* Mutation: the root group is not told.
OnExistingActionConfigOnly(c, p) ==
    /\ Ready
    /\ policy' = [policy EXCEPT ![c] = p]
    /\ Answer("done", Null)
    /\ UNCHANGED <<heap, hand, import, mutated>>

\* Config::OnExistingAction
OnExistingAction(c, p) ==
    /\ Ready
    /\ policy' = [policy EXCEPT ![c] = p]
    /\ Commit([heap EXCEPT ![c].policy = p], hand, mutated)
    /\ Answer("done", Null)
    /\ UNCHANGED import

\* d = c: the vector of pointers is copied, the items are not.
CopyConfig(c, d) ==
    /\ Ready /\ c # d
    /\ policy' = [policy EXCEPT ![d] = policy[c]]
    /\ Commit([heap EXCEPT ![d] = heap[c]], hand, Passed(mutated, c, d))
    /\ Answer("done", Null)
    /\ UNCHANGED import

\* d = std::move(c)
MoveConfig(c, d) ==
    /\ Ready /\ c # d
    /\ policy' = [policy EXCEPT ![d] = policy[c]]
    /\ Commit([heap EXCEPT ![d] = heap[c], ![c] = MovedFrom(heap[c])], hand,
              Passed(mutated, c, d) \ {c})
    /\ Answer("done", Null)
    /\ UNCHANGED import

\* Mutation: the loop starts one item too early.
StartImportEarly(c, d) ==
    /\ Ready /\ c # d
    /\ Len(heap[c].kids) + Len(heap[d].kids) <= MaxKids
    /\ Len(heap[c].kids) <= Cardinality(Free)
    /\ import' = [src |-> c, dst |-> d, next |-> 0]
    /\ UNCHANGED <<heap, policy, hand, ret, mutated>>

\* d << c, entering the loop over c.Items().
StartImport(c, d) ==
    /\ Ready /\ c # d
    /\ Len(heap[c].kids) + Len(heap[d].kids) <= MaxKids
    /\ Len(heap[c].kids) <= Cardinality(Free)
    /\ import' = [src |-> c, dst |-> d, next |-> 1]
    /\ UNCHANGED <<heap, policy, hand, ret, mutated>>

\* Mutation: a refused item is passed over and the loop goes on.
ImportItemIgnoringErrors(x) ==
    /\ ~Idle /\ import.next <= Len(heap[import.src].kids) /\ x \in Ids \cap Free
    /\ \E item \in {heap[import.src].kids[import.next]} :
       \E r \in {AddTo([heap EXCEPT ![x] = heap[item]], import.dst, x, policy[import.dst])} :
          /\ Commit(r.heap, hand, Passed(mutated, item, x))
          /\ Answer(r.out, r.item)
          /\ import' = [import EXCEPT !.next = @ + 1]
    /\ UNCHANGED policy

\* Mutation: an item that was kept is tried again.
ImportItemRetry(x) ==
    /\ ~Idle /\ import.next <= Len(heap[import.src].kids) /\ x \in Ids \cap Free
    /\ \E item \in {heap[import.src].kids[import.next]} :
       \E r \in {AddTo([heap EXCEPT ![x] = heap[item]], import.dst, x, policy[import.dst])} :
          /\ Commit(r.heap, hand, mutated)
          /\ Answer(r.out, r.item)
          /\ import' = CASE r.out \in Errors -> NoImport
                         [] r.out = "kept"   -> import
                         [] OTHER            -> [import EXCEPT !.next = @ + 1]
    /\ UNCHANGED policy

\* One iteration: Add(*item->Clone()), which throws out of the loop on an error.
ImportItem(x) ==
    /\ ~Idle /\ import.next <= Len(heap[import.src].kids) /\ x \in Ids \cap Free
    /\ \E item \in {heap[import.src].kids[import.next]} :
       \E r \in {AddTo([heap EXCEPT ![x] = heap[item]], import.dst, x, policy[import.dst])} :
          /\ Commit(r.heap, hand, Passed(mutated, item, x))
          /\ Answer(r.out, r.item)
          /\ import' = IF r.out \in Errors THEN NoImport
                                           ELSE [import EXCEPT !.next = @ + 1]
    /\ UNCHANGED policy

EndImport ==
    /\ ~Idle /\ import.next > Len(heap[import.src].kids)
    /\ import' = NoImport
    /\ Answer("imported", Null)
    /\ UNCHANGED <<heap, policy, hand, mutated>>

\* The call is over: its reference or exception has reached the client.
Return ==
    /\ Idle /\ ret # NoAnswer
    /\ ret' = NoAnswer
    /\ UNCHANGED <<heap, policy, hand, import, mutated>>

-----------------------------------------------------------------------------
Own == \/ \E x \in Ids, kind \in UsedKinds, name \in AnyName, val \in Vals \cup {NoVal} :
             Make(x, kind, name, val)
       \/ \E x \in Ids : Take(x)
       \/ Release

AddItem == \E t \in Addresses, p \in UsedPolicies :
             \/ \E x \in Ids : AddCopy(t, p, x) \/ AddMove(t, p, x)
             \/ AddPointer(t, p)

RemoveItem == \E t \in Addresses :
                \/ \E i \in 0..MaxKids : RemoveIndex(t, i)
                \/ \E path \in Paths : RemovePath(t, path)
                \/ Clear(t)

Mutate == \E x \in Ids :
            \/ \E name \in AnyName : Rename(x, name)
            \/ \E v \in Vals : SetValue(x, v) \/ SetText(x, v)
            \/ Assign(x) \/ AssignMove(x)
            \/ \E p \in UsedPolicies : SetOnExistingAction(x, p)

ConfigCall == \/ \E c \in Configs, p \in UsedPolicies : OnExistingAction(c, p)
              \/ \E c, d \in Configs :
                    CopyConfig(c, d) \/ MoveConfig(c, d) \/ StartImport(c, d)

ImportStep == EndImport \/ \E x \in Ids : ImportItem(x)

Next == Return \/ Own \/ AddItem \/ RemoveItem \/ Mutate \/ ConfigCall \/ ImportStep

Spec == Init /\ [][Next]_vars /\ WF_vars(ImportStep)
-----------------------------------------------------------------------------
(* Properties *)

\* Every variable has its type, every Config keeps a Group as its root, and what
\* an item or the client refers to is allocated.
TypeOK ==
    /\ heap \in [Addresses -> Item \cup {Null}]
    /\ policy \in [Configs -> Policies]
    /\ hand \in Ids \cup {Null}
    /\ ret \in Answers
    /\ import \in Imports
    /\ mutated \subseteq Live
    /\ \A c \in Configs : heap[c] # Null /\ heap[c].kind = "Group"
    /\ \A x \in Live : heap[x].kids # <<>> => heap[x].kind \in ContainerKinds
    /\ \A x \in Live : Kids(heap, x) \subseteq Live
    /\ hand # Null => hand \in Live

\* A group that never held an item renamed or reassigned in place has no two
\* items of one name and no item without a valid name, whatever was added to it
\* by whichever overload and policy (Group::BeforeAdditionActions).
UniqueNames == \A t \in Live \ mutated : UniqueNamesIn(heap, t)

\* A list that never held an item renamed or reassigned in place has no named
\* item and no two equal values (List::BeforeAdditionActions); NaN, which
\* differs from itself, may be there many times.
DistinctListValues == \A t \in Live \ mutated : DistinctValuesIn(heap, t)

\* The names of the comments of a container, which Add never looks at.
CommentNames(t) ==
    {heap[y].name : y \in {z \in Kids(heap, t) : heap[z].kind = "Comment"}}

\* In such a group looking a name up gives the one item of that name, so the
\* uniqueness that Add enforces is the uniqueness LookUp relies on; a comment
\* of the same name is the exception.
KeysResolve ==
    \A t \in Live \ mutated : heap[t].kind = "Group" =>
        \A k \in Keyed(heap, t) :
            LET y == heap[t].kids[k]
            IN  heap[y].name \notin CommentNames(t)
                   => Step(heap, Start(t), Named(heap[y].name)) = [at |-> y, err |-> "none"]

\* README: after Add, look the node up and mutate it.
AddedIsFound ==
    [][ret'.out = "added" /\ heap'[ret'.item].kind # "Comment" =>
         \A c \in Configs \ mutated' :
            ret'.item \in Kids(heap', c) =>
               LookUp(heap', c, <<Named(heap'[ret'.item].name)>>).at = ret'.item]_vars

\* Once Remove has returned, by index or by path, the name of the item it erased
\* from a group denotes nothing there: the item was the only one of that name.
RemovedIsGone ==
    [][ret'.out = "removed" =>
         \A g \in Live \ mutated : heap[g].kind = "Group" /\ heap'[g] # Null =>
            \A y \in Kids(heap, g) \ Kids(heap', g) :
               heap[y].name \notin CommentNames(g)
                 => Step(heap', Start(g), Named(heap[y].name)).err = "ItemNotFound"]_vars

\* No container is reachable from itself: Count, Serialize and == return.
Acyclic == \A t \in Ids \cap Live : t \notin Reach(heap, Kids(heap, t))

\* The root group and the Config hold one policy in two places; they agree
\* after every call, copies and moves of Configs included.
RootPolicyAgrees == \A c \in Configs : heap[c].policy = policy[c]

\* config.hxx: the policy of the root "will be inherited by all nested containers".
PolicyInherited ==
    \A c \in Configs : \A x \in Reach(heap, Kids(heap, c)) :
        IsContainer(heap, x) => heap[x].policy = policy[c]

SameContents(old, new) ==
    old.kind = new.kind /\ old.name = new.name /\ old.val = new.val /\ old.kids = new.kids

\* A call that throws, or keeps the existing item, leaves the contents of every
\* item as they were: nothing is erased before the last check.  The item handed
\* over by move is the exception, and what only it owned may be destroyed.
RefusedCallKeepsContents ==
    [][ret'.out \in Errors \cup {"kept"} =>
         \A x \in Live \ {hand} : heap'[x] # Null => SameContents(heap[x], heap'[x])]_vars

\* The item the next Add is about.
Incoming == IF Idle THEN hand ELSE heap[import.src].kids[import.next]

\* The positions of the comments of container t.
CommentsOf(h, t) == {k \in DOMAIN h[t].kids : h[h[t].kids[k]].kind = "Comment"}

\* The comments of t in g are those of h, in their order, and maybe more after.
MoreComments(h, g, t) ==
    \E to \in [CommentsOf(h, t) -> CommentsOf(g, t)] :
        /\ \A j \in CommentsOf(h, t) : g[t].kids[to[j]] = h[t].kids[j]
        /\ \A j, k \in CommentsOf(h, t) : j < k => to[j] < to[k]
        /\ \A n \in CommentsOf(g, t), k \in CommentsOf(h, t) :
              n < to[k] => \E j \in CommentsOf(h, t) : n = to[j]

\* Comments are never duplicates of anything: an Add of a comment is never
\* refused or answered with another item, and no Add drops a comment or
\* reorders the comments of a container (BeforeAdditionActions skips them).
CommentsSurviveAdds ==
    [][/\ ret'.out \in AddErrors \cup {"kept"} => heap[Incoming].kind # "Comment"
       /\ ret'.out = "added" =>
             \A t \in Targets \ {hand} : heap'[t] # Null => MoreComments(heap, heap', t)]_vars

\* While a Config is imported into another, every item already passed over is
\* in the destination: under Overwrite and ThrowException with the same payload
\* and children, under Keep possibly as the item that was there before.
ImportDelivers ==
    ~Idle =>
        \A k \in 1..(import.next - 1) :
            LET y == heap[heap[import.src].kids[k]]
            IN  \E z \in Kids(heap, import.dst) :
                  /\ heap[z].name = y.name
                  /\ (y.kind = "Comment" \/ policy[import.dst] # "Keep")
                       /\ import.src \notin mutated => SameContents(y, heap[z])

\* operator<<(const Config&) returns or throws: the loop is over the source's
\* own items, which the destination's growth does not extend.
ImportEnds == ~Idle ~> Idle
=============================================================================
