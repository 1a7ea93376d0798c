------------------------------- MODULE Items -------------------------------
(***************************************************************************)
(* The item tree of StormByte-Config as a heap of items, and the           *)
(* operations of Container, Group and List on it.                          *)
(*                                                                         *)
(* An item is a Shared<Base>: containers hold references, so a heap maps   *)
(* an address to an item and a container's m_items to a sequence of        *)
(* addresses.  A Config's m_root is a Group held by value; its address is  *)
(* the Config itself, which no container can ever refer to.                *)
(* This module has no variables: every operation maps a heap to an outcome.*)
(***************************************************************************)
EXTENDS Naturals, FiniteSets, SequencesExt

CONSTANTS
    Configs,    \* the Config objects; each is the address of its m_root
    Ids,        \* addresses of the items allocated with MakePointer
    Names,      \* names accepted by Base::IsNameValid
    OddNames,   \* non-empty names that Base::IsNameValid rejects
    NoName,     \* the empty name
    Vals,       \* payloads of values and texts of comments
    KindOf,     \* KindOf[v]: the Value::Kind of payload v
    NaN,        \* the payload, if it is in Vals, that is not equal to itself
    NoVal,      \* the payload of a container, which has none
    Null        \* a free address, or no address

ASSUME AddressesAssumption ==
    /\ Configs \cap Ids = {}
    /\ Null \notin Configs \cup Ids
    /\ IsFiniteSet(Ids)

ASSUME NamesAssumption ==
    /\ Names \cap OddNames = {}
    /\ NoName \notin Names \cup OddNames

ASSUME PayloadsAssumption == NoVal \notin Vals /\ KindOf \in [Vals -> STRING]

Addresses == Configs \cup Ids
AnyName   == Names \cup OddNames \cup {NoName}
Policies  == {"Keep", "Overwrite", "ThrowException"}

\* "other" is a number that is none of OnExistingAction's.  No client asks for
\* it, but a binary file may bring it: nothing checks what is read.
AnyPolicy == Policies \cup {"other"}

ContainerKinds == {"Group", "List"}
Kinds          == {"Value", "Comment"} \cup ContainerKinds

Item == [kind: Kinds, name: AnyName, val: Vals \cup {NoVal},
         kids: Seq(Ids), policy: AnyPolicy]

ASSUME NullAssumption == Null \notin Item

\* A freshly constructed item.
NewItem(kind, name, val) ==
    [kind |-> kind, name |-> name, val |-> val, kids |-> <<>>,
     policy |-> "ThrowException"]

\* What the move constructors leave in an item: no name and no items.
MovedFrom(item) == [item EXCEPT !.name = NoName, !.kids = <<>>]

\* d has taken the contents of c: it is marked if and only if c is.
Passed(marks, c, d) == IF c \in marks THEN marks \cup {d} ELSE marks \ {d}

IsContainer(h, x) == x \in DOMAIN h /\ h[x] # Null /\ h[x].kind \in ContainerKinds

Kids(h, x) == IF h[x] = Null THEN {} ELSE ToSet(h[x].kids)

-----------------------------------------------------------------------------
(* Ownership *)

\* The addresses reached from those in R through m_items.
Reach(h, R) ==
    {x \in Ids : \A S \in SUBSET Ids :
        (R \subseteq S /\ \A y \in S : Kids(h, y) \subseteq S) => x \in S}

\* The heap once every reference count that dropped to zero has been acted on:
\* what neither a Config nor a reference held elsewhere reaches is destroyed.
Settled(h, held) ==
    LET live == Reach(h, (UNION {Kids(h, c) : c \in Configs}) \cup held)
    IN  [x \in Addresses |-> IF x \in Configs \cup live THEN h[x] ELSE Null]

\* Base::operator== through Equals: containers compare element by element.
\* The recursion of a heap without cycles is no deeper than its addresses.
SameShape(h, x, y) ==
    /\ h[x].kind = h[y].kind
    /\ h[x].name = h[y].name
    /\ h[x].val = h[y].val
    /\ h[x].kind = "Value" => h[x].val # NaN
    /\ Len(h[x].kids) = Len(h[y].kids)

SameItems(h, x, y) ==
    LET equal[n \in 0..Cardinality(Ids)] ==
          {q \in Ids \X Ids :
              /\ SameShape(h, q[1], q[2])
              /\ \A k \in DOMAIN h[q[1]].kids :
                    n > 0 /\ <<h[q[1]].kids[k], h[q[2]].kids[k]>> \in equal[n - 1]}
    IN  \A k \in DOMAIN h[x].kids :
           <<h[x].kids[k], h[y].kids[k]>> \in equal[Cardinality(Ids)]

Same(h, x, y) == SameShape(h, x, y) /\ SameItems(h, x, y)

-----------------------------------------------------------------------------
(* Container::Add *)

\* Mutation: lists accept named items.
BadlyNamedOnlyInGroups(h, t, x) == h[t].kind = "Group" /\ h[x].name \notin Names

\* Mutation: groups take any name that is not empty.
BadlyNamedOnlyEmpty(h, t, x) ==
    IF h[t].kind = "Group" THEN h[x].name = NoName ELSE h[x].name # NoName

\* What BeforeAdditionActions rejects whatever the container already holds.
BadlyNamed(h, t, x) ==
    IF h[t].kind = "Group" THEN h[x].name \notin Names ELSE h[x].name # NoName

\* Mutation: only items of one kind collide by name.
ClashesWithinKind(h, t, x, y) ==
    IF h[t].kind = "Group"
    THEN h[y].kind = h[x].kind /\ h[y].name = h[x].name
    ELSE Same(h, y, x)

\* Mutation: comments of a group collide like any other item.
ClashesWithComments(h, t, x, y) ==
    IF h[t].kind = "Group" THEN h[y].name = h[x].name ELSE Same(h, y, x)

\* The collision predicate of Group (by name, comments aside) and List (by ==).
Clashes(h, t, x, y) ==
    IF h[t].kind = "Group"
    THEN h[y].kind # "Comment" /\ h[y].name = h[x].name
    ELSE Same(h, y, x)

\* Position of the first item of container t that x collides with, or 0.
FirstClash(h, t, x) == SelectInSeq(h[t].kids, LAMBDA y : Clashes(h, t, x, y))

\* A container takes over the policy of the call before anything is checked.
Offered(h, x, p) ==
    IF h[x].kind \in ContainerKinds THEN [h EXCEPT ![x].policy = p] ELSE h

Refused(h, why) == [heap |-> h, out |-> why, item |-> Null]

Placed(h, t, kids, x) ==
    [heap |-> [h EXCEPT ![t].kids = Append(kids, x)], out |-> "added", item |-> x]

\* Mutation: the colliding item is erased before the policy is looked at.
PlaceInEraseFirst(h, t, x, p) ==
    LET kids == h[t].kids
        k    == FirstClash(h, t, x)
    IN  IF h[x].kind # "Comment" /\ BadlyNamed(h, t, x) THEN Refused(h, "InvalidName")
        ELSE IF k = 0 \/ h[x].kind = "Comment" THEN Placed(h, t, kids, x)
        ELSE IF p = "Overwrite" THEN Placed(h, t, RemoveAt(kids, k), x)
        ELSE Refused([h EXCEPT ![t].kids = RemoveAt(kids, k)], "ItemNameAlreadyExists")

\* Add(item, on_existing) once the offered container has taken the policy.  With
\* a policy that is none of its cases the switch falls through to the push_back.
PlaceIn(h, t, x, p) ==
    LET kids == h[t].kids
        k    == FirstClash(h, t, x)
    IN  CASE h[x].kind = "Comment" -> Placed(h, t, kids, x)
          [] h[x].kind # "Comment" /\ BadlyNamed(h, t, x) -> Refused(h, "InvalidName")
          [] h[x].kind # "Comment" /\ ~BadlyNamed(h, t, x) ->
               CASE k = 0 -> Placed(h, t, kids, x)
                 [] k # 0 /\ p = "Keep" -> [heap |-> h, out |-> "kept", item |-> kids[k]]
                 [] k # 0 /\ p = "Overwrite" -> Placed(h, t, RemoveAt(kids, k), x)
                 [] k # 0 /\ p = "ThrowException" ->
                      Refused(h, IF h[t].kind = "Group" THEN "ItemNameAlreadyExists"
                                                        ELSE "ItemAlreadyExists")
                 [] k # 0 /\ p \notin Policies -> Placed(h, t, kids, x)

\* The exceptions of Add, and all it may answer.
AddErrors   == {"InvalidName", "ItemNameAlreadyExists", "ItemAlreadyExists"}
AddOutcomes == {"added", "kept"} \cup AddErrors

AddTo(h, t, x, p) == PlaceIn(Offered(h, x, p), t, x, p)

-----------------------------------------------------------------------------
(* Paths: a sequence of segments, each an index (from 0) or a name *)

Indexed(i) == [by |-> "index", at |-> i]
Named(n)   == [by |-> "name", at |-> n]

\* Mutation: the search by name skips containers.
FindLeaf(h, t, seg) ==
    IF seg.by = "index"
    THEN IF seg.at < Len(h[t].kids) THEN seg.at + 1 ELSE 0
    ELSE SelectInSeq(h[t].kids, LAMBDA y : ~IsContainer(h, y) /\ h[y].name = seg.at)

\* Position of the item a last segment denotes in container t, or 0.
Find(h, t, seg) ==
    IF seg.by = "index"
    THEN IF seg.at < Len(h[t].kids) THEN seg.at + 1 ELSE 0
    ELSE SelectInSeq(h[t].kids, LAMBDA y : h[y].name = seg.at)

NotFound(seg) == IF seg.by = "index" THEN "OutOfBounds" ELSE "ItemNotFound"

\* One segment of LookUp: from the address reached so far to the next.
Step(h, reached, seg) ==
    CASE reached.err # "none" -> reached
      [] reached.err = "none" /\ ~IsContainer(h, reached.at) ->
           [at |-> Null, err |-> "Exception"]
      [] reached.err = "none" /\ IsContainer(h, reached.at) ->
           LET k == Find(h, reached.at, seg)
           IN  IF k = 0 THEN [at |-> Null, err |-> NotFound(seg)]
               ELSE [at |-> h[reached.at].kids[k], err |-> "none"]

Start(t) == [at |-> t, err |-> "none"]

LookUp(h, t, path) == FoldLeft(LAMBDA r, seg : Step(h, r, seg), Start(t), path)
-----------------------------------------------------------------------------
(* What Add keeps true of a container *)

\* The positions of container t that hold anything but a comment.
Keyed(h, t) == {k \in DOMAIN h[t].kids : h[h[t].kids[k]].kind # "Comment"}

UniqueNamesIn(h, t) ==
    h[t].kind = "Group" =>
        \A j, k \in Keyed(h, t) :
            /\ h[h[t].kids[j]].name \in Names
            /\ h[h[t].kids[j]].name = h[h[t].kids[k]].name => j = k

DistinctValuesIn(h, t) ==
    h[t].kind = "List" =>
        \A j, k \in Keyed(h, t) :
            LET x == h[h[t].kids[j]]
                y == h[h[t].kids[k]]
            IN  /\ x.name = NoName
                /\ x.kind = "Value" /\ y.kind = "Value" /\ x.val = y.val /\ x.val # NaN
                      => j = k
=============================================================================
