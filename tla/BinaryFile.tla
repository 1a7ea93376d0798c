----------------------------- MODULE BinaryFile -----------------------------
(***************************************************************************)
(* Saving a Config in Mode::Binary and loading it: Binary::Writer, the      *)
(* file it leaves, Binary::Reader and ReaderV1.                             *)
(*                                                                         *)
(* A file is a sequence of fields, each what one Serializable writes.  The  *)
(* reader takes a step per item; the C++ stack of its recursion is frames.  *)
(* Between the two the file may be cut short, prolonged or altered.         *)
(***************************************************************************)
EXTENDS Items

CONSTANTS
    Source,       \* the Config that is saved
    Loaded,       \* the Config that Load returns
    UsedKinds,    \* the kinds of item the client makes
    UsedPolicies, \* the policies it asks for
    MaxItems,     \* bound on its items
    MaxDamaged,   \* bound on the items of a document whose file is damaged
    MaxKids       \* bound on the items of a container

ASSUME FileAssumption ==
    /\ {Source, Loaded} \subseteq Configs /\ Source # Loaded
    /\ UsedKinds \subseteq Kinds /\ UsedPolicies \subseteq Policies
    /\ MaxItems \in Nat /\ MaxDamaged \in Nat /\ MaxKids \in Nat
    /\ Cardinality(Ids) >= 2 * MaxItems
    \* The tag of a value is one of Type, and that of no other item.
    /\ \A v \in Vals : KindOf[v] \notin {"Container", "Comment", "other"}

VARIABLES
    heap,     \* address -> item, or Null where nothing is allocated
    policy,   \* Config -> m_on_existing_action
    file,     \* the fields of the stream
    damage,   \* what has happened to it since it was saved
    phase,    \* "edit", "saved", "load" or "over"
    pos,      \* m_offset of the cursor, as the next field to read
    frames,   \* the activations of ReadContainerInto, the outermost first
    ret       \* what Load has answered

vars == <<heap, policy, file, damage, phase, pos, frames, ret>>

Field(of, is) == [of |-> of, is |-> is]

Top == Last(frames)

Live(x) == heap[x] # Null

Free == {x \in Ids : heap[x] = Null}

\* Where the next item is allocated: which free address it is makes no difference.
Fresh == CHOOSE x \in Free : TRUE

\* Mutation: the activations do not keep their containers alive.
LocalsUnheld(fs) == {}

\* The containers that the activations hold as local variables.
Locals(fs) == {frame.at : frame \in ToSet(fs)} \cap Ids

EmptyRoot == NewItem("Group", NoName, NoVal)

-----------------------------------------------------------------------------
Init ==
    /\ heap = [x \in Addresses |-> IF x \in Configs THEN EmptyRoot ELSE Null]
    /\ policy = [c \in Configs |-> "ThrowException"]
    /\ file = <<>> /\ damage = "none" /\ phase = "edit" /\ pos = 1 /\ frames = <<>>
    /\ ret = "none"

(* The client makes a document; Document has the rest of what it may do *)

Editing == phase = "edit" /\ UNCHANGED <<file, damage, phase, pos, frames, ret>>

\* Add(item, p) of a new item.
AddNew(t, kind, name, v, p) ==
    /\ Editing
    /\ t \in Ids \cup {Source} /\ IsContainer(heap, t) /\ Len(heap[t].kids) < MaxKids
    /\ Cardinality(Ids \ Free) < MaxItems /\ Free # {}
    /\ LET r == AddTo([heap EXCEPT ![Fresh] = NewItem(kind, name, v)], t, Fresh, p)
       IN  heap' = Settled(r.heap, {})
    /\ UNCHANGED policy

\* Remove(index)
RemoveAtIndex(t, k) ==
    /\ Editing
    /\ t \in Ids \cup {Source} /\ IsContainer(heap, t) /\ k \in DOMAIN heap[t].kids
    /\ heap' = Settled([heap EXCEPT ![t].kids = RemoveAt(heap[t].kids, k)], {})
    /\ UNCHANGED policy

\* Name(name) of an item that is in the document already.
Rename(x, name) ==
    /\ Editing
    /\ Live(x)
    /\ heap' = [heap EXCEPT ![x].name = name]
    /\ UNCHANGED policy

\* Value::operator= of an item that is in the document already.
Assign(x, v) ==
    /\ Editing
    /\ Live(x) /\ heap[x].kind = "Value"
    /\ heap' = [heap EXCEPT ![x].val = v]
    /\ UNCHANGED policy

OnExistingAction(p) ==
    /\ Editing
    /\ heap' = [heap EXCEPT ![Source].policy = p]
    /\ policy' = [policy EXCEPT ![Source] = p]

-----------------------------------------------------------------------------
(* Binary::Writer *)

\* The type tag of an item.
TypeOf(item) ==
    CASE item.kind \in ContainerKinds -> "Container"
      [] item.kind = "Comment" -> "Comment"
      [] item.kind = "Value" -> KindOf[item.val]

\* Mutation: comments are written without their names.
BaseOfNamelessComments(item) ==
    <<Field("type", TypeOf(item)),
      Field("name", IF item.kind = "Comment" THEN NoName ELSE item.name)>>

\* The type, and the name, which is optional.
BaseOf(item) == <<Field("type", TypeOf(item)), Field("name", item.name)>>

\* A container writes its kind, its size and its items; the recursion of a
\* document without cycles is no deeper than its items are many.
Written(h, c) ==
    LET items == {x \in Addresses : h[x] # Null}
        written[n \in 0..Cardinality(Ids)] ==
          [x \in items |->
             BaseOf(h[x]) \o
             IF h[x].kind \notin ContainerKinds THEN <<Field("payload", h[x].val)>>
             ELSE <<Field("container", h[x].kind), Field("count", Len(h[x].kids))>>
                    \o FlattenSeq([k \in DOMAIN h[x].kids |->
                                     IF n = 0 THEN <<>> ELSE written[n - 1][h[x].kids[k]]])]
    IN  written[Cardinality(Ids)][c]

Header == <<Field("magic", "STBTCF"), Field("version", 1)>>

\* config.Save(stream, Mode::Binary)
Save ==
    /\ phase = "edit"
    /\ file' = Header \o <<Field("policy", policy[Source])>> \o Written(heap, Source)
    /\ phase' = "saved" /\ damage' = "none"
    /\ UNCHANGED <<heap, policy, pos, frames, ret>>

-----------------------------------------------------------------------------
(* What may happen to the file; nothing in src writes this *)

Damaged(new, how) ==
    /\ phase = "saved" /\ damage = "none" /\ Cardinality(Ids \ Free) <= MaxDamaged
    /\ file' = new /\ damage' = how
    /\ UNCHANGED <<heap, policy, phase, pos, frames, ret>>

\* The first fields are there, the one after them not, or in part.
Truncate(n) ==
    /\ n \in 0..(Len(file) - 1)
    /\ \E rest \in {<<>>, <<Field("part", 0)>>} : Damaged(SubSeq(file, 1, n) \o rest, "cut")

Extend == Damaged(Append(file, Field("junk", 0)), "longer")

\* Field n holds something else of its type.
Alter(n, is) ==
    /\ n \in DOMAIN file /\ is # file[n].is
    /\ file[n].of = "payload" => KindOf[is] = KindOf[file[n].is]
    /\ Damaged([file EXCEPT ![n].is = is], "altered")

\* What a field of a kind may hold.
Instead(of) ==
    CASE of = "magic" -> {"other"}
      [] of = "version" -> {0, 2}
      [] of = "policy" -> AnyPolicy \cup {"absent"}
      [] of = "type" -> {"other"}
      [] of = "container" -> ContainerKinds \cup {"other"}
      [] of = "count" -> 0..(MaxKids + 1)
      [] of = "name" -> AnyName
      [] of = "payload" -> Vals
      [] of \in {"part", "junk"} -> {}

-----------------------------------------------------------------------------
(* Binary::Reader and ReaderV1 *)

\* The fields that are read next are of these kinds.  Taking any other, or one
\* that is not there, is an error of Serializable or of the check before it.
Ready(kinds) ==
    \A k \in DOMAIN kinds : pos + k - 1 <= Len(file) /\ file[pos + k - 1].of = kinds[k]

Taken(k) == file[pos + k - 1].is

\* What is left after n more fields, in fields where the code counts bytes: every
\* item takes more than one of either, so too large a count fails all the same.
Remaining(n) == Len(file) - (pos + n - 1)

\* Load answers an error, and what it had built goes.
Refuse ==
    /\ heap' = Settled([heap EXCEPT ![Loaded] = EmptyRoot], {})
    /\ phase' = "over" /\ frames' = <<>> /\ ret' = "DeserializeError"
    /\ UNCHANGED <<policy, file, damage>>

GoodHeader == Ready(<<"magic", "version">>) /\ Taken(1) = "STBTCF" /\ Taken(2) = 1

RootFields == <<"policy", "type", "name", "container", "count">>

GoodRoot ==
    /\ Ready(RootFields) /\ Taken(2) = "Container" /\ Taken(4) = "Group"
    /\ Taken(5) <= Remaining(5)

LeafFields == <<"type", "name", "payload">>

GoodLeaf == Ready(LeafFields) /\ Taken(1) \notin {"Container", "other"}

ContainerFields == <<"type", "name", "container", "count">>

GoodContainer ==
    /\ Ready(ContainerFields) /\ Taken(1) = "Container" /\ Taken(3) \in ContainerKinds
    /\ Taken(4) <= Remaining(4)

\* Reader::Deserialize up to the version switch.
StartLoad ==
    /\ phase = "saved"
    /\ \/ GoodHeader /\ phase' = "load" /\ pos' = pos + 2
          /\ UNCHANGED <<heap, policy, file, damage, frames, ret>>
       \/ ~GoodHeader /\ Refuse /\ UNCHANGED pos

\* ReaderV1::Read: the policy, and the head of the root, whose items follow.
ReadRoot ==
    /\ phase = "load" /\ frames = <<>>
    /\ \/ ~GoodRoot /\ Refuse /\ UNCHANGED pos
       \/ /\ GoodRoot
          /\ \E p \in {IF Taken(1) = "absent" THEN "ThrowException" ELSE Taken(1)} :
                heap' = [heap EXCEPT ![Loaded] =
                            [NewItem("Group", Taken(3), NoVal) EXCEPT !.policy = p]]
          /\ frames' = <<[at |-> Loaded, left |-> Taken(5)]>>
          /\ pos' = pos + 5
          /\ UNCHANGED <<policy, file, damage, phase, ret>>

\* container.Add(item, container.GetOnExistingAction()) in the innermost
\* activation of fs; Deserialize makes an error of its exception.
Deliver(h, x, fs) ==
    \E t \in {Last(fs).at} : \E r \in {AddTo(h, t, x, h[t].policy)} :
        \/ r.out \in AddErrors /\ Refuse
        \/ /\ r.out \notin AddErrors
           /\ heap' = Settled(r.heap, Locals(fs))
           /\ frames' = Append(Front(fs), [at |-> t, left |-> Last(fs).left - 1])
           /\ UNCHANGED <<policy, file, damage, phase, ret>>

Reading == phase = "load" /\ frames # <<>>

ReadLeaf ==
    /\ Reading /\ Top.left > 0 /\ GoodLeaf /\ Free # {}
    /\ Deliver([heap EXCEPT ![Fresh] =
                  NewItem(IF Taken(1) = "Comment" THEN "Comment" ELSE "Value",
                          Taken(2), Taken(3))], Fresh, frames)
    /\ pos' = pos + 3

\* A nested container is named before it is filled.
OpenContainer ==
    /\ Reading /\ Top.left > 0 /\ GoodContainer /\ Free # {}
    /\ heap' = [heap EXCEPT ![Fresh] = NewItem(Taken(3), Taken(2), NoVal)]
    /\ frames' = Append(frames, [at |-> Fresh, left |-> Taken(4)])
    /\ pos' = pos + 4
    /\ UNCHANGED <<policy, file, damage, phase, ret>>

CloseContainer ==
    /\ Reading /\ Top.left = 0 /\ Len(frames) > 1
    /\ Deliver(heap, Top.at, Front(frames))
    /\ UNCHANGED pos

RefuseItem ==
    /\ Reading /\ Top.left > 0 /\ ~GoodLeaf /\ ~GoodContainer
    /\ Refuse /\ UNCHANGED pos

\* Mutation: the end of the data ends the document.
EndLoadAtEndOfData ==
    /\ Reading /\ Len(frames) = 1 /\ (Top.left = 0 \/ pos > Len(file))
    /\ policy' = [policy EXCEPT ![Loaded] = heap[Loaded].policy]
    /\ phase' = "over" /\ frames' = <<>> /\ ret' = "loaded"
    /\ UNCHANGED <<heap, file, damage, pos>>

\* The root is complete; what follows it is not looked at.
EndLoad ==
    /\ Reading /\ Top.left = 0 /\ Len(frames) = 1
    /\ policy' = [policy EXCEPT ![Loaded] = heap[Loaded].policy]
    /\ phase' = "over" /\ frames' = <<>> /\ ret' = "loaded"
    /\ UNCHANGED <<heap, file, damage, pos>>

\* The client lets go of what it has loaded, and goes on.
Discard ==
    /\ phase = "over"
    /\ heap' = Settled([heap EXCEPT ![Loaded] = EmptyRoot], {})
    /\ policy' = [policy EXCEPT ![Loaded] = "ThrowException"]
    /\ file' = <<>> /\ damage' = "none" /\ phase' = "edit" /\ pos' = 1 /\ ret' = "none"
    /\ UNCHANGED frames

-----------------------------------------------------------------------------
Edit ==
    \/ \E t \in Addresses, p \in UsedPolicies :
          \/ \E name \in AnyName, v \in Vals, kind \in UsedKinds \ ContainerKinds :
                AddNew(t, kind, name, v, p)
          \/ \E name \in AnyName, kind \in UsedKinds \cap ContainerKinds :
                AddNew(t, kind, name, NoVal, p)
    \/ \E t \in Addresses, k \in 1..MaxKids : RemoveAtIndex(t, k)
    \/ \E x \in Ids : \/ \E name \in AnyName : Rename(x, name)
                      \/ \E v \in Vals : Assign(x, v)
    \/ \E p \in UsedPolicies : OnExistingAction(p)

Damage ==
    \/ \E n \in DOMAIN file : Truncate(n - 1)
    \/ Extend
    \/ \E n \in DOMAIN file : \E is \in Instead(file[n].of) : Alter(n, is)

LoadStep ==
    ReadRoot \/ ReadLeaf \/ OpenContainer \/ CloseContainer \/ RefuseItem \/ EndLoad

Next == Edit \/ Save \/ Damage \/ StartLoad \/ LoadStep \/ Discard

Spec == Init /\ [][Next]_vars
-----------------------------------------------------------------------------
(* Properties *)

Fields == {"magic", "version", "policy", "type", "name", "container", "count", "payload",
           "part", "junk"}

\* Every variable has its type; the activations of a load fill containers of
\* their own, the outermost the root, which are alive.
TypeOK ==
    /\ heap \in [Addresses -> Item \cup {Null}]
    /\ policy \in [Configs -> AnyPolicy]
    /\ \A c \in Configs \ {Loaded} : policy[c] \in Policies
    /\ \A k \in DOMAIN file : file[k].of \in Fields
    /\ damage \in {"none", "cut", "longer", "altered"}
    /\ phase \in {"edit", "saved", "load", "over"}
    /\ pos \in 1..(Len(file) + 1)
    /\ ret \in {"none", "loaded", "DeserializeError"}
    /\ frames # <<>> => phase = "load" /\ frames[1].at = Loaded
    /\ \A j, k \in DOMAIN frames : frames[j].at = frames[k].at => j = k
    /\ \A k \in DOMAIN frames : frames[k].left \in Nat /\ IsContainer(heap, frames[k].at)
    /\ \A x \in Addresses : Kids(heap, x) \cap Free = {}

\* A file that was cut short, wherever, is refused, and nothing of it remains:
\* every field is needed.
CutIsRefused ==
    phase = "over" /\ damage = "cut" =>
        ret = "DeserializeError" /\ Ids \ Free = Reach(heap, Kids(heap, Source))

\* What is being loaded and what has been loaded, from whatever file: no two
\* items of a group share a name, no list holds a value twice, every item is
\* named as its container asks.  The root is the exception where the file gave it
\* a policy that is none: its items are named as a group asks, but may share names.
LoadKeepsUnique ==
    /\ \A x \in Reach(heap, Kids(heap, Loaded) \cup Locals(frames)) :
          UniqueNamesIn(heap, x) /\ DistinctValuesIn(heap, x)
    /\ heap[Loaded].policy \in Policies => UniqueNamesIn(heap, Loaded)
    /\ \A k \in Keyed(heap, Loaded) : heap[heap[Loaded].kids[k]].name \in Names

\* A loaded document has no two items of a name in its root: the policy that is
\* read with it says which of the two is kept, or that neither is (reader_v1.hxx:70,
\* typedefs.hxx:53).  Any number is taken for the policy, and Add goes by none.
LoadedNamesUnique ==
    phase = "over" /\ ret = "loaded" => UniqueNamesIn(heap, Loaded)
=============================================================================
