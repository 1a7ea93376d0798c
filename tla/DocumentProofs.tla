--------------------------- MODULE DocumentProofs ---------------------------
(***************************************************************************)
(* Proofs about Document: type correctness, that nothing which is still     *)
(* referenced is destroyed, and that the names of a group and the values of *)
(* a list stay unique.                                                      *)
(***************************************************************************)
EXTENDS Document, ItemsProofs

(* Type correctness and memory safety, together inductive *)

Sound ==
    /\ WellTyped(heap) /\ Closed(heap)
    /\ policy \in [Configs -> Policies]
    /\ hand \in Ids \cup {Null} /\ (hand # Null => heap[hand] # Null)
    /\ ret \in Answers
    /\ import \in Imports
    /\ mutated \subseteq Live

\* A call that builds a sound heap leaves a sound state.
LEMMA CommitSound ==
    ASSUME NEW h, WellTyped(h), Closed(h),
           NEW p \in Ids \cup {Null}, p # Null => h[p] # Null,
           NEW touched \in SUBSET Addresses, Commit(h, p, touched),
           policy' \in [Configs -> Policies], ret' \in Answers, import' \in Imports
    PROVE  Sound'
<1> DEFINE held == {p} \ {Null}
<1>1. /\ WellTyped(heap') /\ Closed(heap')
      /\ p # Null => heap'[p] # Null
  <2>1. held \in SUBSET Ids /\ \A q \in held : h[q] # Null
    OBVIOUS
  <2>2. heap' = Settled(h, held) /\ (p # Null => p \in held)
    BY DEF Commit
  <2> HIDE DEF held
  <2>3. QED
    BY <2>1, <2>2, SettledKeeps
<1>2. hand' = p /\ mutated' = {t \in touched : heap'[t] # Null}
  BY DEF Commit
<1>3. mutated' \subseteq Live'
  BY <1>2 DEF Live
<1>4. QED
  BY <1>1, <1>2, <1>3 DEF Sound, WellTyped, Closed, Kids, Live

\* Answering without touching the heap.
LEMMA AnswerSound ==
    ASSUME Sound, UNCHANGED <<heap, hand, mutated>>,
           policy' \in [Configs -> Policies], ret' \in Answers, import' \in Imports
    PROVE  Sound'
BY DEF Sound, WellTyped, Closed, Kids, Live

\* The position of a path's segment, if it is there.
LEMMA FindFound ==
    ASSUME NEW h, NEW t, NEW seg \in Segments, NEW S, h[t].kids \in Seq(S)
    PROVE  Find(h, t, seg) \in 0..Len(h[t].kids)
<1>1. Len(h[t].kids) \in Nat
  BY LenProperties
<1>2. CASE \E i \in 0..MaxIndex : seg = Indexed(i)
  <2>1. seg.by = "index" /\ seg.at \in Nat
    BY <1>2, BoundsAssumption DEF Indexed
  <2>2. QED
    BY <1>1, <2>1 DEF Find
<1>3. CASE \E n \in Names \cup OddNames : seg = Named(n)
  <2> DEFINE I == {k \in 1..Len(h[t].kids) : h[h[t].kids[k]].name = seg.at}
  <2>1. Find(h, t, seg) = IF I # {} THEN CHOOSE m \in I : \A n \in I : m <= n ELSE 0
    BY <1>3 DEF Find, Named, SelectInSeq, Min
  <2>2. I # {} => \E m \in I : \A n \in I : m <= n
    <3>1. I \in SUBSET Nat
      OBVIOUS
    <3>2. QED
      BY <3>1, LeastElement
  <2>3. CASE I = {}
    BY <1>1, <2>1, <2>3
  <2>4. CASE I # {}
    <3>1. Find(h, t, seg) \in I
      BY <2>1, <2>2, <2>4
    <3>2. QED
      BY <1>1, <3>1
  <2>5. QED
    BY <2>3, <2>4
<1>4. QED
  BY <1>2, <1>3 DEF Segments

\* A live container is an address of the heap.
LEMMA TargetSound ==
    ASSUME NEW t \in Targets, Sound
    PROVE  /\ t \in Addresses /\ heap[t] # Null /\ IsContainer(heap, t)
           /\ heap[t].kids \in Seq(Ids)
           /\ \A k \in 1..Len(heap[t].kids) : heap[heap[t].kids[k]] # Null
<1>1. t \in Addresses /\ heap[t] # Null /\ IsContainer(heap, t)
  BY DEF Targets, Live
<1>2. /\ heap[t].kids \in Seq(Ids)
      /\ Kids(heap, t) = {heap[t].kids[k] : k \in 1..Len(heap[t].kids)}
      /\ Kids(heap, t) \subseteq Ids
  BY <1>1, ItemFields DEF Sound
<1>3. QED
  BY <1>1, <1>2 DEF Sound, Closed, Addresses

\* What AddCopy, AddPointer and ImportItem put to Add is a sound heap with the
\* item at x, and so is what comes out.
LEMMA CloneAndAddSound ==
    ASSUME Sound, NEW t \in Targets, NEW x \in Ids \cap Free,
           NEW y \in Addresses, heap[y] # Null, NEW p \in Policies
    PROVE  LET r == AddTo([heap EXCEPT ![x] = heap[y]], t, x, p)
           IN  /\ r.out \in Outcomes /\ r.item \in Ids \cup {Null}
               /\ WellTyped(r.heap) /\ Closed(r.heap)
               /\ \A z \in Addresses : heap[z] # Null => r.heap[z] # Null
<1> DEFINE h == [heap EXCEPT ![x] = heap[y]]
<1>1. x \in Addresses /\ x \in Ids /\ x \notin Configs /\ heap[x] = Null
  BY AddressesAssumption DEF Addresses, Free, Live
<1>2. /\ WellTyped(h) /\ Closed(h) /\ h[x] = heap[y]
      /\ \A z \in Addresses \ {x} : h[z] = heap[z]
  <2>1. Puts(heap, x, heap[y], h)
    BY DEF Puts
  <2> HIDE DEF h
  <2>2. QED
    BY <1>1, <2>1, CopySound DEF Sound
<1>3. t \in Addresses /\ IsContainer(heap, t) /\ heap[t] # Null
  BY TargetSound
<1> HIDE DEF h
<1>4. IsContainer(h, t)
  BY <1>1, <1>2, <1>3 DEF IsContainer, WellTyped
<1>5. h[x] # Null
  BY <1>2
<1>6. /\ AddTo(h, t, x, p).out \in AddOutcomes
      /\ AddTo(h, t, x, p).item \in Ids \cup {Null}
      /\ WellTyped(AddTo(h, t, x, p).heap) /\ Closed(AddTo(h, t, x, p).heap)
      /\ \A z \in Addresses : h[z] # Null => AddTo(h, t, x, p).heap[z] # Null
  BY <1>1, <1>2, <1>3, <1>4, <1>5, AddToSound DEF AnyPolicy
<1>7. \A z \in Addresses : heap[z] # Null => h[z] # Null
  BY <1>1, <1>2
<1>8. QED
  BY <1>6, <1>7 DEF h, Outcomes

\* Add(const Base&).
LEMMA AddCopySound ==
    ASSUME Sound, NEW t, NEW p \in Policies, NEW x \in Ids, AddCopy(t, p, x)
    PROVE  Sound'
<1> DEFINE r == AddTo([heap EXCEPT ![x] = heap[hand]], t, x, p)
           touched == Passed(mutated, hand, x)
<1>1. /\ hand \in Ids /\ hand \in Addresses /\ heap[hand] # Null
      /\ t \in Targets /\ x \in Ids \cap Free
  BY DEF AddCopy, Sound, Addresses
<1>2. /\ r.out \in Outcomes /\ r.item \in Ids \cup {Null}
      /\ WellTyped(r.heap) /\ Closed(r.heap)
      /\ r.heap[hand] # Null
  BY <1>1, CloneAndAddSound
<1>3. /\ Commit(r.heap, hand, touched)
      /\ ret' = [out |-> r.out, item |-> r.item]
      /\ policy' = policy /\ import' = import
  BY DEF AddCopy, Answer
<1>4. touched \in SUBSET Addresses
  BY <1>1 DEF Sound, Live, Addresses, Passed
<1> HIDE DEF r, touched
<1>5. /\ policy' \in [Configs -> Policies] /\ ret' \in Answers /\ import' \in Imports
  BY <1>2, <1>3 DEF Sound, Answers
<1>6. QED
  BY <1>1, <1>2, <1>3, <1>4, <1>5, CommitSound

\* One iteration of operator<<(const Config&).
LEMMA ImportItemSound ==
    ASSUME Sound, NEW x \in Ids, ImportItem(x)
    PROVE  Sound'
<1>0. import \in [src: Configs, dst: Configs, next: Nat \ {0}]
  BY DEF Sound, Imports, ImportItem, Idle
<1>1. import.src \in Configs /\ import.dst \in Configs /\ import.next \in Nat \ {0}
  BY <1>0
<1>2. import.src \in Targets /\ import.dst \in Targets
  BY <1>1 DEF Sound, WellTyped, Targets, Live, IsContainer, ContainerKinds, Addresses
<1> DEFINE y == heap[import.src].kids[import.next]
           p == policy[import.dst]
           r == AddTo([heap EXCEPT ![x] = heap[y]], import.dst, x, p)
           touched == Passed(mutated, y, x)
<1>3. /\ x \in Ids \cap Free
      /\ Commit(r.heap, hand, touched)
      /\ ret' = [out |-> r.out, item |-> r.item]
      /\ import' = IF r.out \in Errors THEN NoImport ELSE [import EXCEPT !.next = @ + 1]
      /\ policy' = policy /\ import.next <= Len(heap[import.src].kids)
  BY DEF ImportItem, Answer
<1>4. y \in Addresses /\ heap[y] # Null
  <2>1. /\ heap[import.src].kids \in Seq(Ids)
        /\ \A k \in 1..Len(heap[import.src].kids) : heap[heap[import.src].kids[k]] # Null
    BY <1>2, TargetSound
  <2>2. import.next \in 1..Len(heap[import.src].kids)
    BY <1>1, <1>3, <2>1, LenProperties, SMTT(30)
  <2>3. QED
    BY <2>1, <2>2, ElementOfSeq DEF Addresses
<1>5. p \in Policies
  BY <1>1 DEF Sound
<1>6. touched \in SUBSET Addresses
  BY DEF Sound, Live, Addresses, Passed
<1> HIDE DEF y, p
<1>7. /\ r.out \in Outcomes /\ r.item \in Ids \cup {Null}
      /\ WellTyped(r.heap) /\ Closed(r.heap)
      /\ \A z \in Addresses : heap[z] # Null => r.heap[z] # Null
  BY <1>2, <1>3, <1>4, <1>5, CloneAndAddSound
<1> HIDE DEF r, touched
<1>8. hand # Null => r.heap[hand] # Null
  BY <1>7 DEF Sound, Addresses
<1>9. /\ policy' \in [Configs -> Policies] /\ ret' \in Answers /\ import' \in Imports
  <2>1. [import EXCEPT !.next = @ + 1] \in Imports
    BY <1>0 DEF Imports
  <2>2. NoImport \in Imports
    BY DEF Imports
  <2>3. QED
    BY <1>3, <1>7, <2>1, <2>2 DEF Sound, Answers
<1>10. QED
  BY <1>3, <1>6, <1>7, <1>8, <1>9, CommitSound DEF Sound

\* Add(PointerType, policy).
LEMMA AddPointerSound ==
    ASSUME Sound, NEW t, NEW p \in Policies, AddPointer(t, p)
    PROVE  Sound'
<1> DEFINE r == AddTo(heap, t, hand, p)
<1>1. /\ hand \in Ids /\ hand \in Addresses /\ heap[hand] # Null /\ t \in Targets
  BY DEF AddPointer, Sound, Addresses
<1>2. t \in Addresses /\ IsContainer(heap, t)
  BY <1>1, TargetSound
<1>3. /\ r.out \in Outcomes /\ r.item \in Ids \cup {Null}
      /\ WellTyped(r.heap) /\ Closed(r.heap)
      /\ \A z \in Addresses : heap[z] # Null => r.heap[z] # Null
  BY <1>1, <1>2, AddToSound DEF Sound, Outcomes, AnyPolicy
<1>4. /\ Commit(r.heap, hand, mutated)
      /\ ret' = [out |-> r.out, item |-> r.item]
      /\ policy' = policy /\ import' = import
  BY DEF AddPointer, Answer
<1> HIDE DEF r
<1>5. /\ policy' \in [Configs -> Policies] /\ ret' \in Answers /\ import' \in Imports
      /\ mutated \in SUBSET Addresses
  BY <1>3, <1>4 DEF Sound, Answers, Live
<1>6. QED
  BY <1>1, <1>3, <1>4, <1>5, CommitSound

\* Add(Base&&).
LEMMA AddMoveSound ==
    ASSUME Sound, NEW t, NEW p \in Policies, NEW x \in Ids, AddMove(t, p, x)
    PROVE  Sound'
<1> DEFINE copied  == [heap EXCEPT ![x] = heap[hand]]
           moved   == [copied EXCEPT ![hand] = MovedFrom(heap[hand])]
           r       == AddTo(moved, t, x, p)
           touched == Passed(mutated \cup Holders(hand), hand, x) \ {hand}
<1>1. /\ hand \in Ids /\ hand \in Addresses /\ heap[hand] # Null
      /\ t \in Targets /\ x \in Ids /\ x \in Addresses /\ heap[x] = Null
  BY DEF AddMove, Sound, Addresses, Free, Live
<1>2. /\ Commit(r.heap, hand, touched)
      /\ ret' = [out |-> r.out, item |-> r.item]
      /\ policy' = policy /\ import' = import
  BY DEF AddMove, Answer
<1>3. x \notin Configs /\ x # hand
  BY <1>1, AddressesAssumption
<1>4. /\ WellTyped(copied) /\ Closed(copied) /\ copied[x] = heap[hand]
      /\ \A z \in Addresses \ {x} : copied[z] = heap[z]
  <2>1. Puts(heap, x, heap[hand], copied)
    BY DEF Puts
  <2> HIDE DEF copied
  <2>2. QED
    BY <1>1, <1>3, <2>1, CopySound DEF Sound
<1> HIDE DEF copied
<1>5. copied[hand] = heap[hand]
  BY <1>1, <1>3, <1>4
<1>6. /\ WellTyped(moved) /\ Closed(moved)
      /\ moved[hand] = MovedFrom(heap[hand]) /\ MovedFrom(heap[hand]) \in Item
      /\ MovedFrom(heap[hand]).kind = heap[hand].kind
      /\ \A z \in Addresses \ {hand} : moved[z] = copied[z]
  <2>1. Puts(copied, hand, MovedFrom(heap[hand]), moved)
    BY DEF Puts
  <2> HIDE DEF moved
  <2>2. copied[hand] # Null /\ hand \in Addresses
    BY <1>1, <1>5
  <2>3. QED
    BY <1>4, <1>5, <2>1, <2>2, MovedFromSound
<1>7. t \in Addresses /\ IsContainer(heap, t) /\ heap[t] # Null
  BY <1>1, TargetSound
<1> HIDE DEF moved
<1>8. moved[hand] # Null /\ moved[x] # Null
  BY <1>1, <1>3, <1>4, <1>6, NullAssumption
<1>9. IsContainer(moved, t)
  <2>1. moved[t] # Null /\ moved[t].kind = heap[t].kind
    BY <1>1, <1>4, <1>6, <1>7, <1>8
  <2>2. t \in DOMAIN moved
    BY <1>6, <1>7 DEF WellTyped
  <2>3. QED
    BY <1>7, <2>1, <2>2 DEF IsContainer
<1>10. /\ r.out \in Outcomes /\ r.item \in Ids \cup {Null}
       /\ WellTyped(r.heap) /\ Closed(r.heap)
       /\ \A z \in Addresses : moved[z] # Null => r.heap[z] # Null
  BY <1>1, <1>6, <1>7, <1>8, <1>9, AddToSound DEF Outcomes, AnyPolicy
<1> HIDE DEF r
<1>11. r.heap[hand] # Null
  BY <1>1, <1>8, <1>10
<1>12. touched \in SUBSET Addresses
  BY <1>1 DEF Sound, Live, Holders, Passed
<1> HIDE DEF touched
<1>13. /\ policy' \in [Configs -> Policies] /\ ret' \in Answers /\ import' \in Imports
  BY <1>2, <1>10 DEF Sound, Answers
<1>14. QED
  BY <1>1, <1>2, <1>10, <1>11, <1>12, <1>13, CommitSound

\* The rest of a call that replaces the heap by g and answers "done" or "removed".
LEMMA CallSound ==
    ASSUME Sound, NEW g, WellTyped(g), Closed(g),
           \A y \in Addresses : heap[y] # Null => g[y] # Null,
           NEW touched \in SUBSET Addresses, Commit(g, hand, touched),
           NEW out \in {"done", "removed"}, Answer(out, Null),
           policy' \in [Configs -> Policies], import' = import
    PROVE  Sound'
<1>1. hand \in Ids \cup {Null} /\ (hand # Null => g[hand] # Null)
  BY DEF Sound, Addresses
<1>2. ret' \in Answers /\ import' \in Imports
  BY DEF Sound, Answer, Answers, Outcomes
<1>3. QED
  BY <1>1, <1>2, CommitSound

\* container.Remove(index), and the last step of Remove(path).
LEMMA RemoveSound ==
    ASSUME Sound, NEW t \in Targets, NEW k \in 1..Len(heap[t].kids),
           Commit([heap EXCEPT ![t].kids = RemoveAt(@, k)], hand, mutated),
           Answer("removed", Null), UNCHANGED <<policy, import>>
    PROVE  Sound'
<1> DEFINE g == [heap EXCEPT ![t].kids = RemoveAt(@, k)]
<1>1. PutsKids(heap, t, RemoveAt(heap[t].kids, k), g)
  BY DEF PutsKids
<1>2. t \in Addresses /\ IsContainer(heap, t)
  BY TargetSound
<1>3. Commit(g, hand, mutated)
  OBVIOUS
<1> HIDE DEF g
<1>4. WellTyped(heap) /\ Closed(heap)
  BY DEF Sound
<1>5. /\ WellTyped(g) /\ Closed(g)
      /\ \A y \in Addresses : heap[y] # Null => g[y] # Null
  BY <1>1, <1>2, <1>4, EraseSound
<1>6. mutated \in SUBSET Addresses /\ policy' \in [Configs -> Policies] /\ import' = import
  BY DEF Sound, Live
<1>7. QED
  BY <1>3, <1>5, <1>6, CallSound

\* The last segment of a path that is not empty.
LEMMA LastSegment ==
    ASSUME NEW path \in Paths, path # <<>>
    PROVE  Last(path) \in Segments
<1>1. PICK n \in 0..MaxPath : path \in [1..n -> Segments]
  BY DEF Paths
<1>2. n \in Nat
  BY <1>1, BoundsAssumption
<1>3. path \in Seq(Segments) /\ Len(path) = n
  BY <1>1, <1>2
<1>4. Last(path) = path[n] /\ n \in 1..n
  BY <1>2, <1>3, EmptySeq DEF Last
<1>5. QED
  BY <1>1, <1>4

\* Remove(path), whatever the path leads to.
LEMMA RemovePathSound ==
    ASSUME Sound, NEW t \in Addresses, NEW path \in Paths, RemovePath(t, path)
    PROVE  Sound'
<1>1. ASSUME NEW why \in LookUpErrors \cup {"InvalidPath"}, Answer(why, Null), UNCHANGED <<heap, hand, mutated>>
      PROVE  Sound'
  <2>1. ret' \in Answers /\ policy' \in [Configs -> Policies] /\ import' \in Imports
    BY <1>1 DEF Answer, Answers, Outcomes, Errors, RemovePath, Sound
  <2>2. QED
    BY <1>1, <2>1, AnswerSound
<1>2. CASE path = <<>> /\ Answer("InvalidPath", Null) /\ UNCHANGED <<heap, hand, mutated>>
  BY <1>1, <1>2
<1>3. CASE path # <<>>
  <2> DEFINE parent == LookUp(heap, t, Front(path))
             found  == Step(heap, parent, Last(path))
             k      == Find(heap, parent.at, Last(path))
  <2>1. Last(path) \in Segments
    BY <1>3, LastSegment
  <2> HIDE DEF parent
  <2>2. CASE /\ found.err = "none" /\ parent.at \in Targets
             /\ Commit([heap EXCEPT ![parent.at].kids = RemoveAt(@, k)], hand, mutated)
             /\ Answer("removed", Null)
    <3>1. parent.err = "none" /\ IsContainer(heap, parent.at)
      BY <2>2 DEF Step, Targets
    <3>2. k # 0
      BY <2>2, <3>1 DEF Step, NotFound
    <3>3. heap[parent.at].kids \in Seq(Ids)
      BY <2>2, TargetSound
    <3>4. k \in 0..Len(heap[parent.at].kids)
      BY <2>1, <3>3, FindFound
    <3>5. Len(heap[parent.at].kids) \in Nat
      BY <3>3, LenProperties
    <3> HIDE DEF k
    <3>6. k \in 1..Len(heap[parent.at].kids)
      BY <3>2, <3>4, <3>5
    <3>7. policy' = policy /\ import' = import
      BY DEF RemovePath
    <3>8. QED
      BY <2>2, <3>6, <3>7, RemoveSound
  <2>3. CASE \E why \in LookUpErrors : Answer(why, Null) /\ UNCHANGED <<heap, hand, mutated>>
    BY <1>1, <2>3
  <2>4. QED
    BY <1>3, <2>2, <2>3 DEF RemovePath, parent
<1>4. QED
  BY <1>2, <1>3 DEF RemovePath

\* Writing the item at x, wherever it is held.
LEMMA WriteSound ==
    ASSUME Sound, NEW x \in Addresses, heap[x] # Null, NEW item \in Item,
           item.kind = heap[x].kind, item.kids = heap[x].kids \/ item.kids = <<>>,
           NEW g, Puts(heap, x, item, g)
    PROVE  /\ WellTyped(g) /\ Closed(g)
           /\ \A y \in Addresses : heap[y] # Null => g[y] # Null
<1>1. WellTyped(heap) /\ Closed(heap)
  BY DEF Sound
<1>2. /\ x \in Configs => item.kind = "Group"
      /\ item.kids # <<>> => item.kind \in ContainerKinds
  BY DEF Sound, WellTyped
<1>3. \A k \in 1..Len(item.kids) : heap[item.kids[k]] # Null
  <2>1. \A k \in 1..Len(heap[x].kids) :
           heap[x].kids[k] \in Kids(heap, x) /\ heap[x].kids[k] \in Ids
    BY <1>1, ItemFields
  <2>2. CASE item.kids = heap[x].kids
    BY <1>1, <2>1, <2>2 DEF Closed, Addresses
  <2>3. CASE item.kids = <<>>
    BY <2>3, EmptySeq
  <2>4. QED
    BY <2>2, <2>3
<1>4. /\ WellTyped(g) /\ Closed(g) /\ g[x] # Null
      /\ \A y \in Addresses \ {x} : g[y] = heap[y]
  BY <1>1, <1>2, <1>3, PutItem
<1>5. QED
  BY <1>4

\* Constructing, taking and dropping an item of the client's own.
LEMMA OwnSound ==
    ASSUME Sound, Own
    PROVE  Sound'
<1>1. WellTyped(heap) /\ Closed(heap) /\ mutated \in SUBSET Addresses
  BY DEF Sound, Live
<1>2. Answer("done", Null) => ret' \in Answers
  BY DEF Answer, Answers, Outcomes
<1>3. ASSUME NEW x \in Ids, NEW kind \in UsedKinds, NEW name \in AnyName,
             NEW val \in Vals \cup {NoVal}, Make(x, kind, name, val)
      PROVE  Sound'
  <2> DEFINE item == NewItem(kind, name, val)
             g    == [heap EXCEPT ![x] = item]
  <2>1. /\ Commit(g, x, mutated) /\ policy' = policy /\ import' = import
        /\ Answer("done", Null)
    BY <1>3 DEF Make
  <2>2. item \in Item /\ item.kids = <<>>
    BY BoundsAssumption, EmptySeq DEF NewItem, Item, AnyPolicy, Policies
  <2>3. Puts(heap, x, item, g)
    BY DEF Puts
  <2>4. x \in Addresses /\ x \notin Configs
    BY AddressesAssumption DEF Addresses
  <2> HIDE DEF item, g
  <2>5. \A k \in 1..Len(item.kids) : heap[item.kids[k]] # Null
    BY <2>2, EmptySeq
  <2>6. WellTyped(g) /\ Closed(g) /\ g[x] # Null
    BY <1>1, <2>2, <2>3, <2>4, <2>5, PutItem
  <2>7. QED
    BY <1>1, <1>2, <2>1, <2>6, CommitSound DEF Sound
<1>4. ASSUME NEW x \in Ids, Take(x)
      PROVE  Sound'
  <2>1. /\ Commit(heap, x, mutated) /\ policy' = policy /\ import' = import
        /\ Answer("done", Null) /\ heap[x] # Null
    BY <1>4 DEF Take, Live
  <2>2. QED
    BY <1>1, <1>2, <2>1, CommitSound DEF Sound
<1>5. CASE Release
  <2>1. /\ Commit(heap, Null, mutated) /\ policy' = policy /\ import' = import
        /\ Answer("done", Null)
    BY <1>5 DEF Release
  <2>2. QED
    BY <1>1, <1>2, <2>1, CommitSound DEF Sound
<1>6. QED
  BY <1>3, <1>4, <1>5 DEF Own

\* Remove by index, Remove by path and Clear.
LEMMA RemoveItemSound ==
    ASSUME Sound, RemoveItem
    PROVE  Sound'
<1>1. ASSUME NEW t \in Addresses, NEW i \in 0..MaxKids, RemoveIndex(t, i)
      PROVE  Sound'
  <2>1. t \in Targets /\ UNCHANGED <<policy, import>>
    BY <1>1 DEF RemoveIndex
  <2>2. CASE i < Len(heap[t].kids)
    <3>1. Len(heap[t].kids) \in Nat
      BY <2>1, TargetSound, LenProperties
    <3>2. i + 1 \in 1..Len(heap[t].kids)
      BY <2>2, <3>1, BoundsAssumption
    <3>3. /\ Commit([heap EXCEPT ![t].kids = RemoveAt(@, i + 1)], hand, mutated)
          /\ Answer("removed", Null)
      BY <1>1, <2>2 DEF RemoveIndex
    <3>4. QED
      BY <2>1, <3>2, <3>3, RemoveSound
  <2>3. CASE ~(i < Len(heap[t].kids))
    <3>1. Answer("OutOfBounds", Null) /\ UNCHANGED <<heap, hand, mutated>>
      BY <1>1, <2>3 DEF RemoveIndex
    <3>2. ret' \in Answers /\ policy' \in [Configs -> Policies] /\ import' \in Imports
      BY <2>1, <3>1 DEF Answer, Answers, Outcomes, Errors, LookUpErrors, Sound
    <3>3. QED
      BY <3>1, <3>2, AnswerSound
  <2>4. QED
    BY <2>2, <2>3
<1>2. ASSUME NEW t \in Addresses, Clear(t)
      PROVE  Sound'
  <2> DEFINE none == <<>>
             g    == [heap EXCEPT ![t].kids = none]
  <2>1. /\ Commit(g, hand, mutated) /\ policy' = policy /\ import' = import
        /\ Answer("done", Null) /\ t \in Targets
    BY <1>2 DEF Clear
  <2>2. PutsKids(heap, t, none, g)
    BY DEF PutsKids
  <2>3. IsContainer(heap, t) /\ WellTyped(heap) /\ Closed(heap) /\ none \in Seq(Ids)
    BY <2>1, TargetSound, EmptySeq DEF Sound
  <2>4. \A k \in 1..Len(none) : heap[none[k]] # Null
    BY EmptySeq
  <2> HIDE DEF g, none
  <2>5. /\ WellTyped(g) /\ Closed(g) /\ g[t] # Null
        /\ \A y \in Addresses \ {t} : g[y] = heap[y]
    BY <2>2, <2>3, <2>4, PutKids
  <2>6. mutated \in SUBSET Addresses /\ policy' \in [Configs -> Policies]
    BY <2>1 DEF Sound, Live
  <2>7. QED
    BY <2>1, <2>5, <2>6, CallSound
<1>3. QED
  BY <1>1, <1>2, RemovePathSound DEF RemoveItem

\* Name(), Value::operator=, Text(), whole assignment and SetOnExistingAction.
LEMMA MutateSound ==
    ASSUME Sound, Mutate
    PROVE  Sound'
<1>1. mutated \in SUBSET Addresses /\ \A x : Holders(x) \in SUBSET Addresses
  BY DEF Sound, Live, Holders
<1>2. PICK x \in Ids : \/ \E name \in AnyName : Rename(x, name)
                       \/ \E v \in Vals : SetValue(x, v) \/ SetText(x, v)
                       \/ Assign(x) \/ AssignMove(x)
                       \/ \E p \in UsedPolicies : SetOnExistingAction(x, p)
  BY DEF Mutate
<1>3. x \in Addresses /\ heap[x] # Null
  BY <1>2 DEF Rename, SetValue, SetText, Assign, AssignMove, SetOnExistingAction, Targets,
                 Live
<1>4. heap[x] \in Item
  BY <1>3, ItemFields DEF Sound
<1>5. ASSUME NEW item \in Item, item.kind = heap[x].kind, item.kids = heap[x].kids,
             NEW touched \in SUBSET Addresses,
             NEW g, Puts(heap, x, item, g), Commit(g, hand, touched),
             Answer("done", Null), policy' = policy, import' = import
      PROVE  Sound'
  <2>1. /\ WellTyped(g) /\ Closed(g)
        /\ \A y \in Addresses : heap[y] # Null => g[y] # Null
    BY <1>3, <1>5, WriteSound
  <2>2. policy' \in [Configs -> Policies]
    BY <1>5 DEF Sound
  <2>3. QED
    BY <1>5, <2>1, <2>2, CallSound
<1>6. ASSUME NEW name \in AnyName, Rename(x, name)
      PROVE  Sound'
  <2> DEFINE item == [heap[x] EXCEPT !.name = name]
             g    == [heap EXCEPT ![x].name = name]
  <2>1. item \in Item /\ item.kind = heap[x].kind /\ item.kids = heap[x].kids
    BY <1>4 DEF Item
  <2>2. Puts(heap, x, item, g)
    BY DEF Puts
  <2>3. /\ Commit(g, hand, mutated \cup Holders(x)) /\ Answer("done", Null)
        /\ policy' = policy /\ import' = import
    BY <1>6 DEF Rename
  <2> HIDE DEF item, g
  <2>4. mutated \cup Holders(x) \in SUBSET Addresses
    BY <1>1
  <2>5. QED
    BY <1>5, <2>1, <2>2, <2>3, <2>4
<1>7. ASSUME NEW v \in Vals, SetValue(x, v)
      PROVE  Sound'
  <2> DEFINE item == [heap[x] EXCEPT !.val = v]
             g    == [heap EXCEPT ![x].val = v]
  <2>1. item \in Item /\ item.kind = heap[x].kind /\ item.kids = heap[x].kids
    BY <1>4 DEF Item
  <2>2. Puts(heap, x, item, g)
    BY DEF Puts
  <2>3. CASE KindOf[heap[x].val] = KindOf[v]
    <3>1. /\ Commit(g, hand, mutated \cup Holders(x)) /\ Answer("done", Null)
          /\ policy' = policy /\ import' = import
      BY <1>7, <2>3 DEF SetValue
    <3> HIDE DEF item, g
    <3>2. mutated \cup Holders(x) \in SUBSET Addresses
      BY <1>1
    <3>3. QED
      BY <1>5, <2>1, <2>2, <3>1, <3>2
  <2>4. CASE KindOf[heap[x].val] # KindOf[v]
    <3>1. /\ Answer("WrongType", Null) /\ UNCHANGED <<heap, hand, mutated>>
          /\ policy' = policy /\ import' = import
      BY <1>7, <2>4 DEF SetValue
    <3>2. ret' \in Answers /\ policy' \in [Configs -> Policies] /\ import' \in Imports
      BY <3>1 DEF Answer, Answers, Outcomes, Errors, LookUpErrors, Sound
    <3>3. QED
      BY <3>1, <3>2, AnswerSound
  <2>5. QED
    BY <2>3, <2>4
<1>8. CASE Assign(x)
  <2> DEFINE touched == Passed(mutated \cup Holders(x), hand, x)
             g       == [heap EXCEPT ![x] = heap[hand]]
  <2>1. /\ hand \in Addresses /\ heap[hand] # Null /\ heap[x].kind = heap[hand].kind
        /\ policy' = policy /\ import' = import /\ Answer("done", Null)
        /\ Commit(g, hand, touched)
    BY <1>8 DEF Assign, Sound, Addresses
  <2>2. Puts(heap, x, heap[hand], g)
    BY DEF Puts
  <2>3. touched \in SUBSET Addresses /\ policy' \in [Configs -> Policies]
    BY <1>1, <1>3, <2>1 DEF Sound, Passed
  <2>4. WellTyped(heap) /\ Closed(heap) /\ (x \in Configs => heap[hand].kind = "Group")
    BY <2>1 DEF Sound, WellTyped
  <2> HIDE DEF g, touched
  <2>5. /\ WellTyped(g) /\ Closed(g) /\ g[x] # Null
        /\ \A z \in Addresses \ {x} : g[z] = heap[z]
    BY <1>3, <2>1, <2>2, <2>4, CopySound
  <2>6. QED
    BY <2>1, <2>3, <2>5, CallSound
<1>9. ASSUME NEW p \in UsedPolicies, SetOnExistingAction(x, p)
      PROVE  Sound'
  <2> DEFINE item == [heap[x] EXCEPT !.policy = p]
             g    == [heap EXCEPT ![x].policy = p]
  <2>1. item \in Item /\ item.kind = heap[x].kind /\ item.kids = heap[x].kids
    BY <1>4, BoundsAssumption DEF Item, AnyPolicy
  <2>2. Puts(heap, x, item, g)
    BY DEF Puts
  <2>3. /\ Commit(g, hand, mutated) /\ Answer("done", Null)
        /\ policy' = policy /\ import' = import
    BY <1>9 DEF SetOnExistingAction
  <2> HIDE DEF item, g
  <2>4. QED
    BY <1>1, <1>5, <2>1, <2>2, <2>3
<1>10. ASSUME NEW v \in Vals, SetText(x, v)
       PROVE  Sound'
  <2> DEFINE item == [heap[x] EXCEPT !.val = v]
             g    == [heap EXCEPT ![x].val = v]
  <2>1. item \in Item /\ item.kind = heap[x].kind /\ item.kids = heap[x].kids
    BY <1>4 DEF Item
  <2>2. Puts(heap, x, item, g)
    BY DEF Puts
  <2>3. /\ Commit(g, hand, mutated \cup Holders(x)) /\ Answer("done", Null)
        /\ policy' = policy /\ import' = import
    BY <1>10 DEF SetText
  <2> HIDE DEF item, g
  <2>4. mutated \cup Holders(x) \in SUBSET Addresses
    BY <1>1
  <2>5. QED
    BY <1>5, <2>1, <2>2, <2>3, <2>4
<1>11. CASE AssignMove(x)
  <2> DEFINE copied  == [heap EXCEPT ![x] = heap[hand]]
             g       == [copied EXCEPT ![hand] = MovedFrom(heap[hand])]
             touched == Passed(mutated \cup Holders(x) \cup Holders(hand), hand, x) \ {hand}
  <2>1. /\ hand \in Addresses /\ heap[hand] # Null /\ heap[x].kind = heap[hand].kind
        /\ policy' = policy /\ import' = import /\ Answer("done", Null)
        /\ Commit(g, hand, touched)
    BY <1>11 DEF AssignMove, Sound, Addresses
  <2>2. x # hand
    <3>1. WellTyped(heap) /\ {hand} \in SUBSET Ids /\ x \notin Reach(heap, {hand})
      BY <1>11 DEF AssignMove, NotUnder, Sound
    <3>2. {hand} \subseteq Reach(heap, {hand})
      BY <3>1, ReachClosed
    <3>3. QED
      BY <3>1, <3>2
  <2>3. Puts(heap, x, heap[hand], copied) /\ Puts(copied, hand, MovedFrom(heap[hand]), g)
    BY DEF Puts
  <2>4. touched \in SUBSET Addresses /\ policy' \in [Configs -> Policies]
    BY <1>1, <1>3, <2>1 DEF Sound, Passed
  <2>5. WellTyped(heap) /\ Closed(heap) /\ (x \in Configs => heap[hand].kind = "Group")
    BY <2>1 DEF Sound, WellTyped
  <2> HIDE DEF copied, g, touched
  <2>6. /\ WellTyped(copied) /\ Closed(copied) /\ copied[x] # Null
        /\ \A z \in Addresses \ {x} : copied[z] = heap[z]
    BY <1>3, <2>1, <2>3, <2>5, CopySound
  <2>7. copied[hand] = heap[hand] /\ copied[hand] # Null
    BY <2>1, <2>2, <2>6
  <2>8. /\ WellTyped(g) /\ Closed(g) /\ g[hand] # Null
        /\ \A z \in Addresses \ {hand} : g[z] = copied[z]
    BY <2>1, <2>3, <2>6, <2>7, MovedFromSound
  <2>9. \A y \in Addresses : heap[y] # Null => g[y] # Null
    BY <2>6, <2>8
  <2>10. QED
    BY <2>1, <2>4, <2>8, <2>9, CallSound
<1>12. QED
  BY <1>2, <1>6, <1>7, <1>8, <1>9, <1>10, <1>11

\* OnExistingAction, copies and moves of whole Configs, and entering the import.
LEMMA ConfigCallSound ==
    ASSUME Sound, ConfigCall
    PROVE  Sound'
<1>1. /\ WellTyped(heap) /\ Closed(heap) /\ mutated \in SUBSET Addresses
      /\ policy \in [Configs -> Policies] /\ Configs \subseteq Addresses
  BY DEF Sound, Live, Addresses
<1>2. \A c \in Configs : heap[c] # Null /\ heap[c].kind = "Group"
  BY <1>1 DEF WellTyped
<1>3. ASSUME NEW c \in Configs, NEW p \in UsedPolicies, OnExistingAction(c, p)
      PROVE  Sound'
  <2> DEFINE item == [heap[c] EXCEPT !.policy = p]
             g    == [heap EXCEPT ![c].policy = p]
  <2>1. c \in Addresses /\ heap[c] # Null /\ heap[c] \in Item
    BY <1>1, <1>2, ItemFields
  <2>2. p \in Policies
    BY BoundsAssumption
  <2>3. item \in Item /\ item.kind = heap[c].kind /\ item.kids = heap[c].kids
    BY <2>1, <2>2 DEF Item, AnyPolicy
  <2>4. Puts(heap, c, item, g)
    BY DEF Puts
  <2>5. /\ Commit(g, hand, mutated) /\ Answer("done", Null)
        /\ policy' = [policy EXCEPT ![c] = p] /\ import' = import
    BY <1>3 DEF OnExistingAction
  <2> HIDE DEF item, g
  <2>6. /\ WellTyped(g) /\ Closed(g)
        /\ \A y \in Addresses : heap[y] # Null => g[y] # Null
    BY <2>1, <2>3, <2>4, WriteSound
  <2>7. policy' \in [Configs -> Policies]
    BY <1>1, <2>2, <2>5
  <2>8. QED
    BY <1>1, <2>5, <2>6, <2>7, CallSound
<1>4. ASSUME NEW c \in Configs, NEW d \in Configs, CopyConfig(c, d)
      PROVE  Sound'
  <2> DEFINE g == [heap EXCEPT ![d] = heap[c]]
  <2>1. /\ Commit(g, hand, Passed(mutated, c, d)) /\ Answer("done", Null)
        /\ policy' = [policy EXCEPT ![d] = policy[c]] /\ import' = import
    BY <1>4 DEF CopyConfig
  <2>2. Puts(heap, d, heap[c], g)
    BY DEF Puts
  <2>3. Passed(mutated, c, d) \in SUBSET Addresses /\ policy' \in [Configs -> Policies]
    BY <1>1, <2>1 DEF Passed
  <2> HIDE DEF g
  <2>4. /\ WellTyped(g) /\ Closed(g) /\ g[d] # Null
        /\ \A z \in Addresses \ {d} : g[z] = heap[z]
    BY <1>1, <1>2, <2>2, CopySound
  <2>5. QED
    BY <2>1, <2>3, <2>4, CallSound
<1>5. ASSUME NEW c \in Configs, NEW d \in Configs, MoveConfig(c, d)
      PROVE  Sound'
  <2> DEFINE copied  == [heap EXCEPT ![d] = heap[c]]
             g       == [copied EXCEPT ![c] = MovedFrom(heap[c])]
             touched == Passed(mutated, c, d) \ {c}
  <2>1. /\ Commit(g, hand, touched) /\ Answer("done", Null) /\ c # d
        /\ policy' = [policy EXCEPT ![d] = policy[c]] /\ import' = import
    BY <1>5 DEF MoveConfig
  <2>2. Puts(heap, d, heap[c], copied) /\ Puts(copied, c, MovedFrom(heap[c]), g)
    BY DEF Puts
  <2>3. touched \in SUBSET Addresses /\ policy' \in [Configs -> Policies]
    BY <1>1, <2>1 DEF Passed
  <2> HIDE DEF copied, g, touched
  <2>4. /\ WellTyped(copied) /\ Closed(copied) /\ copied[d] # Null
        /\ \A z \in Addresses \ {d} : copied[z] = heap[z]
    BY <1>1, <1>2, <2>2, CopySound
  <2>5. copied[c] = heap[c] /\ copied[c] # Null /\ c \in Addresses
    BY <1>1, <1>2, <2>1, <2>4
  <2>6. /\ WellTyped(g) /\ Closed(g) /\ g[c] # Null
        /\ \A z \in Addresses \ {c} : g[z] = copied[z]
    BY <2>2, <2>4, <2>5, MovedFromSound
  <2>7. \A y \in Addresses : heap[y] # Null => g[y] # Null
    BY <2>4, <2>5, <2>6
  <2>8. QED
    BY <2>1, <2>3, <2>6, <2>7, CallSound
<1>6. ASSUME NEW c \in Configs, NEW d \in Configs, StartImport(c, d)
      PROVE  Sound'
  <2>1. /\ import' = [src |-> c, dst |-> d, next |-> 1]
        /\ UNCHANGED <<heap, policy, hand, ret, mutated>>
    BY <1>6 DEF StartImport
  <2>2. import' \in Imports /\ ret' \in Answers
    BY <2>1 DEF Imports, Sound
  <2>3. QED
    BY <1>1, <2>1, <2>2, AnswerSound
<1>7. QED
  BY <1>3, <1>4, <1>5, <1>6 DEF ConfigCall

THEOREM SoundInit == Init => Sound
<1> SUFFICES ASSUME Init
             PROVE  Sound
  OBVIOUS
<1> DEFINE root == NewItem("Group", NoName, NoVal)
<1>1. root \in Item /\ root.kind = "Group" /\ root.kids = <<>> /\ root # Null
  <2>1. <<>> \in Seq(Ids)
    BY EmptySeq
  <2>2. root \in Item /\ root.kind = "Group" /\ root.kids = <<>>
    BY <2>1 DEF NewItem, Item, Kinds, ContainerKinds, AnyName, AnyPolicy, Policies
  <2>3. QED
    BY <2>2, NullAssumption
<1> HIDE DEF root
<1>2. heap = [x \in Addresses |-> IF x \in Configs THEN root ELSE Null]
  BY DEF Init, root
<1>3. WellTyped(heap)
  <2>1. \A c \in Configs : heap[c] = root
    BY <1>2 DEF Addresses
  <2>2. \A x \in Addresses : heap[x] = root \/ heap[x] = Null
    BY <1>2
  <2>3. QED
    BY <1>1, <1>2, <2>1, <2>2 DEF WellTyped
<1>4. Closed(heap)
  <2>1. \A x \in Addresses : Kids(heap, x) = {}
    BY <1>1, <1>2, EmptySeq DEF Kids, ToSet
  <2>2. QED
    BY <2>1 DEF Closed
<1>5. QED
  BY <1>3, <1>4 DEF Init, Sound, NoAnswer, Answers, Outcomes, Imports, Policies

THEOREM SoundStep ==
    ASSUME Sound, [Next]_vars
    PROVE  Sound'
<1>1. CASE Return
  <2>1. ret' \in Answers /\ policy' \in [Configs -> Policies] /\ import' \in Imports
    BY <1>1 DEF Return, NoAnswer, Answers, Outcomes, Sound
  <2>2. QED
    BY <1>1, <2>1, AnswerSound DEF Return
<1>2. CASE Own
  BY <1>2, OwnSound
<1>3. CASE AddItem
  <2>1. UsedPolicies \subseteq Policies
    BY BoundsAssumption
  <2>2. QED
    BY <1>3, <2>1, AddCopySound, AddMoveSound, AddPointerSound DEF AddItem
<1>4. CASE RemoveItem
  BY <1>4, RemoveItemSound
<1>5. CASE Mutate
  BY <1>5, MutateSound
<1>6. CASE ConfigCall
  BY <1>6, ConfigCallSound
<1>7. CASE ImportStep
  <2>1. CASE EndImport
    <3>1. ret' \in Answers /\ policy' \in [Configs -> Policies] /\ import' \in Imports
      BY <2>1 DEF EndImport, Answer, Answers, Outcomes, Imports, Sound
    <3>2. QED
      BY <2>1, <3>1, AnswerSound DEF EndImport
  <2>2. QED
    BY <1>7, <2>1, ImportItemSound DEF ImportStep
<1>8. CASE UNCHANGED vars
  BY <1>8, AnswerSound DEF vars, Sound
<1>9. QED
  BY <1>1, <1>2, <1>3, <1>4, <1>5, <1>6, <1>7, <1>8 DEF Next

\* In every reachable state the heap is well formed and nothing that is still
\* referenced has been destroyed.
THEOREM Soundness == Spec => []Sound
BY SoundInit, SoundStep, PTL DEF Spec

\* The type invariant of Document, for any set of Configs, items, names, values:
\* shared ownership never lets go of an item that is still referenced.
THEOREM TypeCorrect == Spec => []TypeOK
<1>1. ASSUME Sound
      PROVE  TypeOK
  <2>1. ASSUME NEW t \in Live, NEW y \in Kids(heap, t)
        PROVE  y \in Live
    <3>1. t \in Addresses /\ heap[t] # Null /\ y \in Ids
      BY <1>1, <2>1, ItemFields DEF Live, Sound
    <3>2. QED
      BY <1>1, <2>1, <3>1 DEF Live, Sound, Closed, Addresses
  <2>2. hand # Null => hand \in Live
    BY <1>1 DEF Sound, Live, Addresses
  <2>3. QED
    BY <1>1, <2>1, <2>2 DEF Sound, TypeOK, WellTyped, Live
<1>2. QED
  BY <1>1, Soundness, PTL

-----------------------------------------------------------------------------
(* Every call keeps every unmarked container tidy *)

Unique == Sound /\ Neat(heap, mutated)

\* Releasing what is no longer referenced leaves the rest as tidy as it was.
LEMMA CommitNeat ==
    ASSUME NEW h, WellTyped(h), Closed(h),
           NEW p \in Ids \cup {Null}, p # Null => h[p] # Null,
           NEW touched, Neat(h, touched), Commit(h, p, touched)
    PROVE  Neat(heap, mutated)'
<1> DEFINE held == {p} \ {Null}
<1>1. /\ heap' = Settled(h, held)
      /\ mutated' = {t \in touched : Settled(h, held)[t] # Null}
  BY DEF Commit
<1>2. held \in SUBSET Ids /\ \A q \in held : h[q] # Null
  OBVIOUS
<1> HIDE DEF held
<1>3. Neat(Settled(h, held), {t \in touched : Settled(h, held)[t] # Null})
  BY <1>2, SettledNeat
<1>4. QED
  BY <1>1, <1>3 DEF Neat, Tidy, Fit, Alike

\* The rest of a call that writes a tidy heap g and keeps the client's pointer.
LEMMA CallNeat ==
    ASSUME Sound, NEW g, WellTyped(g), Closed(g),
           \A y \in Addresses : heap[y] # Null => g[y] # Null,
           NEW touched, Neat(g, touched), Commit(g, hand, touched)
    PROVE  Neat(heap, mutated)'
<1>1. hand \in Ids \cup {Null} /\ (hand # Null => g[hand] # Null)
  BY DEF Sound, Addresses
<1>2. QED
  BY <1>1, CommitNeat

\* Calls that leave the heap alone.
LEMMA AnswerNeat ==
    ASSUME Unique, UNCHANGED <<heap, mutated>>
    PROVE  Neat(heap, mutated)'
BY DEF Unique, Neat, Tidy, Fit, Alike

\* Clone() of the item at y to the free address x, then Add.
LEMMA CloneAndAddNeat ==
    ASSUME Unique, NEW t \in Targets, NEW x \in Ids \cap Free,
           NEW y \in Addresses, heap[y] # Null, NEW p \in Policies,
           Commit(AddTo([heap EXCEPT ![x] = heap[y]], t, x, p).heap, hand,
                  Passed(mutated, y, x))
    PROVE  Neat(heap, mutated)'
<1> DEFINE h       == [heap EXCEPT ![x] = heap[y]]
           g       == AddTo(h, t, x, p).heap
           touched == Passed(mutated, y, x)
<1>1. /\ WellTyped(g) /\ Closed(g)
      /\ \A z \in Addresses : heap[z] # Null => g[z] # Null
  BY CloneAndAddSound DEF Unique
<1>2. /\ x \in Addresses /\ x \in Ids /\ x \notin Configs /\ heap[x] = Null
      /\ WellTyped(heap) /\ Closed(heap) /\ Neat(heap, mutated)
  BY AddressesAssumption DEF Addresses, Free, Live, Unique, Sound
<1>3. Puts(heap, x, heap[y], h)
  BY DEF Puts
<1>4. Commit(g, hand, touched)
  OBVIOUS
<1> HIDE DEF h
<1>5. Holding(heap, x) \subseteq mutated
  BY <1>2, HeldByNone
<1>6. Neat(h, touched)
  BY <1>2, <1>3, <1>5, NeatCopy
<1>7. /\ WellTyped(h) /\ Closed(h) /\ h[x] = heap[y]
      /\ \A z \in Addresses \ {x} : h[z] = heap[z]
  BY <1>2, <1>3, CopySound
<1>8. t \in Addresses /\ IsContainer(h, t)
  <2>1. t \in Addresses /\ IsContainer(heap, t) /\ heap[t] # Null
    BY TargetSound DEF Unique
  <2>2. QED
    BY <1>2, <1>7, <2>1 DEF IsContainer, WellTyped
<1>9. h[x] # Null
  BY <1>7
<1> HIDE DEF touched
<1>10. Neat(g, touched)
  BY <1>2, <1>6, <1>7, <1>8, <1>9, NeatAdd DEF AnyPolicy
<1> HIDE DEF g
<1>11. QED
  BY <1>1, <1>4, <1>10, CallNeat DEF Unique

LEMMA AddCopyNeat ==
    ASSUME Unique, NEW t, NEW p \in Policies, NEW x \in Ids, AddCopy(t, p, x)
    PROVE  Neat(heap, mutated)'
<1>1. /\ hand \in Addresses /\ heap[hand] # Null /\ t \in Targets /\ x \in Ids \cap Free
  BY DEF AddCopy, Sound, Addresses, Unique
<1>2. Commit(AddTo([heap EXCEPT ![x] = heap[hand]], t, x, p).heap, hand,
             Passed(mutated, hand, x))
  BY DEF AddCopy
<1>3. QED
  BY <1>1, <1>2, CloneAndAddNeat

LEMMA ImportItemNeat ==
    ASSUME Unique, NEW x \in Ids, ImportItem(x)
    PROVE  Neat(heap, mutated)'
<1> DEFINE y == heap[import.src].kids[import.next]
           p == policy[import.dst]
<1>0. import \in [src: Configs, dst: Configs, next: Nat \ {0}]
  BY DEF Unique, Sound, Imports, ImportItem, Idle
<1>1. import.src \in Configs /\ import.dst \in Configs /\ import.next \in Nat \ {0}
  BY <1>0
<1>2. import.src \in Targets /\ import.dst \in Targets
  BY <1>1 DEF Unique, Sound, WellTyped, Targets, Live, IsContainer, ContainerKinds,
              Addresses
<1>3. /\ x \in Ids \cap Free
      /\ Commit(AddTo([heap EXCEPT ![x] = heap[y]], import.dst, x, p).heap, hand,
                Passed(mutated, y, x))
      /\ import.next <= Len(heap[import.src].kids)
  BY DEF ImportItem
<1>4. y \in Addresses /\ heap[y] # Null
  <2>1. /\ heap[import.src].kids \in Seq(Ids)
        /\ \A k \in 1..Len(heap[import.src].kids) : heap[heap[import.src].kids[k]] # Null
    BY <1>2, TargetSound DEF Unique
  <2>2. import.next \in 1..Len(heap[import.src].kids)
    BY <1>1, <1>3, <2>1, LenProperties
  <2>3. QED
    BY <2>1, <2>2, ElementOfSeq DEF Addresses
<1>5. p \in Policies
  BY <1>1 DEF Unique, Sound
<1> HIDE DEF y, p
<1>6. QED
  BY <1>2, <1>3, <1>4, <1>5, CloneAndAddNeat

LEMMA AddPointerNeat ==
    ASSUME Unique, NEW t, NEW p \in Policies, AddPointer(t, p)
    PROVE  Neat(heap, mutated)'
<1> DEFINE g == AddTo(heap, t, hand, p).heap
<1>1. hand \in Ids /\ heap[hand] # Null /\ t \in Targets
  BY DEF AddPointer, Sound, Addresses, Unique
<1>2. /\ t \in Addresses /\ IsContainer(heap, t)
      /\ WellTyped(heap) /\ Closed(heap) /\ Neat(heap, mutated)
  BY <1>1, TargetSound DEF Unique, Sound
<1>3. /\ WellTyped(g) /\ Closed(g)
      /\ \A y \in Addresses : heap[y] # Null => g[y] # Null
  BY <1>1, <1>2, AddToSound DEF AnyPolicy
<1>4. Neat(g, mutated)
  BY <1>1, <1>2, NeatAdd DEF AnyPolicy
<1>5. Commit(g, hand, mutated)
  BY DEF AddPointer
<1> HIDE DEF g
<1>6. QED
  BY <1>3, <1>4, <1>5, CallNeat DEF Unique

LEMMA AddMoveNeat ==
    ASSUME Unique, NEW t, NEW p \in Policies, NEW x \in Ids, AddMove(t, p, x)
    PROVE  Neat(heap, mutated)'
<1> DEFINE item    == MovedFrom(heap[hand])
           copied  == [heap EXCEPT ![x] = heap[hand]]
           moved   == [copied EXCEPT ![hand] = item]
           g       == AddTo(moved, t, x, p).heap
           held    == mutated \cup Holders(hand)
           passed  == Passed(held, hand, x)
           touched == passed \ {hand}
<1>1. /\ hand \in Ids /\ hand \in Addresses /\ heap[hand] # Null
      /\ t \in Targets /\ x \in Ids /\ x \in Addresses /\ heap[x] = Null
      /\ x \notin Configs /\ x # hand
      /\ WellTyped(heap) /\ Closed(heap) /\ Neat(heap, mutated)
  BY AddressesAssumption DEF AddMove, Unique, Sound, Addresses, Free, Live
<1>2. Commit(g, hand, touched)
  BY DEF AddMove
<1>3. Puts(heap, x, heap[hand], copied) /\ Puts(copied, hand, item, moved)
  BY DEF Puts
<1>4. Holding(heap, x) = {} /\ Holding(heap, hand) = Holders(hand)
  BY <1>1, HeldByNone DEF Holding, Holders, Live, Kids
<1>5. /\ WellTyped(copied) /\ Closed(copied) /\ copied[x] = heap[hand]
      /\ \A z \in Addresses \ {x} : copied[z] = heap[z]
  <2> HIDE DEF copied
  <2>1. QED
    BY <1>1, <1>3, CopySound
<1>6. Neat(copied, passed)
  <2>1. mutated \subseteq held /\ Holding(heap, x) \subseteq held
    BY <1>4
  <2> HIDE DEF copied, held
  <2>2. QED
    BY <1>1, <1>3, <2>1, NeatCopy
<1> HIDE DEF copied
<1>7. copied[hand] = heap[hand] /\ copied[hand] # Null
  BY <1>1, <1>5
<1>8. /\ WellTyped(moved) /\ Closed(moved)
      /\ moved[hand] = item /\ item \in Item /\ item.kind = heap[hand].kind
      /\ item.kids = <<>>
      /\ \A z \in Addresses \ {hand} : moved[z] = copied[z]
  <2> HIDE DEF moved
  <2>1. QED
    BY <1>1, <1>3, <1>5, <1>7, MovedFromSound
<1>9. Holding(copied, hand) \ {hand} \subseteq passed
  <2>1. ASSUME NEW s \in Addresses \ {hand}, hand \in Kids(copied, s)
        PROVE  s \in passed
    <3>1. CASE s = x
      <4>1. Kids(copied, x) = Kids(heap, hand)
        BY <1>1, <1>5 DEF Kids
      <4>2. hand \in Holders(hand)
        BY <1>1, <2>1, <3>1, <4>1 DEF Holders, Live
      <4>3. QED
        BY <3>1, <4>2 DEF Passed
    <3>2. CASE s # x
      <4>1. hand \in Kids(heap, s)
        BY <1>5, <2>1, <3>2 DEF Kids
      <4>2. s \in Holders(hand)
        BY <1>4, <4>1 DEF Holding
      <4>3. QED
        BY <3>2, <4>2 DEF Passed
    <3>3. QED
      BY <3>1, <3>2
  <2>2. QED
    BY <2>1 DEF Holding
<1>10. Neat(moved, touched)
  <2> HIDE DEF moved, item, passed
  <2>1. QED
    BY <1>1, <1>3, <1>5, <1>6, <1>8, <1>9, NeatMoved
<1>11. moved[hand] # Null /\ moved[x] # Null
  BY <1>1, <1>5, <1>8, NullAssumption
<1>12. t \in Addresses /\ IsContainer(moved, t)
  <2>1. t \in Addresses /\ IsContainer(heap, t) /\ heap[t] # Null
    BY <1>1, TargetSound DEF Unique
  <2>2. moved[t] # Null /\ moved[t].kind = heap[t].kind
    BY <1>1, <1>5, <1>8, <1>11, <2>1
  <2> HIDE DEF moved
  <2>3. QED
    BY <1>8, <2>1, <2>2 DEF IsContainer, WellTyped
<1> HIDE DEF moved, touched
<1>13. /\ WellTyped(g) /\ Closed(g) /\ Neat(g, touched)
       /\ \A z \in Addresses : moved[z] # Null => g[z] # Null
  BY <1>1, <1>8, <1>10, <1>11, <1>12, AddToSound, NeatAdd DEF AnyPolicy
<1> HIDE DEF g
<1>14. hand # Null => g[hand] # Null
  BY <1>1, <1>11, <1>13
<1>15. QED
  BY <1>1, <1>2, <1>13, <1>14, CommitNeat

\* Constructing, taking and dropping an item of the client's own.
LEMMA OwnNeat ==
    ASSUME Unique, Own
    PROVE  Neat(heap, mutated)'
<1>1. WellTyped(heap) /\ Closed(heap) /\ Neat(heap, mutated) /\ Sound
  BY DEF Unique, Sound
<1>2. ASSUME NEW x \in Ids, NEW kind \in UsedKinds, NEW name \in AnyName,
             NEW val \in Vals \cup {NoVal}, Make(x, kind, name, val)
      PROVE  Neat(heap, mutated)'
  <2> DEFINE none == <<>>
             item == NewItem(kind, name, val)
             g    == [heap EXCEPT ![x] = item]
  <2>1. Commit(g, x, mutated) /\ x \in Ids /\ x \in Addresses /\ heap[x] = Null
    BY <1>2 DEF Make, Free, Live, Addresses
  <2>2. item \in Item /\ item.kids = none
    BY BoundsAssumption, EmptySeq DEF NewItem, Item, AnyPolicy, Policies
  <2>3. Puts(heap, x, item, g)
    BY DEF Puts
  <2>4. x \notin Configs /\ Holding(heap, x) = {}
    BY <1>1, <2>1, AddressesAssumption, HeldByNone
  <2>5. /\ Tidy(heap, item.kind, none)
        /\ \A k \in 1..Len(none) : none[k] # x /\ heap[none[k]] # Null
    BY TidyEmpty, EmptySeq
  <2>6. item.kids # <<>> => item.kind \in ContainerKinds
    BY <2>2
  <2> HIDE DEF item, g, none
  <2>7. WellTyped(g) /\ Closed(g) /\ g[x] # Null
    BY <1>1, <2>1, <2>2, <2>3, <2>4, <2>5, <2>6, PutItem
  <2>8. Neat(g, mutated)
    <3>1. \A s \in Addresses \ mutated : x \notin Kids(heap, s)
      BY <2>4 DEF Holding
    <3>2. QED
      BY <1>1, <2>1, <2>2, <2>3, <2>5, <3>1, NeatWrite
  <2>9. QED
    BY <2>1, <2>7, <2>8, CommitNeat
<1>3. ASSUME NEW x \in Ids, Take(x)
      PROVE  Neat(heap, mutated)'
  <2>1. Commit(heap, x, mutated) /\ heap[x] # Null
    BY <1>3 DEF Take, Live
  <2>2. QED
    BY <1>1, <2>1, CommitNeat
<1>4. CASE Release
  <2>1. Commit(heap, Null, mutated)
    BY <1>4 DEF Release
  <2>2. QED
    BY <1>1, <2>1, CommitNeat
<1>5. QED
  BY <1>2, <1>3, <1>4 DEF Own

\* Erasing one item, or all of them.
LEMMA DropNeat ==
    ASSUME Unique, NEW t \in Targets, NEW kids,
           \/ kids = <<>>
           \/ \E k \in 1..Len(heap[t].kids) : kids = RemoveAt(heap[t].kids, k),
           Commit([heap EXCEPT ![t].kids = kids], hand, mutated)
    PROVE  Neat(heap, mutated)'
<1> DEFINE g    == [heap EXCEPT ![t].kids = kids]
           none == <<>>
<1>1. PutsKids(heap, t, kids, g) /\ Commit(g, hand, mutated)
  BY DEF PutsKids
<1>2. /\ t \in Addresses /\ IsContainer(heap, t) /\ heap[t] # Null
      /\ heap[t].kids \in Seq(Ids)
      /\ \A k \in 1..Len(heap[t].kids) : heap[heap[t].kids[k]] # Null
  BY TargetSound DEF Unique
<1> HIDE DEF g
<1>3. WellTyped(heap) /\ Closed(heap) /\ Neat(heap, mutated) /\ Sound
  BY DEF Unique, Sound
<1>4. t \notin mutated => Tidy(heap, heap[t].kind, heap[t].kids)
  BY <1>2, <1>3 DEF Neat
<1>5. CASE kids = none
  <2>1. /\ kids \in Seq(Ids) /\ Tidy(heap, heap[t].kind, kids)
        /\ \A k \in 1..Len(kids) : heap[kids[k]] # Null
    BY <1>5, EmptySeq, TidyEmpty
  <2>2. WellTyped(g) /\ Closed(g) /\ \A y \in Addresses : heap[y] # Null => g[y] # Null
    <3>1. /\ WellTyped(g) /\ Closed(g) /\ g[t] # Null
          /\ \A y \in Addresses \ {t} : g[y] = heap[y]
      BY <1>1, <1>2, <1>3, <2>1, PutKids
    <3>2. QED
      BY <3>1
  <2>3. Neat(g, mutated)
    BY <1>1, <1>2, <1>3, <2>1, NeatKids
  <2>4. QED
    BY <1>1, <1>3, <2>2, <2>3, CallNeat
<1>6. ASSUME NEW k \in 1..Len(heap[t].kids), kids = RemoveAt(heap[t].kids, k)
      PROVE  Neat(heap, mutated)'
  <2>1. kids \in Seq(Ids) /\ (t \notin mutated => Tidy(heap, heap[t].kind, kids))
    BY <1>2, <1>4, <1>6, RemoveAtIsErase, TidyErase
  <2>2. PutsKids(heap, t, RemoveAt(heap[t].kids, k), g)
    BY <1>1, <1>6
  <2>3. WellTyped(g) /\ Closed(g) /\ \A y \in Addresses : heap[y] # Null => g[y] # Null
    BY <1>2, <1>3, <2>2, EraseSound
  <2>4. Neat(g, mutated)
    BY <1>1, <1>2, <1>3, <2>1, NeatKids
  <2>5. QED
    BY <1>1, <1>3, <2>3, <2>4, CallNeat
<1>7. QED
  BY <1>5, <1>6

LEMMA RemoveItemNeat ==
    ASSUME Unique, RemoveItem
    PROVE  Neat(heap, mutated)'
<1>1. ASSUME NEW t \in Addresses, NEW i \in 0..MaxKids, RemoveIndex(t, i)
      PROVE  Neat(heap, mutated)'
  <2>1. t \in Targets
    BY <1>1 DEF RemoveIndex
  <2>2. CASE i < Len(heap[t].kids)
    <3>1. Len(heap[t].kids) \in Nat
      BY <2>1, TargetSound, LenProperties DEF Unique
    <3>2. i + 1 \in 1..Len(heap[t].kids)
      BY <2>2, <3>1, BoundsAssumption
    <3> DEFINE kids == RemoveAt(heap[t].kids, i + 1)
    <3>3. Commit([heap EXCEPT ![t].kids = kids], hand, mutated)
      BY <1>1, <2>2 DEF RemoveIndex
    <3>4. \E k \in 1..Len(heap[t].kids) : kids = RemoveAt(heap[t].kids, k)
      BY <3>2
    <3> HIDE DEF kids
    <3>5. QED
      BY <2>1, <3>3, <3>4, DropNeat
  <2>3. CASE ~(i < Len(heap[t].kids))
    BY <1>1, <2>3, AnswerNeat DEF RemoveIndex
  <2>4. QED
    BY <2>2, <2>3
<1>2. ASSUME NEW t \in Addresses, NEW path \in Paths, RemovePath(t, path)
      PROVE  Neat(heap, mutated)'
  <2> DEFINE parent == LookUp(heap, t, Front(path))
             k      == Find(heap, parent.at, Last(path))
             kids   == RemoveAt(heap[parent.at].kids, k)
  <2>1. \/ /\ parent.at \in Targets /\ k \in 1..Len(heap[parent.at].kids)
           /\ Commit([heap EXCEPT ![parent.at].kids = kids], hand, mutated)
        \/ UNCHANGED <<heap, mutated>>
    <3>1. CASE UNCHANGED <<heap, mutated>>
      BY <3>1
    <3>2. CASE ~UNCHANGED <<heap, mutated>>
      <4>1. /\ Step(heap, parent, Last(path)).err = "none" /\ parent.at \in Targets
            /\ Commit([heap EXCEPT ![parent.at].kids = kids], hand, mutated)
            /\ path # <<>>
        BY <1>2, <3>2 DEF RemovePath
      <4>2. k \in 1..Len(heap[parent.at].kids)
        <5> HIDE DEF parent
        <5>1. parent.err = "none" /\ IsContainer(heap, parent.at)
          BY <4>1 DEF Step, Targets
        <5>2. k # 0
          BY <4>1, <5>1 DEF Step, NotFound
        <5>3. heap[parent.at].kids \in Seq(Ids) /\ Len(heap[parent.at].kids) \in Nat
          BY <4>1, TargetSound, LenProperties DEF Unique
        <5>4. Last(path) \in Segments
          BY <4>1, LastSegment
        <5>5. k \in 0..Len(heap[parent.at].kids)
          BY <5>3, <5>4, FindFound
        <5> HIDE DEF k
        <5>6. QED
          BY <5>2, <5>3, <5>5
      <4>3. QED
        BY <4>1, <4>2
    <3>3. QED
      BY <3>1, <3>2
  <2>2. CASE UNCHANGED <<heap, mutated>>
    BY <2>2, AnswerNeat
  <2> HIDE DEF parent, k
  <2>3. CASE /\ parent.at \in Targets /\ k \in 1..Len(heap[parent.at].kids)
             /\ Commit([heap EXCEPT ![parent.at].kids = kids], hand, mutated)
    <3>1. \E j \in 1..Len(heap[parent.at].kids) : kids = RemoveAt(heap[parent.at].kids, j)
      BY <2>3
    <3> HIDE DEF kids
    <3>2. QED
      BY <2>3, <3>1, DropNeat
  <2>4. QED
    BY <2>1, <2>2, <2>3
<1>3. ASSUME NEW t \in Addresses, Clear(t)
      PROVE  Neat(heap, mutated)'
  <2> DEFINE none == <<>>
  <2>1. t \in Targets /\ Commit([heap EXCEPT ![t].kids = none], hand, mutated)
    BY <1>3 DEF Clear
  <2>2. none = <<>>
    OBVIOUS
  <2> HIDE DEF none
  <2>3. QED
    BY <2>1, <2>2, DropNeat
<1>4. QED
  BY <1>1, <1>2, <1>3 DEF RemoveItem

\* Writing the name, payload or policy of an item that is already there.
LEMMA WriteNeat ==
    ASSUME Unique, NEW x \in Addresses, heap[x] # Null, NEW item \in Item,
           item.kind = heap[x].kind, item.kids = heap[x].kids,
           NEW g, Puts(heap, x, item, g), NEW touched, Commit(g, hand, touched),
           \/ touched = mutated /\ Looks(heap, x, item)
           \/ touched = mutated \cup Holders(x)
    PROVE  Neat(heap, mutated)'
<1>1. WellTyped(heap) /\ Closed(heap) /\ Neat(heap, mutated) /\ Sound
  BY DEF Unique, Sound
<1>2. WellTyped(g) /\ Closed(g) /\ \A y \in Addresses : heap[y] # Null => g[y] # Null
  BY <1>1, WriteSound
<1>3. mutated \subseteq touched /\ (Looks(heap, x, item) \/ Holding(heap, x) \subseteq touched)
  BY DEF Holding, Holders, Live, Kids
<1>4. Neat(g, touched)
  BY <1>1, <1>3, NeatTouch
<1>5. QED
  BY <1>1, <1>2, <1>4, CallNeat

\* Name(), Value::operator=, Text(), whole assignment and SetOnExistingAction.
LEMMA MutateNeat ==
    ASSUME Unique, Mutate
    PROVE  Neat(heap, mutated)'
<1>1. WellTyped(heap) /\ Closed(heap) /\ Neat(heap, mutated) /\ Sound
  BY DEF Unique, Sound
<1>2. PICK x \in Ids : \/ \E name \in AnyName : Rename(x, name)
                       \/ \E v \in Vals : SetValue(x, v) \/ SetText(x, v)
                       \/ Assign(x) \/ AssignMove(x)
                       \/ \E p \in UsedPolicies : SetOnExistingAction(x, p)
  BY DEF Mutate
<1>3. x \in Addresses /\ heap[x] # Null
  BY <1>2 DEF Rename, SetValue, SetText, Assign, AssignMove, SetOnExistingAction, Targets,
                 Live
<1>4. heap[x] \in Item
  BY <1>1, <1>3, ItemFields
<1>5. ASSUME NEW name \in AnyName, Rename(x, name)
      PROVE  Neat(heap, mutated)'
  <2> DEFINE item == [heap[x] EXCEPT !.name = name]
             g    == [heap EXCEPT ![x].name = name]
             touched == mutated \cup Holders(x)
  <2>1. item \in Item /\ item.kind = heap[x].kind /\ item.kids = heap[x].kids
    BY <1>4 DEF Item
  <2>2. Puts(heap, x, item, g)
    BY DEF Puts
  <2>3. Commit(g, hand, touched)
    BY <1>5 DEF Rename
  <2> HIDE DEF item, g
  <2>4. QED
    BY <1>3, <2>1, <2>2, <2>3, WriteNeat
<1>6. ASSUME NEW v \in Vals, SetValue(x, v)
      PROVE  Neat(heap, mutated)'
  <2> DEFINE item == [heap[x] EXCEPT !.val = v]
             g    == [heap EXCEPT ![x].val = v]
             touched == mutated \cup Holders(x)
  <2>1. item \in Item /\ item.kind = heap[x].kind /\ item.kids = heap[x].kids
    BY <1>4 DEF Item
  <2>2. Puts(heap, x, item, g)
    BY DEF Puts
  <2>3. CASE KindOf[heap[x].val] = KindOf[v]
    <3>1. Commit(g, hand, touched)
      BY <1>6, <2>3 DEF SetValue
    <3> HIDE DEF item, g
    <3>2. QED
      BY <1>3, <2>1, <2>2, <3>1, WriteNeat
  <2>4. CASE KindOf[heap[x].val] # KindOf[v]
    BY <1>6, <2>4, AnswerNeat DEF SetValue
  <2>5. QED
    BY <2>3, <2>4
<1>7. CASE Assign(x)
  <2> DEFINE held    == mutated \cup Holders(x)
             touched == Passed(held, hand, x)
             g       == [heap EXCEPT ![x] = heap[hand]]
  <2>1. /\ hand \in Addresses /\ heap[hand] # Null /\ heap[x].kind = heap[hand].kind
        /\ Commit(g, hand, touched)
    BY <1>1, <1>7 DEF Assign, Sound, Addresses
  <2>2. Puts(heap, x, heap[hand], g)
    BY DEF Puts
  <2>3. x \in Configs => heap[hand].kind = "Group"
    BY <1>1, <2>1 DEF WellTyped
  <2>4. mutated \subseteq held /\ Holding(heap, x) \subseteq held
    BY DEF Holding, Holders, Live, Kids
  <2> HIDE DEF g, held
  <2>5. /\ WellTyped(g) /\ Closed(g) /\ g[x] # Null
        /\ \A z \in Addresses \ {x} : g[z] = heap[z]
    BY <1>1, <1>3, <2>1, <2>2, <2>3, CopySound
  <2>6. Neat(g, touched)
    BY <1>1, <1>3, <2>1, <2>2, <2>4, NeatCopy
  <2> HIDE DEF touched
  <2>7. QED
    BY <1>1, <2>1, <2>5, <2>6, CallNeat
<1>8. ASSUME NEW p \in UsedPolicies, SetOnExistingAction(x, p)
      PROVE  Neat(heap, mutated)'
  <2> DEFINE item == [heap[x] EXCEPT !.policy = p]
             g    == [heap EXCEPT ![x].policy = p]
  <2>1. /\ item \in Item /\ item.kind = heap[x].kind /\ item.kids = heap[x].kids
        /\ item.name = heap[x].name /\ item.val = heap[x].val
    BY <1>4, BoundsAssumption DEF Item, AnyPolicy
  <2>2. Puts(heap, x, item, g)
    BY DEF Puts
  <2>3. Commit(g, hand, mutated)
    BY <1>8 DEF SetOnExistingAction
  <2> HIDE DEF item, g
  <2>4. Looks(heap, x, item)
    BY <1>3, <2>1 DEF Looks
  <2>5. QED
    BY <1>3, <2>1, <2>2, <2>3, <2>4, WriteNeat
<1>9. ASSUME NEW v \in Vals, SetText(x, v)
      PROVE  Neat(heap, mutated)'
  <2> DEFINE item == [heap[x] EXCEPT !.val = v]
             g    == [heap EXCEPT ![x].val = v]
             touched == mutated \cup Holders(x)
  <2>1. item \in Item /\ item.kind = heap[x].kind /\ item.kids = heap[x].kids
    BY <1>4 DEF Item
  <2>2. Puts(heap, x, item, g)
    BY DEF Puts
  <2>3. Commit(g, hand, touched)
    BY <1>9 DEF SetText
  <2> HIDE DEF item, g
  <2>4. QED
    BY <1>3, <2>1, <2>2, <2>3, WriteNeat
<1>10. CASE AssignMove(x)
  <2> DEFINE item    == MovedFrom(heap[hand])
             copied  == [heap EXCEPT ![x] = heap[hand]]
             g       == [copied EXCEPT ![hand] = item]
             held    == mutated \cup Holders(x) \cup Holders(hand)
             passed  == Passed(held, hand, x)
             touched == passed \ {hand}
  <2>1. /\ hand \in Addresses /\ heap[hand] # Null /\ heap[x].kind = heap[hand].kind
        /\ Commit(g, hand, touched)
    BY <1>1, <1>10 DEF AssignMove, Sound, Addresses
  <2>2. x # hand
    <3>1. WellTyped(heap) /\ {hand} \in SUBSET Ids /\ x \notin Reach(heap, {hand})
      BY <1>1, <1>10 DEF AssignMove, NotUnder, Sound
    <3>2. {hand} \subseteq Reach(heap, {hand})
      BY <3>1, ReachClosed
    <3>3. QED
      BY <3>1, <3>2
  <2>3. Puts(heap, x, heap[hand], copied) /\ Puts(copied, hand, item, g)
    BY DEF Puts
  <2>4. x \in Configs => heap[hand].kind = "Group"
    BY <1>1, <2>1 DEF WellTyped
  <2>5. /\ mutated \subseteq held /\ Holding(heap, x) \subseteq held
        /\ Holding(heap, hand) = Holders(hand) /\ Holders(hand) \subseteq held
    BY DEF Holding, Holders, Live, Kids
  <2> HIDE DEF copied, g, held
  <2>6. /\ WellTyped(copied) /\ Closed(copied) /\ copied[x] = heap[hand] /\ copied[x] # Null
        /\ \A z \in Addresses \ {x} : copied[z] = heap[z]
    BY <1>1, <1>3, <2>1, <2>3, <2>4, CopySound
  <2>7. Neat(copied, passed)
    BY <1>1, <1>3, <2>1, <2>3, <2>5, NeatCopy
  <2>8. copied[hand] = heap[hand] /\ copied[hand] # Null
    BY <2>1, <2>2, <2>6
  <2>9. /\ WellTyped(g) /\ Closed(g) /\ g[hand] # Null
        /\ item \in Item /\ item.kids = <<>>
        /\ \A z \in Addresses \ {hand} : g[z] = copied[z]
    BY <2>1, <2>3, <2>6, <2>8, MovedFromSound
  <2>10. Holding(copied, hand) \ {hand} \subseteq passed
    <3>1. ASSUME NEW s \in Addresses \ {hand}, hand \in Kids(copied, s)
          PROVE  s \in passed
      <4>1. CASE s = x
        <5>1. hand \in Kids(heap, hand)
          BY <2>1, <2>6, <3>1, <4>1 DEF Kids
        <5>2. hand \in held
          BY <2>1, <2>5, <5>1 DEF Holding
        <5>3. QED
          BY <4>1, <5>2 DEF Passed
      <4>2. CASE s # x
        <5>1. hand \in Kids(heap, s)
          BY <2>6, <3>1, <4>2 DEF Kids
        <5>2. s \in held
          BY <2>5, <3>1, <5>1 DEF Holding
        <5>3. QED
          BY <4>2, <5>2 DEF Passed
      <4>3. QED
        BY <4>1, <4>2
    <3>2. QED
      BY <3>1 DEF Holding
  <2> HIDE DEF item, passed
  <2>11. Neat(g, touched)
    BY <2>1, <2>3, <2>6, <2>7, <2>9, <2>10, NeatMoved
  <2>12. \A y \in Addresses : heap[y] # Null => g[y] # Null
    BY <2>6, <2>9
  <2> HIDE DEF touched
  <2>13. QED
    BY <1>1, <2>1, <2>9, <2>11, <2>12, CallNeat
<1>11. QED
  BY <1>2, <1>5, <1>6, <1>7, <1>8, <1>9, <1>10

\* OnExistingAction, copies and moves of whole Configs, and entering the import.
LEMMA ConfigCallNeat ==
    ASSUME Unique, ConfigCall
    PROVE  Neat(heap, mutated)'
<1>1. WellTyped(heap) /\ Closed(heap) /\ Neat(heap, mutated) /\ Sound
  BY DEF Unique, Sound
<1>2. \A c \in Configs : /\ c \in Addresses /\ heap[c] # Null /\ heap[c].kind = "Group"
                         /\ Holding(heap, c) = {}
  BY <1>1, HeldByNone DEF WellTyped, Addresses
<1>3. ASSUME NEW c \in Configs, NEW p \in UsedPolicies, OnExistingAction(c, p)
      PROVE  Neat(heap, mutated)'
  <2> DEFINE item == [heap[c] EXCEPT !.policy = p]
             g    == [heap EXCEPT ![c].policy = p]
  <2>1. heap[c] \in Item /\ p \in Policies
    BY <1>1, <1>2, ItemFields, BoundsAssumption
  <2>2. /\ item \in Item /\ item.kind = heap[c].kind /\ item.kids = heap[c].kids
        /\ item.name = heap[c].name /\ item.val = heap[c].val
    BY <2>1 DEF Item, AnyPolicy
  <2>3. Puts(heap, c, item, g)
    BY DEF Puts
  <2>4. Commit(g, hand, mutated)
    BY <1>3 DEF OnExistingAction
  <2> HIDE DEF item, g
  <2>5. Looks(heap, c, item)
    BY <1>2, <2>2 DEF Looks
  <2>6. QED
    BY <1>2, <2>2, <2>3, <2>4, <2>5, WriteNeat
<1>4. ASSUME NEW c \in Configs, NEW d \in Configs, CopyConfig(c, d)
      PROVE  Neat(heap, mutated)'
  <2> DEFINE g       == [heap EXCEPT ![d] = heap[c]]
             touched == Passed(mutated, c, d)
  <2>1. Commit(g, hand, touched)
    BY <1>4 DEF CopyConfig
  <2>2. Puts(heap, d, heap[c], g)
    BY DEF Puts
  <2> HIDE DEF g
  <2>3. /\ WellTyped(g) /\ Closed(g) /\ g[d] # Null
        /\ \A z \in Addresses \ {d} : g[z] = heap[z]
    BY <1>1, <1>2, <2>2, CopySound
  <2>4. Neat(g, touched)
    BY <1>1, <1>2, <2>2, NeatCopy
  <2> HIDE DEF touched
  <2>5. QED
    BY <1>1, <2>1, <2>3, <2>4, CallNeat
<1>5. ASSUME NEW c \in Configs, NEW d \in Configs, MoveConfig(c, d)
      PROVE  Neat(heap, mutated)'
  <2> DEFINE item    == MovedFrom(heap[c])
             copied  == [heap EXCEPT ![d] = heap[c]]
             g       == [copied EXCEPT ![c] = item]
             passed  == Passed(mutated, c, d)
             touched == passed \ {c}
  <2>1. Commit(g, hand, touched) /\ c # d
    BY <1>5 DEF MoveConfig
  <2>2. Puts(heap, d, heap[c], copied) /\ Puts(copied, c, item, g)
    BY DEF Puts
  <2> HIDE DEF copied, g
  <2>3. /\ WellTyped(copied) /\ Closed(copied) /\ copied[d] # Null
        /\ \A z \in Addresses \ {d} : copied[z] = heap[z]
    BY <1>1, <1>2, <2>2, CopySound
  <2>4. Neat(copied, passed)
    BY <1>1, <1>2, <2>2, NeatCopy
  <2>5. copied[c] = heap[c] /\ copied[c] # Null
    BY <1>2, <2>1, <2>3
  <2>6. /\ WellTyped(g) /\ Closed(g) /\ g[c] # Null
        /\ item \in Item /\ item.kids = <<>>
        /\ \A z \in Addresses \ {c} : g[z] = copied[z]
    BY <1>2, <2>2, <2>3, <2>5, MovedFromSound
  <2>7. Holding(copied, c) = {}
    BY <1>2, <2>3, HeldByNone
  <2> HIDE DEF item, passed
  <2>8. Neat(g, touched)
    BY <1>2, <2>2, <2>3, <2>4, <2>6, <2>7, NeatMoved
  <2>9. \A y \in Addresses : heap[y] # Null => g[y] # Null
    BY <2>3, <2>6
  <2> HIDE DEF touched
  <2>10. QED
    BY <1>1, <2>1, <2>6, <2>8, <2>9, CallNeat
<1>6. ASSUME NEW c \in Configs, NEW d \in Configs, StartImport(c, d)
      PROVE  Neat(heap, mutated)'
  BY <1>6, AnswerNeat DEF StartImport
<1>7. QED
  BY <1>3, <1>4, <1>5, <1>6 DEF ConfigCall

-----------------------------------------------------------------------------
(* The invariant and what follows from it *)

THEOREM UniqueInit == Init => Unique
<1> SUFFICES ASSUME Init
             PROVE  Unique
  OBVIOUS
<1> DEFINE none == <<>>
<1>1. \A x \in Addresses : heap[x] # Null => heap[x].kids = none
  BY DEF Init, NewItem
<1>2. \A x \in Addresses : Tidy(heap, heap[x].kind, none)
  BY TidyEmpty
<1> HIDE DEF none
<1>3. Neat(heap, mutated)
  BY <1>1, <1>2 DEF Neat
<1>4. QED
  BY <1>3, SoundInit DEF Unique

THEOREM UniqueStep ==
    ASSUME Unique, [Next]_vars
    PROVE  Unique'
<1>1. Sound'
  BY SoundStep DEF Unique
<1> SUFFICES Neat(heap, mutated)'
  BY <1>1 DEF Unique
<1>2. CASE Return
  BY <1>2, AnswerNeat DEF Return
<1>3. CASE Own
  BY <1>3, OwnNeat
<1>4. CASE AddItem
  <2>1. UsedPolicies \subseteq Policies
    BY BoundsAssumption
  <2>2. QED
    BY <1>4, <2>1, AddCopyNeat, AddMoveNeat, AddPointerNeat DEF AddItem
<1>5. CASE RemoveItem
  BY <1>5, RemoveItemNeat
<1>6. CASE Mutate
  BY <1>6, MutateNeat
<1>7. CASE ConfigCall
  BY <1>7, ConfigCallNeat
<1>8. CASE ImportStep
  <2>1. CASE EndImport
    BY <2>1, AnswerNeat DEF EndImport
  <2>2. QED
    BY <1>8, <2>1, ImportItemNeat DEF ImportStep
<1>9. CASE UNCHANGED vars
  BY <1>9, AnswerNeat DEF vars
<1>10. QED
  BY <1>2, <1>3, <1>4, <1>5, <1>6, <1>7, <1>8, <1>9 DEF Next

\* In every reachable state every container outside mutated is tidy.
THEOREM Uniqueness == Spec => []Unique
BY UniqueInit, UniqueStep, PTL DEF Spec

\* What the properties of Document say is what Tidy says, position by position.
LEMMA TidyKeyed ==
    ASSUME Unique, NEW t \in Live \ mutated
    PROVE  \A j, k \in Keyed(heap, t) :
              /\ Fit(heap, heap[t].kind, heap[t].kids[j])
              /\ Alike(heap, heap[t].kind, heap[t].kids[j], heap[t].kids[k]) => j = k
<1>1. t \in Addresses /\ heap[t] # Null /\ WellTyped(heap)
  BY DEF Live, Unique, Sound
<1>2. Tidy(heap, heap[t].kind, heap[t].kids) /\ DOMAIN heap[t].kids = 1..Len(heap[t].kids)
  BY <1>1, ItemFields, LenProperties DEF Unique, Neat
<1>3. QED
  BY <1>2 DEF Tidy, Keyed

\* No sequence of calls, whatever the overloads and policies, brings two items
\* of one name, or one without a valid name, into a group whose items were never
\* renamed or reassigned in place (Group::BeforeAdditionActions).
THEOREM NamesStayUnique == Spec => []UniqueNames
<1>1. ASSUME Unique, NEW t \in Live \ mutated, heap[t].kind = "Group"
      PROVE  UniqueNamesIn(heap, t)
  <2>1. \A j, k \in Keyed(heap, t) :
           /\ Fit(heap, "Group", heap[t].kids[j])
           /\ Alike(heap, "Group", heap[t].kids[j], heap[t].kids[k]) => j = k
    BY <1>1, TidyKeyed
  <2>2. QED
    BY <2>1 DEF UniqueNamesIn, Fit, Alike
<1>2. Unique => UniqueNames
  BY <1>1 DEF UniqueNames, UniqueNamesIn
<1>3. QED
  BY <1>2, Uniqueness, PTL

\* The same for lists: no named item and no value twice
\* (List::BeforeAdditionActions), NaN excepted.
THEOREM ValuesStayDistinct == Spec => []DistinctListValues
<1>1. ASSUME Unique, NEW t \in Live \ mutated, heap[t].kind = "List"
      PROVE  DistinctValuesIn(heap, t)
  <2>1. \A j, k \in Keyed(heap, t) :
           /\ Fit(heap, "List", heap[t].kids[j])
           /\ Alike(heap, "List", heap[t].kids[j], heap[t].kids[k]) => j = k
    BY <1>1, TidyKeyed
  <2>2. QED
    BY <2>1 DEF DistinctValuesIn, Fit, Alike
<1>2. Unique => DistinctListValues
  BY <1>1 DEF DistinctListValues, DistinctValuesIn
<1>3. QED
  BY <1>2, Uniqueness, PTL

\* In such a group the lookup of a name that no comment has gives the one item
\* of that name (Container::LookUp).
THEOREM KeysAreFound == Spec => []KeysResolve
<1>1. ASSUME Unique, NEW t \in Live \ mutated, heap[t].kind = "Group",
             NEW k \in Keyed(heap, t),
             heap[heap[t].kids[k]].name \notin CommentNames(t)
      PROVE  Step(heap, Start(t), Named(heap[heap[t].kids[k]].name))
               = [at |-> heap[t].kids[k], err |-> "none"]
  <2> DEFINE kids == heap[t].kids
             name == heap[kids[k]].name
             I    == {j \in 1..Len(kids) : heap[kids[j]].name = name}
             found == Find(heap, t, Named(name))
  <2>1. /\ t \in Addresses /\ heap[t] # Null /\ WellTyped(heap) /\ t \in DOMAIN heap
        /\ DOMAIN kids = 1..Len(kids) /\ Len(kids) \in Nat
        /\ Kids(heap, t) = {kids[j] : j \in 1..Len(kids)}
    <3>1. t \in Addresses /\ heap[t] # Null /\ WellTyped(heap)
      BY <1>1 DEF Live, Unique, Sound
    <3>2. QED
      BY <3>1, ItemFields, LenProperties DEF WellTyped
  <2>2. k \in I
    BY <2>1 DEF Keyed
  <2>3. found = CHOOSE m \in I : \A n \in I : m <= n
    BY <2>2 DEF Find, Named, SelectInSeq, Min
  <2>4. \E m \in I : \A n \in I : m <= n
    <3>1. I \in SUBSET Nat
      OBVIOUS
    <3>2. QED
      BY <2>2, <3>1, LeastElement
  <2>5. found \in I
    BY <2>3, <2>4
  <2> HIDE DEF found
  <2>6. heap[kids[found]].kind # "Comment"
    BY <1>1, <2>1, <2>5 DEF CommentNames
  <2>7. found \in Keyed(heap, t)
    BY <2>1, <2>5, <2>6 DEF Keyed
  <2>8. found = k
    <3>1. Alike(heap, heap[t].kind, kids[found], kids[k])
      BY <1>1, <2>5 DEF Alike
    <3>2. QED
      BY <1>1, <2>7, <3>1, TidyKeyed
  <2>9. found # 0
    BY <2>5
  <2>10. IsContainer(heap, t)
    BY <1>1, <2>1 DEF IsContainer, ContainerKinds
  <2>11. QED
    BY <2>8, <2>9, <2>10 DEF Step, Start, found
<1>2. Unique => KeysResolve
  BY <1>1 DEF KeysResolve
<1>3. QED
  BY <1>2, Uniqueness, PTL

-----------------------------------------------------------------------------
(***************************************************************************)
(* What the calls of Document leave behind: the two copies of a Config's    *)
(* policy, refused calls, comments, removals, imports, cycles.              *)
(***************************************************************************)
(* What every call does *)

\* Once a call has committed the heap h, an item is what h says or destroyed,
\* and the root of a Config is what h says.
LEMMA Committed ==
    ASSUME NEW h, NEW p, NEW touched, Commit(h, p, touched)
    PROVE  /\ \A x \in Addresses : heap'[x] = h[x] \/ heap'[x] = Null
           /\ \A c \in Configs : heap'[c] = h[c]
           /\ hand' = p /\ mutated' \subseteq touched
           /\ \A x \in touched : heap'[x] # Null => x \in mutated'
BY DEF Commit, Settled, Addresses

\* What Clone() and Add make of the heap, answer by answer.
LEMMA CloneAndAddAnswer ==
    ASSUME Sound, NEW t \in Targets, NEW x \in Ids \cap Free,
           NEW y \in Addresses, heap[y] # Null, NEW p \in Policies,
           NEW h, Puts(heap, x, heap[y], h)
    PROVE  /\ WellTyped(h) /\ Closed(h) /\ h[x] = heap[y]
           /\ \A z \in Addresses \ {x} : h[z] = heap[z]
           /\ t \in Addresses /\ t # x /\ IsContainer(h, t)
           /\ x \in Addresses /\ x \notin Configs /\ heap[x] = Null /\ h[x] # Null
<1>1. x \in Addresses /\ x \in Ids /\ x \notin Configs /\ heap[x] = Null
  BY AddressesAssumption DEF Addresses, Free, Live
<1>2. /\ WellTyped(h) /\ Closed(h) /\ h[x] = heap[y] /\ h[x] # Null
      /\ \A z \in Addresses \ {x} : h[z] = heap[z]
  BY <1>1, CopySound DEF Sound
<1>3. t \in Addresses /\ IsContainer(heap, t) /\ heap[t] # Null
  BY TargetSound
<1>4. t # x /\ IsContainer(h, t)
  BY <1>1, <1>2, <1>3 DEF IsContainer, WellTyped
<1>5. QED
  BY <1>1, <1>2, <1>3, <1>4

\* Moving an item out before it is added leaves it empty where it was.
LEMMA MoveOutSound ==
    ASSUME Sound, NEW x \in Addresses, heap[hand] # Null, hand \in Ids, x # hand,
           x \in Configs => heap[hand].kind = "Group",
           NEW copied, Puts(heap, x, heap[hand], copied),
           NEW moved, Puts(copied, hand, MovedFrom(heap[hand]), moved)
    PROVE  /\ WellTyped(moved) /\ Closed(moved)
           /\ moved[x] = heap[hand] /\ moved[hand] = MovedFrom(heap[hand])
           /\ moved[hand] # Null /\ moved[hand].kids = <<>>
           /\ moved[hand].kind = heap[hand].kind
           /\ \A z \in Addresses \ {x, hand} : moved[z] = heap[z]
<1>1. hand \in Addresses
  BY DEF Addresses
<1>2. /\ WellTyped(copied) /\ Closed(copied) /\ copied[x] = heap[hand]
      /\ \A z \in Addresses \ {x} : copied[z] = heap[z]
  BY <1>1, CopySound DEF Sound
<1>3. copied[hand] = heap[hand] /\ copied[hand] # Null
  BY <1>1, <1>2
<1>4. /\ WellTyped(moved) /\ Closed(moved)
      /\ moved[hand] = MovedFrom(heap[hand]) /\ moved[hand] # Null
      /\ MovedFrom(heap[hand]).kids = <<>>
      /\ MovedFrom(heap[hand]).kind = heap[hand].kind
      /\ \A z \in Addresses \ {hand} : moved[z] = copied[z]
  BY <1>1, <1>2, <1>3, MovedFromSound
<1>5. QED
  BY <1>1, <1>2, <1>4

-----------------------------------------------------------------------------
(* Answers *)

\* The Add that a step makes: g is the heap just before it, x the item.
Adds(t, p, x, g) ==
    /\ WellTyped(g) /\ Closed(g) /\ t \in Addresses /\ IsContainer(g, t)
    /\ x \in Ids /\ g[x] # Null /\ p \in Policies
    /\ ret' = [out |-> AddTo(g, t, x, p).out, item |-> AddTo(g, t, x, p).item]
    /\ policy' = policy /\ t # x
    /\ \E touched : Commit(AddTo(g, t, x, p).heap, hand, touched)

\* The four ways to come to an Add: the item to be added is at x, everything
\* else is as it was but an item handed over by move.
AddsItem(t, p, x, g) ==
    /\ Adds(t, p, x, g)
    /\ heap[Incoming] # Null /\ g[x].kind = heap[Incoming].kind
    /\ t \in Live /\ g[t] # Null /\ g[t].kind = heap[t].kind
    /\ \A z \in Live \ {hand} : g[z] = heap[z]
    /\ \A z \in Live : g[z].kind = heap[z].kind

LEMMA AddCopyAdds ==
    ASSUME Sound, NEW t, NEW p \in Policies, NEW x \in Ids, AddCopy(t, p, x)
    PROVE  AddsItem(t, p, x, [heap EXCEPT ![x] = heap[hand]])
<1> DEFINE g == [heap EXCEPT ![x] = heap[hand]]
<1>1. /\ hand \in Ids /\ hand \in Addresses /\ heap[hand] # Null
      /\ t \in Targets /\ x \in Ids \cap Free /\ Idle
  BY DEF AddCopy, Ready, Sound, Addresses
<1>2. /\ Commit(AddTo(g, t, x, p).heap, hand, Passed(mutated, hand, x))
      /\ ret' = [out |-> AddTo(g, t, x, p).out, item |-> AddTo(g, t, x, p).item]
      /\ policy' = policy
  BY DEF AddCopy, Answer
<1>3. Puts(heap, x, heap[hand], g)
  BY DEF Puts
<1> HIDE DEF g
<1>4. /\ WellTyped(g) /\ Closed(g) /\ g[x] = heap[hand]
      /\ \A z \in Addresses \ {x} : g[z] = heap[z]
      /\ t \in Addresses /\ t # x /\ IsContainer(g, t)
      /\ heap[x] = Null /\ g[x] # Null
  BY <1>1, <1>3, CloneAndAddAnswer
<1>5. Adds(t, p, x, g)
  BY <1>2, <1>4 DEF Adds
<1>6. t \in Live /\ g[t] = heap[t] /\ heap[t] # Null
  BY <1>1, <1>4 DEF Targets, Live
<1>7. \A z \in Live : g[z] = heap[z]
  BY <1>4 DEF Live
<1>8. AddsItem(t, p, x, g)
  BY <1>1, <1>4, <1>5, <1>6, <1>7 DEF AddsItem, Incoming
<1>9. QED
  BY <1>8 DEF g

LEMMA ImportItemAdds ==
    ASSUME Sound, NEW x \in Ids, ImportItem(x)
    PROVE  /\ AddsItem(import.dst, policy[import.dst], x, [heap EXCEPT ![x] = heap[Incoming]])
           /\ x \in Free /\ Incoming \in Addresses
           /\ import.src \in Configs /\ import.dst \in Configs /\ import.next \in Nat \ {0}
           /\ import.next \in 1..Len(heap[import.src].kids)
           /\ Incoming = heap[import.src].kids[import.next]
<1>0. import \in [src: Configs, dst: Configs, next: Nat \ {0}]
  BY DEF Sound, Imports, ImportItem, Idle
<1>1. import.src \in Configs /\ import.dst \in Configs /\ import.next \in Nat \ {0}
  BY <1>0
<1>2. import.src \in Targets /\ import.dst \in Targets
  BY <1>1 DEF Sound, WellTyped, Targets, Live, IsContainer, ContainerKinds, Addresses
<1> DEFINE t == import.dst
           p == policy[import.dst]
           y == heap[import.src].kids[import.next]
           g == [heap EXCEPT ![x] = heap[y]]
<1>3. /\ x \in Ids \cap Free
      /\ Commit(AddTo(g, t, x, p).heap, hand, Passed(mutated, y, x))
      /\ ret' = [out |-> AddTo(g, t, x, p).out, item |-> AddTo(g, t, x, p).item]
      /\ policy' = policy /\ import.next <= Len(heap[import.src].kids)
      /\ y = Incoming
  BY DEF ImportItem, Answer, Incoming
<1>4. import.next \in 1..Len(heap[import.src].kids) /\ y \in Addresses /\ heap[y] # Null
  <2>1. /\ heap[import.src].kids \in Seq(Ids)
        /\ \A k \in 1..Len(heap[import.src].kids) : heap[heap[import.src].kids[k]] # Null
    BY <1>2, TargetSound
  <2>2. import.next \in 1..Len(heap[import.src].kids)
    BY <1>1, <1>3, <2>1, LenProperties
  <2>3. QED
    BY <2>1, <2>2, ElementOfSeq DEF Addresses
<1>5. p \in Policies
  BY <1>1 DEF Sound
<1>6. Puts(heap, x, heap[y], g)
  BY DEF Puts
<1> HIDE DEF g, y, p
<1>7. /\ WellTyped(g) /\ Closed(g) /\ g[x] = heap[y]
      /\ \A z \in Addresses \ {x} : g[z] = heap[z]
      /\ t \in Addresses /\ t # x /\ IsContainer(g, t)
      /\ heap[x] = Null /\ g[x] # Null
  BY <1>2, <1>3, <1>4, <1>5, <1>6, CloneAndAddAnswer
<1>8. Adds(t, p, x, g)
  BY <1>3, <1>5, <1>7 DEF Adds
<1>9. t \in Live /\ g[t] = heap[t] /\ heap[t] # Null
  BY <1>2, <1>7 DEF Targets, Live
<1>10. \A z \in Live : g[z] = heap[z]
  BY <1>7 DEF Live
<1>11. AddsItem(t, p, x, g)
  BY <1>3, <1>4, <1>7, <1>8, <1>9, <1>10 DEF AddsItem
<1>12. y = heap[import.src].kids[import.next]
  BY DEF y
<1>13. QED
  BY <1>1, <1>3, <1>4, <1>11, <1>12 DEF g, p

LEMMA AddPointerAdds ==
    ASSUME Sound, NEW t, NEW p \in Policies, AddPointer(t, p)
    PROVE  AddsItem(t, p, hand, heap)
<1>1. /\ hand \in Ids /\ heap[hand] # Null /\ t \in Targets /\ Idle
      /\ NotUnder(t, {hand})
  BY DEF AddPointer, Ready, Sound, Addresses
<1>2. /\ Commit(AddTo(heap, t, hand, p).heap, hand, mutated)
      /\ ret' = [out |-> AddTo(heap, t, hand, p).out, item |-> AddTo(heap, t, hand, p).item]
      /\ policy' = policy
  BY DEF AddPointer, Answer
<1>3. t \in Addresses /\ IsContainer(heap, t) /\ heap[t] # Null
  BY <1>1, TargetSound
<1>4. t # hand
  <2>1. {hand} \subseteq Reach(heap, {hand})
    BY <1>1, ReachClosed DEF Sound
  <2>2. QED
    BY <1>1, <2>1 DEF NotUnder
<1>5. Adds(t, p, hand, heap)
  BY <1>1, <1>2, <1>3, <1>4 DEF Adds, Sound
<1>6. QED
  BY <1>1, <1>3, <1>5 DEF AddsItem, Incoming, Live

LEMMA AddMoveAdds ==
    ASSUME Sound, NEW t, NEW p \in Policies, NEW x \in Ids, AddMove(t, p, x)
    PROVE  AddsItem(t, p, x, [heap EXCEPT ![x] = heap[hand],
                                          ![hand] = MovedFrom(heap[hand])])
<1> DEFINE copied == [heap EXCEPT ![x] = heap[hand]]
           g      == [copied EXCEPT ![hand] = MovedFrom(heap[hand])]
<1>1. /\ hand \in Ids /\ hand \in Addresses /\ heap[hand] # Null /\ Idle
      /\ t \in Targets /\ x \in Ids /\ x \in Addresses /\ heap[x] = Null /\ x # hand
      /\ x \notin Configs /\ NotUnder(t, {hand})
  BY AddressesAssumption DEF AddMove, Ready, Sound, Addresses, Free, Live
<1>2. /\ Commit(AddTo(g, t, x, p).heap, hand,
                Passed(mutated \cup Holders(hand), hand, x) \ {hand})
      /\ ret' = [out |-> AddTo(g, t, x, p).out, item |-> AddTo(g, t, x, p).item]
      /\ policy' = policy
  BY DEF AddMove, Answer
<1>3. Puts(heap, x, heap[hand], copied) /\ Puts(copied, hand, MovedFrom(heap[hand]), g)
  BY DEF Puts
<1> HIDE DEF copied
<1>4. g = [copied EXCEPT ![hand] = MovedFrom(heap[hand])]
  OBVIOUS
<1> HIDE DEF g
<1>5. /\ WellTyped(g) /\ Closed(g) /\ g[x] = heap[hand]
      /\ g[hand] # Null /\ g[hand].kind = heap[hand].kind
      /\ \A z \in Addresses \ {x, hand} : g[z] = heap[z]
  BY <1>1, <1>3, MoveOutSound
<1>6. t \in Addresses /\ IsContainer(heap, t) /\ heap[t] # Null
  BY <1>1, TargetSound
<1>7. t # hand
  <2>1. {hand} \subseteq Reach(heap, {hand})
    BY <1>1, ReachClosed DEF Sound
  <2>2. QED
    BY <1>1, <2>1 DEF NotUnder
<1>8. g[t] = heap[t] /\ t # x /\ IsContainer(g, t)
  BY <1>1, <1>5, <1>6, <1>7 DEF IsContainer, WellTyped
<1>9. Adds(t, p, x, g)
  BY <1>1, <1>2, <1>5, <1>6, <1>8 DEF Adds
<1>10. /\ \A z \in Live \ {hand} : g[z] = heap[z]
       /\ \A z \in Live : g[z].kind = heap[z].kind
  BY <1>1, <1>5 DEF Live
<1>11. AddsItem(t, p, x, g)
  BY <1>1, <1>5, <1>6, <1>8, <1>9, <1>10 DEF AddsItem, Incoming, Live
<1>12. QED
  BY <1>11 DEF g, copied

\* A step is an Add, answers without an error, or fails without a trace.
LEMMA StepAnswers ==
    ASSUME Sound, Next
    PROVE  \/ \E t, p, x, g : AddsItem(t, p, x, g)
           \/ ret'.out \in {"none", "done", "removed", "imported"}
           \/ ret'.out \in LookUpErrors \cup {"InvalidPath", "WrongType"} /\ heap' = heap
<1>1. CASE Return
  BY <1>1 DEF Return, NoAnswer
<1>2. CASE Own
  <2>1. ASSUME NEW x, NEW kind, NEW name, NEW val, Make(x, kind, name, val)
        PROVE  ret'.out = "done"
    BY <2>1 DEF Make, Answer
  <2>2. ASSUME NEW x, Take(x) \/ Release
        PROVE  ret'.out = "done"
    BY <2>2 DEF Take, Release, Answer
  <2>3. QED
    BY <1>2, <2>1, <2>2 DEF Own
<1>3. CASE AddItem
  <2>1. UsedPolicies \subseteq Policies
    BY BoundsAssumption
  <2>2. QED
    BY <1>3, <2>1, AddCopyAdds, AddMoveAdds, AddPointerAdds DEF AddItem
<1>4. CASE RemoveItem
  <2>1. ASSUME NEW t, NEW i, RemoveIndex(t, i)
        PROVE  ret'.out = "removed" \/ (ret'.out = "OutOfBounds" /\ heap' = heap)
    BY <2>1 DEF RemoveIndex, Answer
  <2>2. ASSUME NEW t, NEW path, RemovePath(t, path)
        PROVE  \/ ret'.out = "removed"
               \/ ret'.out \in LookUpErrors \cup {"InvalidPath"} /\ heap' = heap
    BY <2>2 DEF RemovePath, Answer
  <2>3. ASSUME NEW t, Clear(t)
        PROVE  ret'.out = "done"
    BY <2>3 DEF Clear, Answer
  <2>4. QED
    BY <1>4, <2>1, <2>2, <2>3 DEF RemoveItem, LookUpErrors
<1>5. CASE Mutate
  <2>1. ASSUME NEW x, NEW v, SetValue(x, v)
        PROVE  ret'.out = "done" \/ (ret'.out = "WrongType" /\ heap' = heap)
    BY <2>1 DEF SetValue, Answer
  <2>2. ASSUME NEW x, NEW v, Rename(x, v) \/ SetText(x, v) \/ SetOnExistingAction(x, v)
        PROVE  ret'.out = "done"
    BY <2>2 DEF Rename, SetText, SetOnExistingAction, Answer
  <2>3. ASSUME NEW x, Assign(x) \/ AssignMove(x)
        PROVE  ret'.out = "done"
    BY <2>3 DEF Assign, AssignMove, Answer
  <2>4. QED
    BY <1>5, <2>1, <2>2, <2>3 DEF Mutate
<1>6. CASE ConfigCall
  <2>1. ASSUME NEW c, NEW d, StartImport(c, d)
        PROVE  ret'.out = "none"
    BY <2>1 DEF StartImport, Ready, NoAnswer
  <2>2. ASSUME NEW c, NEW d, OnExistingAction(c, d) \/ CopyConfig(c, d) \/ MoveConfig(c, d)
        PROVE  ret'.out = "done"
    BY <2>2 DEF OnExistingAction, CopyConfig, MoveConfig, Answer
  <2>3. QED
    BY <1>6, <2>1, <2>2 DEF ConfigCall
<1>7. CASE ImportStep
  <2>1. CASE EndImport
    BY <2>1 DEF EndImport, Answer
  <2>2. QED
    BY <1>7, <2>1, ImportItemAdds DEF ImportStep
<1>8. QED
  BY <1>1, <1>2, <1>3, <1>4, <1>5, <1>6, <1>7 DEF Next

\* Neither taking the policy over nor letting an item in changes what another
\* item is made of.
LEMMA AddsNothingElse ==
    ASSUME NEW t, NEW p, NEW x, NEW g, AddsItem(t, p, x, g)
    PROVE  LET o == Offered(g, x, p)
           IN  /\ WellTyped(o) /\ Closed(o) /\ IsContainer(o, t)
               /\ t \in Addresses /\ x \in Addresses /\ t # x
               /\ o[x] # Null /\ o[x].kind = g[x].kind /\ o[x].name = g[x].name
               /\ o[x].val = g[x].val /\ o[x].kids = g[x].kids
               /\ \A y \in Addresses \ {x} : o[y] = g[y]
<1> DEFINE o == Offered(g, x, p)
<1>1. /\ WellTyped(g) /\ Closed(g) /\ t \in Addresses /\ IsContainer(g, t)
      /\ x \in Ids /\ x \in Addresses /\ g[x] # Null /\ p \in Policies /\ t # x
  BY DEF AddsItem, Adds, Addresses
<1>2. /\ WellTyped(o) /\ Closed(o) /\ \A y \in Addresses \ {x} : o[y] = g[y]
      /\ o[x] # Null /\ o[x].kind = g[x].kind /\ o[x].name = g[x].name
      /\ o[x].val = g[x].val /\ o[x].kids = g[x].kids
  BY <1>1, OfferedKeeps DEF AnyPolicy
<1> HIDE DEF o
<1>3. IsContainer(o, t)
  BY <1>1, <1>2 DEF IsContainer, WellTyped
<1>4. QED
  BY <1>1, <1>2, <1>3 DEF o

\* An Add that refuses, or keeps the item it has, leaves every item but the one
\* handed over as it was, and is not an Add of a comment.
LEMMA RefusedKeeps ==
    ASSUME Sound, NEW t, NEW p, NEW x, NEW g, AddsItem(t, p, x, g),
           ret'.out \in AddErrors \cup {"kept"}
    PROVE  /\ heap[Incoming].kind # "Comment"
           /\ \A y \in Live \ {hand} : heap'[y] # Null => SameContents(heap[y], heap'[y])
<1> DEFINE r == AddTo(g, t, x, p)
           o == Offered(g, x, p)
<1>1. /\ WellTyped(g) /\ Closed(g) /\ t \in Addresses /\ IsContainer(g, t)
      /\ x \in Ids /\ g[x] # Null /\ p \in Policies /\ ret'.out = r.out
  BY DEF AddsItem, Adds
<1>2. /\ r.heap = o /\ o[x].kind # "Comment"
  BY <1>1, AddToAnswer DEF AddErrors
<1>3. PICK touched : Commit(r.heap, hand, touched)
  BY DEF AddsItem, Adds
<1>4. /\ o[x].kind = g[x].kind /\ o[x].name = g[x].name
      /\ o[x].val = g[x].val /\ o[x].kids = g[x].kids
      /\ \A y \in Addresses \ {x} : o[y] = g[y]
  BY AddsNothingElse
<1> HIDE DEF r, o
<1>5. \A y \in Addresses : heap'[y] = o[y] \/ heap'[y] = Null
  BY <1>2, <1>3, Committed
<1>6. heap[Incoming].kind # "Comment"
  BY <1>2, <1>4 DEF AddsItem
<1>7. ASSUME NEW y \in Live \ {hand}, heap'[y] # Null
      PROVE  SameContents(heap[y], heap'[y])
  <2>1. y \in Addresses /\ g[y] = heap[y]
    BY DEF AddsItem, Live
  <2>2. CASE y = x
    BY <1>4, <1>5, <1>7, <2>1, <2>2 DEF SameContents
  <2>3. CASE y # x
    BY <1>4, <1>5, <1>7, <2>1, <2>3 DEF SameContents
  <2>4. QED
    BY <2>2, <2>3
<1>8. QED
  BY <1>6, <1>7

\* A call that throws, or keeps the item it has, leaves the contents of every
\* item but the one handed over by move as they were (BeforeAdditionActions
\* erases nothing before its last check).
THEOREM RefusalsLeaveNoTrace == Spec => RefusedCallKeepsContents
<1>1. ASSUME Sound, Next, ret'.out \in Errors \cup {"kept"},
             NEW y \in Live \ {hand}, heap'[y] # Null
      PROVE  SameContents(heap[y], heap'[y])
  <2>1. CASE heap' = heap
    BY <2>1 DEF SameContents
  <2>2. ASSUME NEW t, NEW p, NEW x, NEW g, AddsItem(t, p, x, g)
        PROVE  SameContents(heap[y], heap'[y])
    <3>1. ret'.out \in AddOutcomes
      <4>1. /\ WellTyped(g) /\ Closed(g) /\ t \in Addresses /\ IsContainer(g, t)
            /\ x \in Ids /\ g[x] # Null /\ p \in Policies
            /\ ret'.out = AddTo(g, t, x, p).out
        BY <2>2 DEF AddsItem, Adds
      <4>2. QED
        BY <4>1, AddToOutcome DEF AnyPolicy
    <3>2. ret'.out \in AddErrors \cup {"kept"}
      BY <1>1, <3>1 DEF AddOutcomes, Errors, LookUpErrors
    <3>3. QED
      BY <1>1, <2>2, <3>2, RefusedKeeps
  <2>3. QED
    BY <1>1, <2>1, <2>2, StepAnswers DEF Errors, AddErrors, LookUpErrors
<1>2. Sound /\ [Next]_vars =>
         [ret'.out \in Errors \cup {"kept"} =>
            \A x \in Live \ {hand} : heap'[x] # Null => SameContents(heap[x], heap'[x])]_vars
  BY <1>1
<1>3. QED
  BY <1>2, Soundness, PTL DEF Spec, RefusedCallKeepsContents

-----------------------------------------------------------------------------
(* The policy of a Config and of its root *)

\* A Config is live, is no item and is not the client's own.
LEMMA ConfigsLive ==
    ASSUME Sound
    PROVE  \A c \in Configs : /\ c \in Addresses /\ c \in Live /\ c # hand /\ c \notin Ids
                              /\ heap[c] # Null /\ heap[c].kind = "Group"
                              /\ c \in Targets
<1>1. \A c \in Configs : /\ c \in Addresses /\ c \notin Ids
                         /\ heap[c] # Null /\ heap[c].kind = "Group" /\ c # Null
  BY AddressesAssumption DEF Addresses, Sound, WellTyped
<1>2. hand \in Ids \cup {Null}
  BY DEF Sound
<1>3. \A c \in Configs : c \in DOMAIN heap
  BY <1>1 DEF Sound, WellTyped
<1>4. QED
  BY <1>1, <1>2, <1>3 DEF Live, Targets, IsContainer, ContainerKinds

\* Adding to a root leaves its policy alone.
LEMMA AddsKeepRoots ==
    ASSUME Sound, NEW t, NEW p, NEW x, NEW g, AddsItem(t, p, x, g)
    PROVE  policy' = policy /\ \A c \in Configs : heap'[c].policy = heap[c].policy
<1> DEFINE r == AddTo(g, t, x, p)
           o == Offered(g, x, p)
<1>1. /\ WellTyped(g) /\ Closed(g) /\ t \in Addresses /\ IsContainer(g, t)
      /\ x \in Ids /\ g[x] # Null /\ p \in Policies /\ policy' = policy
  BY DEF AddsItem, Adds
<1>2. r.heap = o \/ Grown(o, t, x, r.heap)
  BY <1>1, AddToOutcome DEF AnyPolicy
<1>3. PICK touched : Commit(r.heap, hand, touched)
  BY DEF AddsItem, Adds
<1>4. WellTyped(o) /\ \A y \in Addresses \ {x} : o[y] = g[y]
  BY AddsNothingElse
<1> HIDE DEF r, o
<1>5. ASSUME NEW c \in Configs
      PROVE  heap'[c].policy = heap[c].policy
  <2>1. c \in Addresses \ {x} /\ c \in Live \ {hand}
    BY <1>1, ConfigsLive
  <2>2. o[c] = heap[c]
    BY <1>4, <2>1 DEF AddsItem
  <2>3. heap'[c] = r.heap[c]
    BY <1>3, Committed
  <2>4. CASE r.heap = o
    BY <2>2, <2>3, <2>4
  <2>5. ASSUME NEW kids, r.heap = [o EXCEPT ![t].kids = kids]
        PROVE  r.heap[c].policy = o[c].policy
    <3>1. o \in [Addresses -> Item \cup {Null}] /\ o[c] # Null
      BY <1>4, <2>2, ConfigsLive DEF WellTyped
    <3>2. o[c] \in Item
      BY <2>1, <3>1
    <3>3. [o[c] EXCEPT !.kids = kids].policy = o[c].policy
      BY <3>2 DEF Item
    <3>4. QED
      BY <2>1, <2>5, <3>1, <3>3
  <2>6. QED
    BY <1>2, <2>2, <2>3, <2>4, <2>5 DEF Grown
<1>6. QED
  BY <1>1, <1>5

\* Committing a heap whose roots have the policies of their Configs.
LEMMA ItemsKeepRoots ==
    ASSUME Sound, NEW h, NEW p, NEW touched, Commit(h, p, touched),
           \A c \in Configs : h[c].policy = policy'[c]
    PROVE  RootPolicyAgrees'
BY Committed DEF RootPolicyAgrees

LEMMA RootsStep ==
    ASSUME Sound, RootPolicyAgrees, [Next]_vars
    PROVE  RootPolicyAgrees'
<1>0. /\ heap \in [Addresses -> Item \cup {Null}] /\ policy \in [Configs -> Policies]
      /\ \A c \in Configs : c \in Addresses /\ c \notin Ids /\ heap[c] # Null
      /\ \A c \in Configs : heap[c] \in Item /\ heap[c].policy = policy[c]
  BY ConfigsLive DEF Sound, WellTyped, RootPolicyAgrees
<1>1. CASE heap' = heap /\ policy' = policy
  BY <1>1 DEF RootPolicyAgrees
<1>2. ASSUME NEW h, NEW p, NEW touched, Commit(h, p, touched), policy' = policy,
             \A c \in Configs : h[c] = heap[c]
      PROVE  RootPolicyAgrees'
  BY <1>0, <1>2, ItemsKeepRoots
<1>3. CASE Return
  BY <1>1, <1>3 DEF Return
<1>4. CASE Own
  <2>1. ASSUME NEW x \in Ids, NEW kind, NEW name, NEW val, Make(x, kind, name, val)
        PROVE  RootPolicyAgrees'
    <3> DEFINE h == [heap EXCEPT ![x] = NewItem(kind, name, val)]
    <3>1. Commit(h, x, mutated) /\ policy' = policy
      BY <2>1 DEF Make
    <3>2. \A c \in Configs : h[c] = heap[c]
      BY <1>0
    <3> HIDE DEF h
    <3>3. QED
      BY <1>2, <3>1, <3>2
  <2>2. ASSUME NEW x, Take(x)
        PROVE  RootPolicyAgrees'
    BY <1>2, <2>2 DEF Take
  <2>3. CASE Release
    BY <1>2, <2>3 DEF Release
  <2>4. QED
    BY <1>4, <2>1, <2>2, <2>3 DEF Own
<1>5. ASSUME NEW t, NEW p, NEW x, NEW g, AddsItem(t, p, x, g)
      PROVE  RootPolicyAgrees'
  BY <1>0, <1>5, AddsKeepRoots DEF RootPolicyAgrees
<1>6. CASE AddItem
  <2>1. UsedPolicies \subseteq Policies
    BY BoundsAssumption
  <2>2. QED
    BY <1>5, <1>6, <2>1, AddCopyAdds, AddMoveAdds, AddPointerAdds DEF AddItem
<1>7. ASSUME NEW t \in Targets, NEW kids,
             Commit([heap EXCEPT ![t].kids = kids], hand, mutated), policy' = policy
      PROVE  RootPolicyAgrees'
  <2> DEFINE h == [heap EXCEPT ![t].kids = kids]
  <2>1. \A c \in Configs : [heap[c] EXCEPT !.kids = kids].policy = heap[c].policy
    BY <1>0 DEF Item
  <2>2. \A c \in Configs : h[c].policy = policy'[c]
    BY <1>0, <1>7, <2>1
  <2>3. Commit(h, hand, mutated)
    BY <1>7
  <2> HIDE DEF h
  <2>4. QED
    BY <2>2, <2>3, ItemsKeepRoots
<1>8. CASE RemoveItem
  <2>1. ASSUME NEW t, NEW i, RemoveIndex(t, i)
        PROVE  RootPolicyAgrees'
    BY <1>1, <1>7, <2>1 DEF RemoveIndex
  <2>2. ASSUME NEW t, NEW path, RemovePath(t, path)
        PROVE  RootPolicyAgrees'
    BY <1>1, <1>7, <2>2 DEF RemovePath
  <2>3. ASSUME NEW t, Clear(t)
        PROVE  RootPolicyAgrees'
    BY <1>7, <2>3 DEF Clear
  <2>4. QED
    BY <1>8, <2>1, <2>2, <2>3 DEF RemoveItem
<1>9. CASE Mutate
  <2>1. PICK x \in Ids : \/ \E name \in AnyName : Rename(x, name)
                         \/ \E v \in Vals : SetValue(x, v) \/ SetText(x, v)
                         \/ Assign(x) \/ AssignMove(x)
                         \/ \E p \in UsedPolicies : SetOnExistingAction(x, p)
    BY <1>9 DEF Mutate
  <2>2. \A item : \A c \in Configs : [heap EXCEPT ![x] = item][c] = heap[c]
    BY <1>0
  <2>3. ASSUME NEW item, NEW touched, Commit([heap EXCEPT ![x] = item], hand, touched),
               policy' = policy
        PROVE  RootPolicyAgrees'
    <3> DEFINE h == [heap EXCEPT ![x] = item]
    <3>1. Commit(h, hand, touched) /\ \A c \in Configs : h[c] = heap[c]
      BY <2>2, <2>3
    <3> HIDE DEF h
    <3>2. QED
      BY <1>2, <2>3, <3>1
  <2>4. ASSUME NEW name, Rename(x, name)
        PROVE  RootPolicyAgrees'
    BY <2>3, <2>4 DEF Rename
  <2>5. ASSUME NEW v, SetValue(x, v)
        PROVE  RootPolicyAgrees'
    BY <1>1, <2>3, <2>5 DEF SetValue
  <2>6. ASSUME NEW v, SetText(x, v)
        PROVE  RootPolicyAgrees'
    BY <2>3, <2>6 DEF SetText
  <2>7. CASE Assign(x)
    BY <2>3, <2>7 DEF Assign
  <2>8. CASE AssignMove(x)
    <3> DEFINE h == [heap EXCEPT ![x] = heap[hand], ![hand] = MovedFrom(heap[hand])]
    <3>1. /\ Commit(h, hand, Passed(mutated \cup Holders(x) \cup Holders(hand), hand, x)
                               \ {hand})
          /\ policy' = policy
      BY <2>8 DEF AssignMove
    <3>2. \A c \in Configs : c # hand /\ c # x
      BY ConfigsLive
    <3>3. \A c \in Configs : h[c] = heap[c]
      BY <1>0, <3>2
    <3> HIDE DEF h
    <3>4. QED
      BY <1>2, <3>1, <3>3
  <2>9. ASSUME NEW p, SetOnExistingAction(x, p)
        PROVE  RootPolicyAgrees'
    BY <2>3, <2>9 DEF SetOnExistingAction
  <2>10. QED
    BY <2>1, <2>4, <2>5, <2>6, <2>7, <2>8, <2>9
<1>10. CASE ConfigCall
  <2>1. ASSUME NEW c \in Configs, NEW p \in UsedPolicies, OnExistingAction(c, p)
        PROVE  RootPolicyAgrees'
    <3> DEFINE h == [heap EXCEPT ![c].policy = p]
    <3>1. Commit(h, hand, mutated) /\ policy' = [policy EXCEPT ![c] = p]
      BY <2>1 DEF OnExistingAction
    <3>2. [heap[c] EXCEPT !.policy = p].policy = p
      BY <1>0 DEF Item
    <3>3. \A d \in Configs : h[d].policy = policy'[d]
      BY <1>0, <3>1, <3>2
    <3> HIDE DEF h
    <3>4. QED
      BY <3>1, <3>3, ItemsKeepRoots
  <2>2. ASSUME NEW c \in Configs, NEW d \in Configs, CopyConfig(c, d)
        PROVE  RootPolicyAgrees'
    <3> DEFINE h == [heap EXCEPT ![d] = heap[c]]
    <3>1. /\ Commit(h, hand, Passed(mutated, c, d))
          /\ policy' = [policy EXCEPT ![d] = policy[c]]
      BY <2>2 DEF CopyConfig
    <3>2. \A e \in Configs : h[e].policy = policy'[e]
      BY <1>0, <3>1
    <3> HIDE DEF h
    <3>3. QED
      BY <3>1, <3>2, ItemsKeepRoots
  <2>3. ASSUME NEW c \in Configs, NEW d \in Configs, MoveConfig(c, d)
        PROVE  RootPolicyAgrees'
    <3> DEFINE h == [heap EXCEPT ![d] = heap[c], ![c] = MovedFrom(heap[c])]
    <3>1. /\ Commit(h, hand, Passed(mutated, c, d) \ {c}) /\ c # d
          /\ policy' = [policy EXCEPT ![d] = policy[c]]
      BY <2>3 DEF MoveConfig
    <3>2. MovedFrom(heap[c]).policy = heap[c].policy
      BY <1>0 DEF Item, MovedFrom
    <3>3. \A e \in Configs : h[e].policy = policy'[e]
      BY <1>0, <3>1, <3>2
    <3> HIDE DEF h
    <3>4. QED
      BY <3>1, <3>3, ItemsKeepRoots
  <2>4. ASSUME NEW c \in Configs, NEW d \in Configs, StartImport(c, d)
        PROVE  RootPolicyAgrees'
    BY <1>1, <2>4 DEF StartImport
  <2>5. QED
    BY <1>10, <2>1, <2>2, <2>3, <2>4 DEF ConfigCall
<1>11. CASE ImportStep
  <2>1. CASE EndImport
    BY <1>1, <2>1 DEF EndImport
  <2>2. QED
    BY <1>5, <1>11, <2>1, ImportItemAdds DEF ImportStep
<1>12. CASE UNCHANGED vars
  BY <1>1, <1>12 DEF vars
<1>13. QED
  BY <1>3, <1>4, <1>6, <1>8, <1>9, <1>10, <1>11, <1>12 DEF Next

\* A Config and its root hold one policy, after every call (Config's copy and
\* move operations, and OnExistingAction).
THEOREM RootsAgree == Spec => []RootPolicyAgrees
<1>1. Init => RootPolicyAgrees
  BY DEF Init, NewItem, RootPolicyAgrees, Addresses
<1>2. Sound /\ RootPolicyAgrees /\ [Next]_vars => RootPolicyAgrees'
  BY RootsStep
<1>3. QED
  BY <1>1, <1>2, Soundness, PTL DEF Spec

-----------------------------------------------------------------------------
(* Comments *)

\* The comments of a container whose items stay where they are.
LEMMA CommentsStay ==
    ASSUME NEW h, NEW g, NEW t, NEW s \in Seq(Ids), h[t].kids = s,
           NEW new \in Seq(Ids), g[t].kids = new, Len(s) <= Len(new),
           \A k \in 1..Len(s) : new[k] = s[k] /\ g[s[k]].kind = h[s[k]].kind
    PROVE  MoreComments(h, g, t)
<1> DEFINE A == CommentsOf(h, t)
           B == CommentsOf(g, t)
           to == [j \in A |-> j]
<1>1. Len(s) \in Nat /\ Len(new) \in Nat
      /\ DOMAIN s = 1..Len(s) /\ DOMAIN new = 1..Len(new)
  BY LenProperties
<1>2. A = {k \in 1..Len(s) : h[s[k]].kind = "Comment"}
  BY <1>1 DEF CommentsOf
<1>3. B = {k \in 1..Len(new) : g[new[k]].kind = "Comment"}
  BY <1>1 DEF CommentsOf
<1>4. A \subseteq B /\ \A n \in B : n <= Len(s) => n \in A
  BY <1>1, <1>2, <1>3
<1>5. to \in [A -> B]
  BY <1>4
<1>6. \A j \in A : g[t].kids[to[j]] = h[t].kids[j] /\ to[j] = j
  BY <1>2
<1>7. ASSUME NEW n \in B, NEW k \in A, n < k
      PROVE  n \in A
  BY <1>1, <1>2, <1>3, <1>4, <1>7
<1> HIDE DEF A, B, to
<1>8. /\ \A j \in A : g[t].kids[to[j]] = h[t].kids[j]
      /\ \A j, k \in A : j < k => to[j] < to[k]
      /\ \A n \in B, k \in A : n < to[k] => \E j \in A : n = to[j]
  BY <1>6, <1>7
<1>9. QED
  BY <1>5, <1>8 DEF MoreComments, A, B

\* The same when one item that is no comment is erased, and x goes in at the end.
LEMMA CommentsMoveUp ==
    ASSUME NEW h, NEW g, NEW t, NEW s \in Seq(Ids), h[t].kids = s,
           NEW i \in 1..Len(s), h[s[i]].kind # "Comment", NEW x \in Ids,
           g[t].kids = Append(RemoveAt(s, i), x),
           \A k \in 1..Len(s) : k # i => g[s[k]].kind = h[s[k]].kind
    PROVE  MoreComments(h, g, t)
<1> DEFINE rest == RemoveAt(s, i)
           new  == Append(rest, x)
           A == CommentsOf(h, t)
           B == CommentsOf(g, t)
           to == [j \in A |-> IF j < i THEN j ELSE j - 1]
<1>1. /\ Len(s) \in Nat /\ i \in Nat /\ DOMAIN s = 1..Len(s)
      /\ rest \in Seq(Ids) /\ Len(rest) = Len(s) - 1
      /\ \A k \in 1..(Len(s) - 1) : rest[k] = IF k < i THEN s[k] ELSE s[k + 1]
  <2>1. /\ RemoveAt(s, i) \in Seq(Ids) /\ Len(RemoveAt(s, i)) = Len(s) - 1
        /\ \A k \in 1..(Len(s) - 1) : RemoveAt(s, i)[k] = IF k < i THEN s[k] ELSE s[k + 1]
    BY RemoveAtIsErase
  <2>2. Len(s) \in Nat /\ DOMAIN s = 1..Len(s)
    BY LenProperties
  <2>3. QED
    BY <2>1, <2>2
<1> HIDE DEF rest
<1>2. /\ new \in Seq(Ids) /\ Len(new) = Len(s)
      /\ \A k \in 1..(Len(s) - 1) : new[k] = IF k < i THEN s[k] ELSE s[k + 1]
  <2>1. /\ new \in Seq(Ids) /\ Len(new) = Len(rest) + 1
        /\ \A k \in 1..Len(rest) : new[k] = rest[k]
    <3>1. rest \in Seq(Ids)
      BY <1>1
    <3>2. QED
      BY <3>1, AppendKeeps
  <2> HIDE DEF new
  <2>2. QED
    BY <1>1, <2>1
<1>0. DOMAIN new = 1..Len(s) /\ g[t].kids = new
  BY <1>2, LenProperties DEF rest
<1> HIDE DEF new
<1>3. A = {k \in 1..Len(s) : h[s[k]].kind = "Comment"} /\ i \notin A
  BY <1>1 DEF CommentsOf
<1>4. B = {k \in 1..Len(s) : g[new[k]].kind = "Comment"}
  BY <1>0 DEF CommentsOf
<1>5. ASSUME NEW j \in A
      PROVE  /\ to[j] \in B /\ new[to[j]] = s[j]
             /\ to[j] = IF j < i THEN j ELSE j - 1
  <2>1. j \in 1..Len(s) /\ j # i /\ h[s[j]].kind = "Comment" /\ g[s[j]].kind = "Comment"
    BY <1>3
  <2>2. to[j] = IF j < i THEN j ELSE j - 1
    OBVIOUS
  <2> HIDE DEF to
  <2>3. to[j] \in 1..(Len(s) - 1) /\ new[to[j]] = s[j]
    <3>1. CASE j < i
      BY <1>1, <1>2, <2>1, <2>2, <3>1
    <3>2. CASE ~(j < i)
      <4>1. j > i /\ j - 1 \in 1..(Len(s) - 1) /\ ~(j - 1 < i) /\ j - 1 + 1 = j
        BY <1>1, <2>1, <3>2
      <4>2. QED
        BY <1>2, <2>2, <3>2, <4>1
    <3>3. QED
      BY <3>1, <3>2
  <2>4. QED
    BY <1>1, <1>4, <2>1, <2>2, <2>3
<1>6. to \in [A -> B]
  BY <1>5
<1> HIDE DEF to
<1>7. ASSUME NEW j \in A, NEW k \in A, j < k
      PROVE  to[j] < to[k]
  BY <1>1, <1>3, <1>5, <1>7
<1>8. ASSUME NEW n \in B, NEW k \in A, n < to[k]
      PROVE  \E j \in A : n = to[j]
  <2>0. k \in 1..Len(s) /\ k # i /\ to[k] = (IF k < i THEN k ELSE k - 1)
    BY <1>3, <1>5
  <2>1. n \in 1..(Len(s) - 1) /\ g[new[n]].kind = "Comment"
    <3>1. n \in 1..Len(s) /\ g[new[n]].kind = "Comment"
      BY <1>4
    <3>2. n <= Len(s) - 1
      BY <1>1, <1>8, <2>0, <3>1
    <3>3. QED
      BY <1>1, <3>1, <3>2
  <2>2. CASE n < i
    <3>1. n \in A
      BY <1>1, <1>2, <1>3, <2>1, <2>2
    <3>2. QED
      BY <1>5, <2>2, <3>1
  <2>3. CASE ~(n < i)
    <3>1. n + 1 \in A
      BY <1>1, <1>2, <1>3, <2>1, <2>3
    <3>2. to[n + 1] = n
      BY <1>1, <1>5, <2>1, <2>3, <3>1
    <3>3. QED
      BY <3>1, <3>2
  <2>4. QED
    BY <2>2, <2>3
<1>9. \A j \in A : g[t].kids[to[j]] = h[t].kids[j]
  BY <1>0, <1>5
<1> HIDE DEF A, B
<1>10. QED
  BY <1>6, <1>7, <1>8, <1>9 DEF MoreComments, A, B

\* What collides is never a comment.
LEMMA ClashIsNoComment ==
    ASSUME NEW h, NEW t, NEW x, h[x].kind # "Comment", NEW y, Clashes(h, t, x, y)
    PROVE  h[y].kind # "Comment"
BY DEF Clashes, Same, SameShape

\* Every item but the erased one is still there, and still there when x has
\* gone in at the end.
LEMMA StillThere ==
    ASSUME NEW s \in Seq(Ids), NEW i \in 1..Len(s), NEW k \in 1..Len(s), k # i
    PROVE  \E n \in 1..Len(RemoveAt(s, i)) : RemoveAt(s, i)[n] = s[k]
<1> DEFINE rest == RemoveAt(s, i)
           n    == IF k < i THEN k ELSE k - 1
<1>1. /\ Len(s) \in Nat /\ Len(rest) = Len(s) - 1
      /\ \A j \in 1..(Len(s) - 1) : rest[j] = IF j < i THEN s[j] ELSE s[j + 1]
  BY RemoveAtIsErase, LenProperties
<1> HIDE DEF rest
<1>2. n \in 1..(Len(s) - 1) /\ rest[n] = s[k]
  <2>1. CASE k < i
    BY <1>1, <2>1
  <2>2. CASE ~(k < i)
    <3>1. k - 1 \in 1..(Len(s) - 1) /\ ~(k - 1 < i) /\ k - 1 + 1 = k
      BY <1>1, <2>2
    <3>2. QED
      BY <1>1, <2>2, <3>1
  <2>3. QED
    BY <2>1, <2>2
<1>3. QED
  BY <1>1, <1>2 DEF rest

LEMMA StillThereAfter ==
    ASSUME NEW s \in Seq(Ids), NEW i \in 1..Len(s), NEW x \in Ids,
           NEW k \in 1..Len(s), k # i
    PROVE  \E n \in 1..Len(Append(RemoveAt(s, i), x)) : Append(RemoveAt(s, i), x)[n] = s[k]
<1> DEFINE rest == RemoveAt(s, i)
           new  == Append(rest, x)
<1>1. rest \in Seq(Ids)
  BY RemoveAtIsErase
<1>2. PICK n \in 1..Len(rest) : rest[n] = s[k]
  BY StillThere
<1> HIDE DEF rest
<1>3. Len(new) = Len(rest) + 1 /\ \A j \in 1..Len(rest) : new[j] = rest[j]
  BY <1>1, AppendKeeps
<1>4. Len(rest) \in Nat
  BY <1>1, LenProperties
<1> HIDE DEF new
<1>5. n \in 1..Len(new) /\ new[n] = s[k]
  BY <1>2, <1>3, <1>4
<1>6. QED
  BY <1>5 DEF new, rest

\* An Add that lets an item in keeps the comments of every container.
LEMMA AddedKeepsComments ==
    ASSUME Sound, Sound', NEW t, NEW p, NEW x, NEW g, AddsItem(t, p, x, g),
           ret'.out = "added", NEW u \in Targets \ {hand}, heap'[u] # Null
    PROVE  MoreComments(heap, heap', u)
<1> DEFINE r == AddTo(g, t, x, p)
           o == Offered(g, x, p)
           s == heap[u].kids
<1>1. /\ WellTyped(g) /\ Closed(g) /\ t \in Addresses /\ IsContainer(g, t)
      /\ x \in Ids /\ g[x] # Null /\ p \in Policies /\ ret'.out = r.out
  BY DEF AddsItem, Adds
<1>2. Grown(o, t, x, r.heap)
  BY <1>1, AddToAnswer DEF AddErrors
<1>3. PICK touched : Commit(r.heap, hand, touched)
  BY DEF AddsItem, Adds
<1>4. /\ WellTyped(o) /\ IsContainer(o, t) /\ t # x
      /\ \A y \in Addresses : o[y].kind = g[y].kind /\ o[y].kids = g[y].kids
  <2>1. /\ WellTyped(o) /\ IsContainer(o, t) /\ t # x
        /\ o[x].kind = g[x].kind /\ o[x].kids = g[x].kids
        /\ \A y \in Addresses \ {x} : o[y] = g[y]
    BY AddsNothingElse
  <2> HIDE DEF o
  <2>2. QED
    BY <2>1
<1> HIDE DEF r, o
<1>5. /\ u \in Addresses /\ u \in Live /\ g[u] = heap[u] /\ s \in Seq(Ids)
      /\ \A k \in 1..Len(s) : s[k] \in Live /\ s[k] \in Addresses
  <2>1. /\ u \in Addresses /\ heap[u] # Null /\ s \in Seq(Ids)
        /\ \A k \in 1..Len(s) : heap[s[k]] # Null
    BY TargetSound
  <2>2. \A k \in 1..Len(s) : s[k] \in Ids
    BY <2>1, ElementOfSeq
  <2>3. QED
    BY <2>1, <2>2 DEF AddsItem, Live, Addresses
<1>6. PICK rest \in Seq(Ids) : /\ Leaves(o, t, x, rest)
                               /\ r.heap = [o EXCEPT ![t].kids = Append(rest, x)]
  BY <1>2 DEF Grown
<1>7. /\ \A y \in Addresses : r.heap[y].kind = o[y].kind
      /\ \A y \in Addresses \ {t} : r.heap[y].kids = o[y].kids
      /\ r.heap[t].kids = Append(rest, x)
  <2>1. o \in [Addresses -> Item \cup {Null}] /\ o[t] \in Item /\ t \in Addresses
    BY <1>1, <1>4 DEF WellTyped, IsContainer
  <2> DEFINE item == [o[t] EXCEPT !.kids = Append(rest, x)]
  <2>2. item.kind = o[t].kind /\ item.kids = Append(rest, x)
    BY <2>1 DEF Item
  <2>3. r.heap = [o EXCEPT ![t] = item]
    BY <1>6
  <2> HIDE DEF item
  <2>4. QED
    BY <2>1, <2>2, <2>3
<1>8. \A y \in Addresses : heap'[y] = r.heap[y] \/ heap'[y] = Null
  BY <1>3, Committed
<1>9. \A k \in 1..Len(heap'[u].kids) : heap'[heap'[u].kids[k]] # Null
  <2>1. WellTyped(heap') /\ Closed(heap')
    BY DEF Sound, WellTyped, Closed, Kids
  <2>2. /\ Kids(heap', u) = {heap'[u].kids[k] : k \in 1..Len(heap'[u].kids)}
        /\ Kids(heap', u) \subseteq Ids
    BY <1>5, <2>1, ItemFields
  <2>3. QED
    BY <1>5, <2>1, <2>2 DEF Closed, Addresses
<1>10. ASSUME NEW k \in 1..Len(s), NEW n \in 1..Len(heap'[u].kids), heap'[u].kids[n] = s[k]
       PROVE  heap'[s[k]].kind = heap[s[k]].kind
  <2>1. heap'[s[k]] = r.heap[s[k]] /\ s[k] \in Live /\ s[k] \in Addresses
    BY <1>5, <1>8, <1>9, <1>10
  <2>2. g[s[k]].kind = heap[s[k]].kind
    BY <2>1 DEF AddsItem
  <2>3. QED
    BY <1>4, <1>7, <2>1, <2>2
<1> HIDE DEF s
<1>11. Len(s) \in Nat /\ heap'[u] = r.heap[u]
  BY <1>5, <1>8, LenProperties
<1>12. CASE u # t
  <2>1. heap'[u].kids = s
    BY <1>4, <1>5, <1>7, <1>11, <1>12 DEF s
  <2>2. \A k \in 1..Len(s) : heap'[s[k]].kind = heap[s[k]].kind
    BY <1>10, <2>1
  <2>3. QED
    BY <1>5, <1>11, <2>1, <2>2, CommentsStay DEF s
<1>13. CASE u = t
  <2>0. o[t].kids = s /\ heap'[u].kids = Append(rest, x)
    BY <1>4, <1>5, <1>7, <1>11, <1>13 DEF s
  <2>1. CASE rest = s
    <3> DEFINE new == Append(s, x)
    <3>1. /\ new \in Seq(Ids) /\ Len(new) = Len(s) + 1
          /\ \A k \in 1..Len(s) : new[k] = s[k]
      BY <1>1, <1>5, AppendKeeps
    <3>2. heap'[u].kids = new
      BY <2>0, <2>1
    <3> HIDE DEF new
    <3>3. \A k \in 1..Len(s) : k \in 1..Len(new)
      BY <1>11, <3>1
    <3>4. \A k \in 1..Len(s) : heap'[s[k]].kind = heap[s[k]].kind
      BY <1>10, <3>1, <3>2, <3>3
    <3>5. Len(s) <= Len(new)
      BY <1>11, <3>1
    <3>6. heap[u].kids = s
      BY DEF s
    <3>7. QED
      BY <1>5, <3>1, <3>2, <3>4, <3>5, <3>6, CommentsStay
  <2>2. ASSUME NEW i \in 1..Len(s), Clashes(o, t, x, s[i]), rest = RemoveAt(s, i),
               o[x].kind # "Comment"
        PROVE  MoreComments(heap, heap', u)
    <3>1. heap[s[i]].kind # "Comment"
      <4>1. o[s[i]].kind # "Comment"
        BY <2>2, ClashIsNoComment
      <4>2. s[i] \in Live /\ s[i] \in Addresses
        BY <1>5
      <4>3. g[s[i]].kind = heap[s[i]].kind
        BY <4>2 DEF AddsItem
      <4>4. QED
        BY <1>4, <4>1, <4>2, <4>3
    <3>2. ASSUME NEW k \in 1..Len(s), k # i
          PROVE  heap'[s[k]].kind = heap[s[k]].kind
      <4>1. \E n \in 1..Len(Append(RemoveAt(s, i), x)) :
               Append(RemoveAt(s, i), x)[n] = s[k]
        BY <1>1, <1>5, <3>2, StillThereAfter
      <4>2. \E n \in 1..Len(heap'[u].kids) : heap'[u].kids[n] = s[k]
        BY <2>0, <2>2, <4>1
      <4>3. QED
        BY <1>10, <4>2
    <3>3. heap[u].kids = s /\ heap'[u].kids = Append(RemoveAt(s, i), x)
      BY <2>0, <2>2 DEF s
    <3>4. QED
      BY <1>1, <1>5, <3>1, <3>2, <3>3, CommentsMoveUp
  <2>3. QED
    BY <1>6, <2>0, <2>1, <2>2 DEF Leaves
<1>14. QED
  BY <1>12, <1>13

\* Comments collide with nothing: whatever is added, by whichever overload, an
\* Add of a comment succeeds and the comments that were there stay, in their
\* order (Group::BeforeAdditionActions, List::BeforeAdditionActions).
THEOREM CommentsSurvive == Spec => CommentsSurviveAdds
<1>1. ASSUME Sound, Next, ret'.out \in AddErrors \cup {"kept"}
      PROVE  heap[Incoming].kind # "Comment"
    BY <1>1, StepAnswers, RefusedKeeps DEF AddErrors, LookUpErrors
<1>2. ASSUME Sound, Next, ret'.out = "added",
             NEW u \in Targets \ {hand}, heap'[u] # Null
      PROVE  MoreComments(heap, heap', u)
  <2>1. \E t, p, x, g : AddsItem(t, p, x, g)
    BY <1>2, StepAnswers DEF LookUpErrors
  <2>2. Sound'
    BY <1>2, SoundStep
  <2>3. QED
    BY <1>2, <2>1, <2>2, AddedKeepsComments
<1>3. Sound /\ [Next]_vars =>
         [/\ ret'.out \in AddErrors \cup {"kept"} => heap[Incoming].kind # "Comment"
          /\ ret'.out = "added" =>
                \A t \in Targets \ {hand} :
                   heap'[t] # Null => MoreComments(heap, heap', t)]_vars
  BY <1>1, <1>2
<1>4. QED
  BY <1>3, Soundness, PTL DEF Spec, CommentsSurviveAdds

-----------------------------------------------------------------------------
(* Removals *)

\* Only an erase at one position of one container answers "removed".
LEMMA RemovedBy ==
    ASSUME Sound, Next, ret'.out = "removed"
    PROVE  \E t \in Targets : \E k \in 1..Len(heap[t].kids) :
              Commit([heap EXCEPT ![t].kids = RemoveAt(heap[t].kids, k)], hand, mutated)
<1>1. ~\E t, p, x, g : AddsItem(t, p, x, g)
  <2>1. SUFFICES ASSUME NEW t, NEW p, NEW x, NEW g, AddsItem(t, p, x, g)
                 PROVE  FALSE
    OBVIOUS
  <2>2. /\ WellTyped(g) /\ Closed(g) /\ t \in Addresses /\ IsContainer(g, t)
        /\ x \in Ids /\ g[x] # Null /\ p \in Policies
        /\ ret'.out = AddTo(g, t, x, p).out
    BY <2>1 DEF AddsItem, Adds
  <2>3. ret'.out \in AddOutcomes
    BY <2>2, AddToOutcome DEF AnyPolicy
  <2>4. QED
    BY <2>3 DEF AddOutcomes, AddErrors
<1>2. RemoveItem
  <2>1. ~Return
    BY DEF Return, NoAnswer
  <2>2. ~Own
    <3>1. ASSUME NEW x, NEW kind, NEW name, NEW val, Make(x, kind, name, val)
          PROVE  FALSE
      BY <3>1 DEF Make, Answer
    <3>2. ASSUME NEW x, Take(x) \/ Release
          PROVE  FALSE
      BY <3>2 DEF Take, Release, Answer
    <3>3. QED
      BY <3>1, <3>2 DEF Own
  <2>3. ~AddItem
    <3>1. UsedPolicies \subseteq Policies
      BY BoundsAssumption
    <3>2. QED
      BY <1>1, <3>1, AddCopyAdds, AddMoveAdds, AddPointerAdds DEF AddItem
  <2>4. ~Mutate
    <3>1. ASSUME NEW x, NEW v, SetValue(x, v)
          PROVE  FALSE
      BY <3>1 DEF SetValue, Answer
    <3>2. ASSUME NEW x, NEW v, Rename(x, v) \/ SetText(x, v) \/ SetOnExistingAction(x, v)
          PROVE  FALSE
      BY <3>2 DEF Rename, SetText, SetOnExistingAction, Answer
    <3>3. ASSUME NEW x, Assign(x) \/ AssignMove(x)
          PROVE  FALSE
      BY <3>3 DEF Assign, AssignMove, Answer
    <3>4. QED
      BY <3>1, <3>2, <3>3 DEF Mutate
  <2>5. ~ConfigCall
    <3>1. ASSUME NEW c, NEW d, StartImport(c, d)
          PROVE  FALSE
      BY <3>1 DEF StartImport, Ready, NoAnswer
    <3>2. ASSUME NEW c, NEW d,
                 OnExistingAction(c, d) \/ CopyConfig(c, d) \/ MoveConfig(c, d)
          PROVE  FALSE
      BY <3>2 DEF OnExistingAction, CopyConfig, MoveConfig, Answer
    <3>3. QED
      BY <3>1, <3>2 DEF ConfigCall
  <2>6. ~ImportStep
    <3>1. ~EndImport
      BY DEF EndImport, Answer
    <3>2. QED
      BY <1>1, <3>1, ImportItemAdds DEF ImportStep
  <2>7. QED
    BY <2>1, <2>2, <2>3, <2>4, <2>5, <2>6 DEF Next
<1>3. ASSUME NEW t \in Addresses, NEW i \in 0..MaxKids, RemoveIndex(t, i)
      PROVE  \E k \in 1..Len(heap[t].kids) :
                /\ t \in Targets
                /\ Commit([heap EXCEPT ![t].kids = RemoveAt(heap[t].kids, k)], hand, mutated)
  <2>1. /\ t \in Targets /\ i < Len(heap[t].kids)
        /\ Commit([heap EXCEPT ![t].kids = RemoveAt(@, i + 1)], hand, mutated)
    BY <1>3 DEF RemoveIndex, Answer
  <2>2. Len(heap[t].kids) \in Nat
    BY <2>1, TargetSound, LenProperties
  <2>3. i + 1 \in 1..Len(heap[t].kids)
    BY <2>1, <2>2, BoundsAssumption
  <2>4. QED
    BY <2>1, <2>3
<1>4. ASSUME NEW t \in Addresses, NEW path \in Paths, RemovePath(t, path)
      PROVE  \E u \in Targets : \E k \in 1..Len(heap[u].kids) :
                Commit([heap EXCEPT ![u].kids = RemoveAt(heap[u].kids, k)], hand, mutated)
  <2> DEFINE parent == LookUp(heap, t, Front(path))
             found  == Step(heap, parent, Last(path))
             k      == Find(heap, parent.at, Last(path))
  <2>1. /\ path # <<>> /\ found.err = "none" /\ parent.at \in Targets
        /\ Commit([heap EXCEPT ![parent.at].kids = RemoveAt(@, k)], hand, mutated)
    BY <1>4 DEF RemovePath, Answer, LookUpErrors
  <2> HIDE DEF parent
  <2>2. parent.err = "none" /\ IsContainer(heap, parent.at)
    BY <2>1 DEF Step, Targets
  <2>3. k # 0
    BY <2>1, <2>2 DEF Step, NotFound
  <2>4. heap[parent.at].kids \in Seq(Ids) /\ Last(path) \in Segments
    BY <2>1, TargetSound, LastSegment
  <2>5. k \in 0..Len(heap[parent.at].kids) /\ Len(heap[parent.at].kids) \in Nat
    BY <2>4, FindFound, LenProperties
  <2> HIDE DEF k
  <2>6. k \in 1..Len(heap[parent.at].kids)
    BY <2>3, <2>5
  <2>7. QED
    BY <2>1, <2>6
<1>5. ASSUME NEW t \in Addresses
      PROVE  ~Clear(t)
  BY DEF Clear, Answer
<1>6. QED
  BY <1>2, <1>3, <1>4, <1>5 DEF RemoveItem

\* The name of the item that has gone from group u has no other holder there.
LEMMA NameIsGone ==
    ASSUME Unique, Sound', NEW t \in Targets, NEW k \in 1..Len(heap[t].kids),
           Commit([heap EXCEPT ![t].kids = RemoveAt(heap[t].kids, k)], hand, mutated),
           NEW u \in Live \ mutated, heap[u].kind = "Group", heap'[u] # Null,
           NEW y \in Kids(heap, u) \ Kids(heap', u), heap[y].name \notin CommentNames(u)
    PROVE  Step(heap', Start(u), Named(heap[y].name)).err = "ItemNotFound"
<1> DEFINE s    == heap[t].kids
           rest == RemoveAt(s, k)
           h    == [heap EXCEPT ![t].kids = rest]
           name == heap[y].name
<1>1. /\ t \in Addresses /\ heap[t] # Null /\ s \in Seq(Ids) /\ IsContainer(heap, t)
      /\ \A j \in 1..Len(s) : heap[s[j]] # Null
  BY TargetSound DEF Unique
<1>2. /\ WellTyped(heap) /\ u \in Addresses /\ heap[u] # Null
      /\ WellTyped(heap') /\ Closed(heap')
  BY DEF Unique, Sound, Live, WellTyped, Closed, Kids
<1>3. /\ rest \in Seq(Ids) /\ Len(rest) \in Nat
      /\ \A j \in 1..Len(rest) : \E m \in 1..Len(s) : m # k /\ rest[j] = s[m]
      /\ \A m \in 1..Len(s) : m # k => \E j \in 1..Len(rest) : rest[j] = s[m]
  BY <1>1, RemoveAtIsErase, LenProperties, ErasedOne, StillThere
<1> HIDE DEF rest
<1>4. /\ h[t].kids = rest /\ h[t].kind = heap[t].kind
      /\ \A z \in Addresses \ {t} : h[z] = heap[z]
      /\ \A z \in Addresses : h[z].name = heap[z].name
  <2>1. heap \in [Addresses -> Item \cup {Null}] /\ heap[t] \in Item
    BY <1>1, <1>2, ItemFields DEF WellTyped
  <2> DEFINE item == [heap[t] EXCEPT !.kids = rest]
  <2>2. item.kind = heap[t].kind /\ item.name = heap[t].name /\ item.kids = rest
    BY <2>1 DEF Item
  <2>3. h = [heap EXCEPT ![t] = item]
    OBVIOUS
  <2> HIDE DEF item, h
  <2>4. QED
    BY <1>1, <2>1, <2>2, <2>3
<1>5. \A z \in Addresses : heap'[z] = h[z] \/ heap'[z] = Null
  <2>1. Commit(h, hand, mutated)
    BY DEF rest
  <2> HIDE DEF h
  <2>2. QED
    BY <2>1, Committed
<1> HIDE DEF h
<1>6. u = t
  <2>1. u # t => heap'[u] = heap[u]
    BY <1>2, <1>4, <1>5
  <2>2. QED
    BY <2>1 DEF Kids
<1>7. heap'[u].kids = rest /\ heap'[u].kind = "Group" /\ IsContainer(heap', u)
  <2>1. heap'[u] = h[u]
    BY <1>2, <1>5
  <2>2. u \in DOMAIN heap'
    BY <1>2 DEF WellTyped
  <2>3. QED
    BY <1>4, <1>6, <2>1, <2>2 DEF IsContainer, ContainerKinds
<1>8. /\ Kids(heap, u) = {s[m] : m \in 1..Len(s)}
      /\ Kids(heap', u) = {rest[j] : j \in 1..Len(rest)}
      /\ Kids(heap', u) \subseteq Ids /\ DOMAIN s = 1..Len(s)
  BY <1>1, <1>2, <1>6, <1>7, ItemFields, LenProperties
<1>9. y = s[k]
  BY <1>3, <1>8
<1>10. ASSUME NEW j \in 1..Len(rest), heap'[rest[j]].name = name
       PROVE  FALSE
  <2>1. PICK m \in 1..Len(s) : m # k /\ rest[j] = s[m]
    BY <1>3
  <2>2. rest[j] \in Kids(heap', u) /\ rest[j] \in Addresses
    BY <1>8 DEF Addresses
  <2>3. heap'[rest[j]] # Null
    BY <1>2, <2>2 DEF Closed
  <2>4. heap[s[m]].name = name
    BY <1>4, <1>5, <1>10, <2>1, <2>2, <2>3
  <2>5. /\ heap[s[m]].kind # "Comment" /\ heap[s[k]].kind # "Comment"
        /\ heap[s[k]].name = name
    BY <1>8, <1>9, <2>4 DEF CommentNames
  <2>6. m \in Keyed(heap, u) /\ k \in Keyed(heap, u)
    BY <1>6, <1>8, <2>5 DEF Keyed
  <2>7. Alike(heap, heap[u].kind, s[m], s[k])
    BY <2>4, <2>5 DEF Alike
  <2>8. QED
    BY <1>6, <2>1, <2>6, <2>7, TidyKeyed
<1> HIDE DEF name
<1>11. Find(heap', u, Named(name)) = 0
  <2>1. {j \in 1..Len(rest) : heap'[rest[j]].name = name} = {}
    BY <1>10
  <2>2. QED
    BY <1>7, <2>1 DEF Find, Named, SelectInSeq
<1>12. Step(heap', Start(u), Named(name)).err = "ItemNotFound"
  BY <1>7, <1>11 DEF Step, Start, NotFound, Named
<1>13. QED
  BY <1>12 DEF name

\* Once Remove has returned, by index or by path, the name of the item erased
\* from a group outside mutated denotes nothing there (Container::Remove).
THEOREM RemovedNamesAreGone == Spec => RemovedIsGone
<1>1. ASSUME Unique, Next, ret'.out = "removed",
             NEW u \in Live \ mutated, heap[u].kind = "Group", heap'[u] # Null,
             NEW y \in Kids(heap, u) \ Kids(heap', u), heap[y].name \notin CommentNames(u)
      PROVE  Step(heap', Start(u), Named(heap[y].name)).err = "ItemNotFound"
  <2>1. Sound /\ Sound'
    BY <1>1, SoundStep DEF Unique
  <2>2. PICK t \in Targets : \E k \in 1..Len(heap[t].kids) :
           Commit([heap EXCEPT ![t].kids = RemoveAt(heap[t].kids, k)], hand, mutated)
    BY <1>1, <2>1, RemovedBy
  <2>3. PICK k \in 1..Len(heap[t].kids) :
           Commit([heap EXCEPT ![t].kids = RemoveAt(heap[t].kids, k)], hand, mutated)
    BY <2>2
  <2>4. QED
    BY <1>1, <2>1, <2>3, NameIsGone
<1>2. Unique /\ [Next]_vars =>
         [ret'.out = "removed" =>
            \A g \in Live \ mutated : heap[g].kind = "Group" /\ heap'[g] # Null =>
               \A y \in Kids(heap, g) \ Kids(heap', g) :
                  heap[y].name \notin CommentNames(g)
                    => Step(heap', Start(g), Named(heap[y].name)).err = "ItemNotFound"]_vars
  BY <1>1
<1>3. QED
  BY <1>2, Uniqueness, PTL DEF Spec, RemovedIsGone

-----------------------------------------------------------------------------
(* Imports *)

\* What z has to be for the item y of the source to count as delivered.
DeliveredAs(y, z, p, marked) ==
    /\ z.name = y.name
    /\ (y.kind = "Comment" \/ p # "Keep") /\ ~marked => SameContents(y, z)

\* ImportDelivers, with the fact that the loop is between two Configs.
Delivering ==
    ~Idle =>
        /\ import.src # import.dst
        /\ \A k \in 1..(import.next - 1) : \E z \in Kids(heap, import.dst) :
              DeliveredAs(heap[heap[import.src].kids[k]], heap[z],
                          policy[import.dst], import.src \in mutated)

\* Only operator<<(const Config&) is ever on its way after a step.
LEMMA BusySteps ==
    ASSUME Next, ~Idle'
    PROVE  \/ \E c, d \in Configs : StartImport(c, d)
           \/ \E x \in Ids : ImportItem(x)
<1>1. SUFFICES ASSUME Idle, import' = import
               PROVE  FALSE
  <2>1. CASE Return
    BY <1>1, <2>1 DEF Return
  <2>2. CASE Own
    <3>1. ASSUME NEW x, NEW kind, NEW name, NEW val, Make(x, kind, name, val)
          PROVE  Idle /\ import' = import
      BY <3>1 DEF Make, Ready
    <3>2. ASSUME NEW x, Take(x) \/ Release
          PROVE  Idle /\ import' = import
      BY <3>2 DEF Take, Release, Ready
    <3>3. QED
      BY <1>1, <2>2, <3>1, <3>2 DEF Own
  <2>3. CASE AddItem
    <3>1. ASSUME NEW t, NEW p, NEW x, AddCopy(t, p, x) \/ AddMove(t, p, x)
          PROVE  Idle /\ import' = import
      BY <3>1 DEF AddCopy, AddMove, Ready
    <3>2. ASSUME NEW t, NEW p, AddPointer(t, p)
          PROVE  Idle /\ import' = import
      BY <3>2 DEF AddPointer, Ready
    <3>3. QED
      BY <1>1, <2>3, <3>1, <3>2 DEF AddItem
  <2>4. CASE RemoveItem
    <3>1. ASSUME NEW t, NEW i, RemoveIndex(t, i) \/ RemovePath(t, i) \/ Clear(t)
          PROVE  Idle /\ import' = import
      BY <3>1 DEF RemoveIndex, RemovePath, Clear, Ready
    <3>2. QED
      BY <1>1, <2>4, <3>1 DEF RemoveItem
  <2>5. CASE Mutate
    <3>1. ASSUME NEW x, NEW v, \/ Rename(x, v) \/ SetValue(x, v) \/ SetText(x, v)
                               \/ SetOnExistingAction(x, v)
          PROVE  Idle /\ import' = import
      BY <3>1 DEF Rename, SetValue, SetText, SetOnExistingAction, Ready
    <3>2. ASSUME NEW x, Assign(x) \/ AssignMove(x)
          PROVE  Idle /\ import' = import
      BY <3>2 DEF Assign, AssignMove, Ready
    <3>3. QED
      BY <1>1, <2>5, <3>1, <3>2 DEF Mutate
  <2>6. CASE ConfigCall
    <3>1. ASSUME NEW c, NEW d,
                 OnExistingAction(c, d) \/ CopyConfig(c, d) \/ MoveConfig(c, d)
          PROVE  Idle /\ import' = import
      BY <3>1 DEF OnExistingAction, CopyConfig, MoveConfig, Ready
    <3>2. QED
      BY <1>1, <2>6, <3>1 DEF ConfigCall
  <2>7. CASE ImportStep
    BY <2>7 DEF ImportStep, EndImport, Idle
  <2>8. QED
    BY <2>1, <2>2, <2>3, <2>4, <2>5, <2>6, <2>7 DEF Next
<1>2. QED
  BY <1>1 DEF Idle

\* One iteration delivers its item and takes none away that was delivered.
LEMMA ImportItemDelivers ==
    ASSUME Unique, Sound', Delivering, NEW x \in Ids, ImportItem(x), ~Idle'
    PROVE  Delivering'
<1> DEFINE src  == import.src
           dst  == import.dst
           next == import.next
           p    == policy[dst]
           S    == heap[src].kids
           D    == heap[dst].kids
           item == S[next]
           g    == [heap EXCEPT ![x] = heap[item]]
           o    == Offered(g, x, p)
           r    == AddTo(g, dst, x, p)
<1>1. Sound /\ WellTyped(heap) /\ Closed(heap) /\ ~Idle
  BY DEF Unique, Sound, ImportItem
<1>2. /\ AddsItem(dst, p, x, g) /\ x \in Free /\ Incoming = item
      /\ src \in Configs /\ dst \in Configs /\ next \in Nat \ {0} /\ next \in 1..Len(S)
  BY <1>1, ImportItemAdds
<1>3. /\ Commit(r.heap, hand, Passed(mutated, item, x))
      /\ import' = IF r.out \in Errors THEN NoImport ELSE [import EXCEPT !.next = @ + 1]
      /\ policy' = policy
  BY DEF ImportItem
<1>4. /\ r.out \notin Errors /\ import'.src = src /\ import'.dst = dst
      /\ import'.next = next + 1
  <2>1. import \in [src: Configs, dst: Configs, next: Nat \ {0}]
    BY <1>1 DEF Sound, Imports, Idle
  <2>2. import' = [import EXCEPT !.next = @ + 1] /\ r.out \notin Errors
    BY <1>3 DEF Idle
  <2>3. QED
    BY <2>1, <2>2
<1>5. src # dst /\ \A k \in 1..(next - 1) : \E z \in Kids(heap, dst) :
         DeliveredAs(heap[S[k]], heap[z], p, src \in mutated)
  BY <1>1 DEF Delivering
<1>6. /\ src \in Addresses /\ dst \in Addresses /\ src \in Live /\ dst \in Live
      /\ src \notin Ids /\ dst \notin Ids /\ src # x /\ dst # x
      /\ heap[src].kind = "Group" /\ heap[dst].kind = "Group"
      /\ src # hand /\ dst # hand /\ heap[src] # Null /\ heap[dst] # Null
      /\ heap[x] = Null /\ x \in Addresses
  BY <1>1, <1>2, ConfigsLive DEF Free, Live, Addresses
<1>7. /\ S \in Seq(Ids) /\ D \in Seq(Ids) /\ Len(S) \in Nat /\ DOMAIN S = 1..Len(S)
      /\ \A k \in 1..Len(S) : S[k] \in Ids /\ S[k] \in Addresses /\ heap[S[k]] # Null
      /\ \A k \in 1..Len(D) : D[k] \in Ids /\ D[k] \in Addresses /\ heap[D[k]] # Null
      /\ Kids(heap, dst) = {D[k] : k \in 1..Len(D)}
      /\ Kids(heap, src) = {S[k] : k \in 1..Len(S)}
  <2>1. /\ heap[src].kids \in Seq(Ids) /\ heap[dst].kids \in Seq(Ids)
        /\ Kids(heap, dst) = {heap[dst].kids[k] : k \in 1..Len(heap[dst].kids)}
        /\ Kids(heap, src) = {heap[src].kids[k] : k \in 1..Len(heap[src].kids)}
    <3> HIDE DEF src, dst
    <3>1. QED
      BY <1>1, <1>6, ItemFields
  <2>2. S = heap[src].kids /\ D = heap[dst].kids
    OBVIOUS
  <2> HIDE DEF S, D, src, dst
  <2>3. /\ S \in Seq(Ids) /\ D \in Seq(Ids)
        /\ Kids(heap, dst) = {D[k] : k \in 1..Len(D)}
        /\ Kids(heap, src) = {S[k] : k \in 1..Len(S)}
    BY <2>1, <2>2
  <2>4. /\ Len(S) \in Nat /\ DOMAIN S = 1..Len(S) /\ Len(D) \in Nat /\ DOMAIN D = 1..Len(D)
    BY <2>3, LenProperties
  <2>5. ASSUME NEW k \in 1..Len(S)
        PROVE  S[k] \in Ids /\ S[k] \in Addresses /\ heap[S[k]] # Null
    <3>1. S[k] \in Ids /\ S[k] \in Kids(heap, src)
      BY <2>3, <2>4, <2>5, ElementOfSeq
    <3>2. QED
      BY <1>1, <1>6, <3>1 DEF Closed, Addresses
  <2>6. ASSUME NEW k \in 1..Len(D)
        PROVE  D[k] \in Ids /\ D[k] \in Addresses /\ heap[D[k]] # Null
    <3>1. D[k] \in Ids /\ D[k] \in Kids(heap, dst)
      BY <2>3, <2>4, <2>6, ElementOfSeq
    <3>2. QED
      BY <1>1, <1>6, <3>1 DEF Closed, Addresses
  <2>7. \A k \in 1..Len(S) : S[k] \in Ids /\ S[k] \in Addresses /\ heap[S[k]] # Null
    BY <2>5
  <2>8. \A k \in 1..Len(D) : D[k] \in Ids /\ D[k] \in Addresses /\ heap[D[k]] # Null
    BY <2>6
  <2>9. QED
    BY <2>3, <2>4, <2>7, <2>8
<1>8. g[x] = heap[item] /\ \A z \in Addresses \ {x} : g[z] = heap[z]
  BY <1>1, <1>6 DEF WellTyped
<1>9. /\ WellTyped(o) /\ IsContainer(o, dst)
      /\ o[x] # Null /\ SameContents(heap[item], o[x])
      /\ \A z \in Addresses \ {x} : o[z] = heap[z]
  <2>1. /\ WellTyped(o) /\ IsContainer(o, dst)
        /\ o[x] # Null /\ o[x].kind = g[x].kind /\ o[x].name = g[x].name
        /\ o[x].val = g[x].val /\ o[x].kids = g[x].kids
        /\ \A z \in Addresses \ {x} : o[z] = g[z]
    <3> HIDE DEF g, p, dst
    <3>1. QED
      BY <1>2, AddsNothingElse
  <2> HIDE DEF o, g
  <2>2. QED
    BY <1>8, <2>1 DEF SameContents
<1>10. \/ /\ r.out = "kept" /\ p = "Keep" /\ r.heap = o
          /\ o[x].kind # "Comment"
          /\ \E k \in 1..Len(o[dst].kids) : Clashes(o, dst, x, o[dst].kids[k])
       \/ r.out = "added" /\ Grown(o, dst, x, r.heap)
  <2>1. /\ WellTyped(g) /\ Closed(g) /\ dst \in Addresses /\ IsContainer(g, dst)
        /\ x \in Ids /\ g[x] # Null /\ p \in Policies
    BY <1>2 DEF AddsItem, Adds
  <2> HIDE DEF g
  <2>2. QED
    BY <1>4, <2>1, AddToAnswer DEF Errors
<1> HIDE DEF g, o, r
<1>11. /\ \A z \in Addresses : heap'[z] = r.heap[z] \/ heap'[z] = Null
       /\ heap'[src] = r.heap[src] /\ heap'[dst] = r.heap[dst]
       /\ src \in mutated => src \in mutated'
  <2>1. /\ \A z \in Addresses : heap'[z] = r.heap[z] \/ heap'[z] = Null
        /\ heap'[src] = r.heap[src] /\ heap'[dst] = r.heap[dst]
        /\ \A z \in Passed(mutated, item, x) : heap'[z] # Null => z \in mutated'
    BY <1>2, <1>3, Committed
  <2>2. src \in mutated => src \in Passed(mutated, item, x)
    BY <1>6 DEF Passed
  <2>3. heap'[src] # Null
    BY <1>2 DEF Sound, WellTyped
  <2>4. QED
    BY <2>1, <2>2, <2>3
<1>12. PICK kids : /\ kids = D \/ \E rest \in Seq(Ids) : Leaves(o, dst, x, rest)
                                                         /\ kids = Append(rest, x)
                   /\ r.heap[dst].kids = kids /\ r.heap[src].kids = S
                   /\ \A z \in Ids : r.heap[z] = o[z]
  <2>1. CASE r.heap = o
    BY <1>6, <1>9, <2>1
  <2>2. ASSUME NEW rest \in Seq(Ids), Leaves(o, dst, x, rest),
               r.heap = [o EXCEPT ![dst].kids = Append(rest, x)]
        PROVE  /\ r.heap[dst].kids = Append(rest, x) /\ r.heap[src].kids = S
               /\ \A z \in Ids : r.heap[z] = o[z]
    <3>1. o \in [Addresses -> Item \cup {Null}] /\ o[dst] \in Item
      BY <1>6, <1>9 DEF WellTyped, IsContainer
    <3> DEFINE put == [o[dst] EXCEPT !.kids = Append(rest, x)]
    <3>2. put.kids = Append(rest, x) /\ r.heap = [o EXCEPT ![dst] = put]
      BY <2>2, <3>1 DEF Item
    <3> HIDE DEF put
    <3>3. \A z \in Addresses \ {dst} : r.heap[z] = o[z]
      BY <3>1, <3>2
    <3>4. r.heap[dst].kids = Append(rest, x)
      BY <1>6, <3>1, <3>2
    <3>5. \A z \in Ids : z \in Addresses \ {dst}
      BY <1>6 DEF Addresses
    <3>6. QED
      BY <1>5, <1>6, <1>9, <3>3, <3>4, <3>5
  <2>3. QED
    BY <1>10, <2>1, <2>2 DEF Grown
<1>13. /\ heap'[dst].kids = kids /\ heap'[src].kids = S
       /\ kids \in Seq(Ids) /\ Kids(heap', dst) = {kids[k] : k \in 1..Len(kids)}
       /\ \A k \in 1..Len(kids) : heap'[kids[k]] = r.heap[kids[k]]
       /\ \A k \in 1..Len(S) : heap'[S[k]] = heap[S[k]]
  <2>1. WellTyped(heap') /\ Closed(heap')
    BY DEF Sound, WellTyped, Closed, Kids
  <2>2. heap'[src] # Null /\ heap'[dst] # Null
    BY <1>2, <2>1 DEF WellTyped
  <2>3. heap'[dst].kids = kids /\ heap'[src].kids = S
    BY <1>11, <1>12
  <2>4. /\ kids \in Seq(Ids) /\ Kids(heap', dst) = {kids[k] : k \in 1..Len(kids)}
        /\ Kids(heap', src) = {S[k] : k \in 1..Len(S)}
        /\ Kids(heap', src) \subseteq Ids /\ Kids(heap', dst) \subseteq Ids
    BY <1>6, <2>1, <2>2, <2>3, ItemFields
  <2>5. /\ \A k \in 1..Len(kids) : kids[k] \in Addresses /\ heap'[kids[k]] # Null
        /\ \A k \in 1..Len(S) : heap'[S[k]] # Null
    BY <1>6, <2>1, <2>4 DEF Closed, Addresses
  <2>6. \A k \in 1..Len(S) : r.heap[S[k]] = heap[S[k]]
    BY <1>6, <1>7, <1>9, <1>12
  <2>7. QED
    BY <1>7, <1>11, <2>3, <2>4, <2>5, <2>6
<1>14. \A z : DeliveredAs(heap[item], o[x], p, z)
  BY <1>9 DEF DeliveredAs, SameContents
<1>15. o[dst].kids = D /\ o[dst].kind = "Group"
  BY <1>6, <1>9
<1> HIDE DEF p, S, D, src, dst, next
<1>16. ASSUME NEW k \in 1..next
       PROVE  \E z \in Kids(heap', dst) :
                 DeliveredAs(heap'[S[k]], heap'[z], p, src \in mutated')
  <2>0. k \in 1..Len(S) /\ heap'[S[k]] = heap[S[k]] /\ (k # next => k \in 1..(next - 1))
    BY <1>2, <1>7, <1>13
  <2>1. CASE kids = D /\ k # next
    <3>1. PICK z \in Kids(heap, dst) : DeliveredAs(heap[S[k]], heap[z], p, src \in mutated)
      BY <1>5, <2>0, <2>1
    <3>2. z \in Kids(heap', dst) /\ heap'[z] = heap[z]
      BY <1>6, <1>7, <1>9, <1>12, <1>13, <2>1
    <3>3. DeliveredAs(heap[S[k]], heap[z], p, src \in mutated')
      BY <1>11, <3>1 DEF DeliveredAs
    <3>4. QED
      BY <2>0, <3>2, <3>3
  <2>2. CASE r.out = "kept" /\ k = next
    <3>1. PICK j \in 1..Len(D) : Clashes(o, dst, x, D[j])
      BY <1>10, <1>15, <2>2
    <3>2. o[D[j]].name = o[x].name /\ r.heap = o /\ p = "Keep" /\ o[x].kind # "Comment"
      BY <1>10, <1>15, <2>2, <3>1 DEF Clashes
    <3>3. kids = D
      BY <1>12, <1>15, <3>2
    <3>4. D[j] \in Kids(heap', dst) /\ heap'[D[j]] = o[D[j]]
      BY <1>13, <3>2, <3>3
    <3>5. DeliveredAs(heap[S[k]], heap'[D[j]], p, src \in mutated')
      BY <1>9, <2>2, <3>2, <3>4 DEF DeliveredAs, SameContents, item
    <3>6. QED
      BY <2>0, <3>4, <3>5
  <2>3. ASSUME NEW rest \in Seq(Ids), Leaves(o, dst, x, rest), kids = Append(rest, x)
        PROVE  \E z \in Kids(heap', dst) :
                  DeliveredAs(heap'[S[k]], heap'[z], p, src \in mutated')
    <3>1. /\ Len(rest) \in Nat /\ Len(kids) = Len(rest) + 1 /\ kids[Len(rest) + 1] = x
          /\ \A j \in 1..Len(rest) : kids[j] = rest[j]
      BY <2>3, AppendKeeps, LenProperties
    <3>2. x \in Kids(heap', dst) /\ heap'[x] = o[x]
      <4>1. Len(rest) + 1 \in 1..Len(kids)
        BY <3>1
      <4>2. QED
        BY <1>12, <1>13, <3>1, <4>1
    <3>3. CASE k = next
      BY <1>14, <2>0, <3>2, <3>3 DEF item
    <3>4. CASE k # next
      <4>1. PICK z \in Kids(heap, dst) : DeliveredAs(heap[S[k]], heap[z], p, src \in mutated)
        BY <1>5, <2>0, <3>4
      <4>2. z # x /\ z \in Ids /\ o[z] = heap[z]
        BY <1>6, <1>7, <1>9
      <4>3. CASE z \in Kids(heap', dst)
        <5>1. heap'[z] = heap[z]
          BY <1>12, <1>13, <4>2, <4>3
        <5>2. DeliveredAs(heap[S[k]], heap[z], p, src \in mutated')
          BY <1>11, <4>1 DEF DeliveredAs
        <5>3. QED
          BY <2>0, <4>3, <5>1, <5>2
      <4>4. CASE z \notin Kids(heap', dst)
        <5>1. PICK j \in 1..Len(D) : z = D[j]
          BY <1>7
        <5>2. ASSUME NEW n \in 1..Len(rest), rest[n] = z
              PROVE  FALSE
          <6>1. n \in 1..Len(kids) /\ kids[n] = z
            BY <3>1, <5>2
          <6>2. QED
            BY <1>13, <4>4, <6>1
        <5>3. rest # D
          BY <5>1, <5>2
        <5>4. PICK i \in 1..Len(D) : /\ Clashes(o, dst, x, D[i]) /\ rest = RemoveAt(D, i)
                                     /\ o[x].kind # "Comment"
          BY <1>15, <2>3, <5>3 DEF Leaves
        <5>5. i = j
          BY <1>7, <5>1, <5>2, <5>4, StillThere
        <5>6. o[z].kind # "Comment" /\ o[z].name = o[x].name
          BY <1>15, <5>1, <5>4, <5>5 DEF Clashes
        <5>7. heap[item].kind # "Comment" /\ heap[z].name = heap[item].name
              /\ heap[z].kind # "Comment"
          BY <1>9, <4>2, <5>4, <5>6 DEF SameContents
        <5>8. ~((heap[S[k]].kind = "Comment" \/ p # "Keep") /\ src \notin mutated)
          <6>1. SUFFICES ASSUME SameContents(heap[S[k]], heap[z]), src \notin mutated
                         PROVE  FALSE
            BY <4>1 DEF DeliveredAs
          <6>2. heap[S[k]].kind # "Comment" /\ heap[S[k]].name = heap[S[next]].name
            BY <5>7, <6>1 DEF SameContents, item
          <6>3. k \in Keyed(heap, src) /\ next \in Keyed(heap, src)
            BY <1>2, <1>7, <2>0, <5>7, <6>2 DEF Keyed, item, S
          <6>4. Alike(heap, heap[src].kind, heap[src].kids[k], heap[src].kids[next])
            BY <1>6, <6>2 DEF Alike, S
          <6>5. src \in Live \ mutated
            BY <1>6, <6>1
          <6>6. QED
            BY <3>4, <6>3, <6>4, <6>5, TidyKeyed
        <5>9. DeliveredAs(heap[S[k]], heap'[x], p, src \in mutated')
          <6>1. heap[S[k]].name = heap[z].name
            BY <4>1 DEF DeliveredAs
          <6>2. o[x].name = heap[S[k]].name
            BY <4>2, <5>6, <6>1
          <6>3. QED
            BY <1>11, <3>2, <5>8, <6>2 DEF DeliveredAs
        <5>10. QED
          BY <2>0, <3>2, <5>9
      <4>5. QED
        BY <4>3, <4>4
    <3>5. QED
      BY <3>3, <3>4
  <2>4. QED
    <3>1. CASE kids = D /\ k = next /\ r.out # "kept"
      <4>1. PICK rest \in Seq(Ids) : /\ Leaves(o, dst, x, rest)
                                     /\ r.heap = [o EXCEPT ![dst].kids = Append(rest, x)]
        BY <1>10, <3>1 DEF Grown
      <4>2. kids = Append(rest, x)
        <5>1. o \in [Addresses -> Item \cup {Null}] /\ o[dst] \in Item
          BY <1>6, <1>9 DEF WellTyped, IsContainer
        <5>2. [o[dst] EXCEPT !.kids = Append(rest, x)].kids = Append(rest, x)
          BY <5>1 DEF Item
        <5>3. QED
          BY <1>6, <1>12, <4>1, <5>1, <5>2
      <4>3. QED
        BY <2>3, <4>1, <4>2
    <3>2. QED
      BY <1>12, <2>1, <2>2, <2>3, <3>1
<1>17. policy'[dst] = p /\ import'.next - 1 = next
  BY <1>2, <1>3, <1>4 DEF p
<1>18. QED
  BY <1>4, <1>5, <1>13, <1>16, <1>17 DEF Delivering, src, dst, next

LEMMA DeliveringStep ==
    ASSUME Unique, Delivering, [Next]_vars
    PROVE  Delivering'
<1>1. CASE UNCHANGED vars
  BY <1>1 DEF vars, Delivering, Idle, Kids, DeliveredAs, SameContents
<1>2. CASE Next /\ ~Idle'
  <2>1. ASSUME NEW c \in Configs, NEW d \in Configs, StartImport(c, d)
        PROVE  Delivering'
    BY <2>1 DEF StartImport, Delivering
  <2>2. Sound'
    BY <1>2, SoundStep DEF Unique
  <2>3. QED
    BY <1>2, <2>1, <2>2, BusySteps, ImportItemDelivers
<1>3. CASE Idle'
  BY <1>3 DEF Delivering
<1>4. QED
  BY <1>1, <1>2, <1>3

\* In the middle of c << d every item passed over is in the destination, whatever
\* the policy, even if an item imported earlier had to make room for it
\* (Config::operator<<).
THEOREM ImportsDeliver == Spec => []ImportDelivers
<1>1. Init => Delivering
  BY DEF Init, Delivering, Idle
<1>2. Unique /\ Delivering /\ [Next]_vars => Delivering'
  BY DeliveringStep
<1>3. Delivering => ImportDelivers
  BY DEF Delivering, ImportDelivers, DeliveredAs
<1>4. QED
  BY <1>1, <1>2, <1>3, Uniqueness, PTL DEF Spec

-----------------------------------------------------------------------------
(* Cycles *)

\* No container is below itself.
Acyclical(h) == \A t \in Ids : t \notin Reach(h, Kids(h, t))

\* Containers that lose items, or whole items that go, make no cycle.
LEMMA FewerKids ==
    ASSUME NEW h, WellTyped(h), Acyclical(h), NEW g,
           \A y \in Ids : Kids(g, y) \subseteq Kids(h, y)
    PROVE  Acyclical(g)
<1> SUFFICES ASSUME NEW u \in Ids
             PROVE  u \notin Reach(g, Kids(g, u))
  BY DEF Acyclical
<1> DEFINE A == Reach(h, Kids(h, u))
<1>1. /\ Kids(h, u) \subseteq A /\ A \subseteq Ids
      /\ \A y \in A : Kids(h, y) \subseteq A
      /\ u \notin A
  BY Below DEF Acyclical
<1> HIDE DEF A
<1>2. Kids(g, u) \subseteq A /\ \A y \in A : Kids(g, y) \subseteq A
  BY <1>1
<1>3. Reach(g, Kids(g, u)) \subseteq A
  BY <1>1, <1>2, Outside
<1>4. QED
  BY <1>1, <1>3

\* A container may take in the items R if none of them is or leads to it.
LEMMA MoreKids ==
    ASSUME NEW h, WellTyped(h), Acyclical(h), NEW t \in Ids, NEW R \in SUBSET Ids,
           t \notin Reach(h, R), NEW g,
           \A y \in Ids \ {t} : Kids(g, y) \subseteq Kids(h, y),
           Kids(g, t) \subseteq Kids(h, t) \cup R
    PROVE  Acyclical(g)
<1> SUFFICES ASSUME NEW u \in Ids
             PROVE  u \notin Reach(g, Kids(g, u))
  BY DEF Acyclical
<1> DEFINE A == Reach(h, Kids(h, u))
           B == Reach(h, R)
<1>1. /\ Kids(h, u) \subseteq A /\ A \subseteq Ids
      /\ \A y \in A : Kids(h, y) \subseteq A
      /\ u \notin A
  BY Below DEF Acyclical
<1>2. /\ R \subseteq B /\ B \subseteq Ids /\ t \notin B
      /\ \A y \in B : Kids(h, y) \subseteq B
  BY ReachClosed
<1>3. u \in B => A \subseteq B
  BY <1>2, Outside
<1> HIDE DEF A, B
<1>4. CASE t \notin A /\ u # t
  <2>1. Kids(g, u) \subseteq A /\ \A y \in A : Kids(g, y) \subseteq A
    BY <1>1, <1>4
  <2>2. Reach(g, Kids(g, u)) \subseteq A
    BY <1>1, <2>1, Outside
  <2>3. QED
    BY <1>1, <2>2
<1>5. CASE t \in A \/ u = t
  <2> DEFINE C == A \cup B
  <2>1. u \notin B
    BY <1>2, <1>3, <1>5
  <2>2. Kids(g, u) \subseteq C
    BY <1>1, <1>2
  <2>3. ASSUME NEW y \in C
        PROVE  Kids(g, y) \subseteq C
    <3>1. CASE y = t
      <4>1. t \in A
        BY <1>2, <2>3, <3>1
      <4>2. QED
        BY <1>1, <1>2, <3>1, <4>1
    <3>2. CASE y # t
      BY <1>1, <1>2, <2>3, <3>2
    <3>3. QED
      BY <3>1, <3>2
  <2>4. C \in SUBSET Ids /\ u \notin C
    BY <1>1, <1>2, <2>1
  <2> HIDE DEF C
  <2>5. Reach(g, Kids(g, u)) \subseteq C
    BY <2>2, <2>3, <2>4, Outside
  <2>6. QED
    BY <2>4, <2>5
<1>6. QED
  BY <1>4, <1>5

\* Nothing that is allocated leads to an address that is not.
LEMMA FreshUnreached ==
    ASSUME NEW h, WellTyped(h), Closed(h), NEW x \in Ids, h[x] = Null,
           NEW R \in SUBSET Ids, \A y \in R : h[y] # Null
    PROVE  x \notin Reach(h, R)
<1> DEFINE S == {y \in Ids : h[y] # Null}
<1>1. R \subseteq S /\ S \in SUBSET Ids /\ x \notin S
  OBVIOUS
<1>2. \A y \in S : Kids(h, y) \subseteq S
  <2>1. SUFFICES ASSUME NEW y \in S, NEW z \in Kids(h, y)
                 PROVE  z \in S
    OBVIOUS
  <2>2. y \in Addresses /\ z \in Ids
    BY <2>1, KidsAreIds DEF Addresses
  <2>3. QED
    BY <2>1, <2>2 DEF Closed, Addresses
<1> HIDE DEF S
<1>3. QED
  BY <1>1, <1>2, Outside

\* A clone at a fresh address shares the items of a container without a cycle.
LEMMA CloneKids ==
    ASSUME NEW h, WellTyped(h), Closed(h), Acyclical(h), NEW x \in Ids, h[x] = Null,
           NEW y \in Addresses, NEW g, Kids(g, x) \subseteq Kids(h, y),
           \A z \in Ids \ {x} : Kids(g, z) \subseteq Kids(h, z)
    PROVE  Acyclical(g)
<1> DEFINE R == Kids(h, y)
<1>1. R \in SUBSET Ids
  BY KidsAreIds
<1>2. \A z \in R : h[z] # Null
  BY <1>1 DEF Closed, Addresses
<1>3. Kids(g, x) \subseteq Kids(h, x) \cup R
  OBVIOUS
<1> HIDE DEF R
<1>4. x \notin Reach(h, R)
  BY <1>1, <1>2, FreshUnreached
<1>5. QED
  BY <1>1, <1>3, <1>4, MoreKids

\* What is destroyed has no items any more, the rest has those it had.
LEMMA CommittedKids ==
    ASSUME NEW h, NEW p, NEW touched, Commit(h, p, touched)
    PROVE  \A x \in Addresses : Kids(heap', x) \subseteq Kids(h, x)
BY Committed DEF Kids

\* An Add makes no cycle if the item does not lead to the container.
LEMMA AddIsAcyclical ==
    ASSUME NEW t, NEW p, NEW x, NEW g, AddsItem(t, p, x, g), Acyclical(g),
           t \in Ids => t \notin Reach(g, {x})
    PROVE  Acyclical(heap')
<1> DEFINE o == Offered(g, x, p)
           r == AddTo(g, t, x, p)
           R == {x}
<1>1. /\ WellTyped(g) /\ Closed(g) /\ IsContainer(g, t) /\ g[x] # Null /\ p \in Policies
      /\ x \in Ids /\ x \in Addresses /\ t \in Addresses
  BY DEF AddsItem, Adds, Addresses
<1>2. PICK touched : Commit(r.heap, hand, touched)
  BY DEF AddsItem, Adds
<1>3. /\ WellTyped(o) /\ IsContainer(o, t)
      /\ \A y \in Addresses : Kids(o, y) = Kids(g, y)
  BY <1>1, AddsNothingElse DEF Kids
<1>4. r.heap = o \/ Grown(o, t, x, r.heap)
  BY <1>1, AddToAnswer
<1> HIDE DEF o, r
<1>5. /\ Kids(r.heap, t) \subseteq Kids(g, t) \cup {x}
      /\ \A y \in Addresses \ {t} : Kids(r.heap, y) \subseteq Kids(g, y)
  <2>1. CASE r.heap = o
    BY <1>1, <1>3, <2>1
  <2>2. CASE Grown(o, t, x, r.heap)
    <3>1. /\ Kids(r.heap, t) \subseteq Kids(o, t) \cup {x}
          /\ \A y \in Addresses \ {t} : r.heap[y] = o[y]
      BY <1>1, <1>3, <2>2, GrownEnlarged, EnlargedKids
    <3>2. \A y \in Addresses \ {t} : Kids(r.heap, y) = Kids(o, y)
      BY <3>1 DEF Kids
    <3>3. QED
      BY <1>1, <1>3, <3>1, <3>2
  <2>3. QED
    BY <1>4, <2>1, <2>2
<1>6. \A y \in Addresses : Kids(heap', y) \subseteq Kids(r.heap, y)
  BY <1>2, CommittedKids
<1>7. R \in SUBSET Ids /\ (t \in Ids => t \notin Reach(g, R))
  BY <1>1
<1>8. /\ Kids(heap', t) \subseteq Kids(g, t) \cup R
      /\ \A y \in Ids \ {t} : Kids(heap', y) \subseteq Kids(g, y)
  BY <1>1, <1>5, <1>6 DEF Addresses
<1> HIDE DEF R
<1>9. CASE t \in Ids
  BY <1>1, <1>7, <1>8, <1>9, MoreKids
<1>10. CASE t \notin Ids
  BY <1>1, <1>8, <1>10, FewerKids
<1>11. QED
  BY <1>9, <1>10

\* Where the items of a clone do not lead, the clone does not lead.
LEMMA CloneLeads ==
    ASSUME NEW h, NEW x \in Ids, NEW A \in SUBSET Ids,
           \A y \in A : Kids(h, y) \subseteq A,
           NEW g, Kids(g, x) \subseteq A, \A y \in Ids \ {x} : Kids(g, y) \subseteq Kids(h, y),
           NEW t, t \notin A, t # x
    PROVE  t \notin Reach(g, {x})
<1> DEFINE R == {x}
           S == A \cup R
<1>1. S \in SUBSET Ids /\ R \subseteq S /\ t \notin S
  OBVIOUS
<1>2. \A y \in S : Kids(g, y) \subseteq S
  OBVIOUS
<1> HIDE DEF R, S
<1>3. Reach(g, R) \subseteq S
  BY <1>1, <1>2, Outside
<1>4. QED
  BY <1>1, <1>3 DEF R

LEMMA AddCopyAcyclical ==
    ASSUME Sound, Acyclical(heap), ~MayNest,
           NEW t, NEW p \in Policies, NEW x \in Ids, AddCopy(t, p, x)
    PROVE  Acyclical(heap')
<1> DEFINE g == [heap EXCEPT ![x] = heap[hand]]
           R == Kids(heap, hand)
           A == Reach(heap, R)
<1>1. AddsItem(t, p, x, g)
  BY AddCopyAdds
<1>2. /\ WellTyped(heap) /\ Closed(heap) /\ hand \in Addresses /\ heap[hand] # Null
      /\ x \in Addresses /\ heap[x] = Null /\ t \notin A
  BY DEF AddCopy, Sound, Addresses, Free, Live, NotUnder
<1>3. t # x
  BY <1>1 DEF AddsItem, Adds
<1>4. g[x] = heap[hand] /\ \A y \in Addresses \ {x} : g[y] = heap[y]
  BY <1>2 DEF WellTyped
<1> HIDE DEF g
<1>5. Kids(g, x) \subseteq R /\ \A y \in Ids \ {x} : Kids(g, y) \subseteq Kids(heap, y)
  BY <1>4 DEF Kids, Addresses
<1>6. Acyclical(g)
  BY <1>2, <1>5, CloneKids
<1>7. R \in SUBSET Ids
  BY <1>2, KidsAreIds
<1> HIDE DEF R
<1>8. A \in SUBSET Ids /\ R \subseteq A /\ \A y \in A : Kids(heap, y) \subseteq A
  BY <1>2, <1>7, ReachClosed
<1> HIDE DEF A
<1>9. t \notin Reach(g, {x})
  BY <1>2, <1>3, <1>5, <1>8, CloneLeads
<1>10. QED
  BY <1>1, <1>6, <1>9, AddIsAcyclical

LEMMA AddMoveAcyclical ==
    ASSUME Sound, Acyclical(heap),
           NEW t, NEW p \in Policies, NEW x \in Ids, AddMove(t, p, x)
    PROVE  Acyclical(heap')
<1> DEFINE g == [heap EXCEPT ![x] = heap[hand], ![hand] = MovedFrom(heap[hand])]
           R == {hand}
           A == Reach(heap, R)
<1>1. AddsItem(t, p, x, g)
  BY AddMoveAdds
<1>2. /\ WellTyped(heap) /\ Closed(heap) /\ hand \in Addresses /\ heap[hand] # Null
      /\ x \in Addresses /\ heap[x] = Null /\ t \notin A /\ R \in SUBSET Ids
  BY DEF AddMove, Sound, Addresses, Free, Live, NotUnder
<1>3. t # x
  BY <1>1 DEF AddsItem, Adds
<1>4. heap[hand] \in Item /\ MovedFrom(heap[hand]).kids = <<>>
  BY <1>2, ItemFields DEF MovedFrom, Item
<1>5. /\ g[x] = heap[hand] /\ g[hand].kids = <<>>
      /\ \A y \in Addresses \ {x, hand} : g[y] = heap[y]
  BY <1>2, <1>4 DEF WellTyped
<1> HIDE DEF g
<1>6. Kids(g, hand) \subseteq Kids(heap, hand)
  BY <1>5 DEF Kids, ToSet
<1>7. /\ Kids(g, x) \subseteq Kids(heap, hand)
      /\ \A y \in Ids \ {x} : Kids(g, y) \subseteq Kids(heap, y)
  BY <1>5, <1>6 DEF Kids, Addresses
<1>8. Acyclical(g)
  BY <1>2, <1>7, CloneKids
<1>9. hand \in R
  OBVIOUS
<1> HIDE DEF R
<1>10. A \in SUBSET Ids /\ R \subseteq A /\ \A y \in A : Kids(heap, y) \subseteq A
  BY <1>2, ReachClosed
<1> HIDE DEF A
<1>11. Kids(g, x) \subseteq A
  BY <1>7, <1>9, <1>10
<1>12. t \notin Reach(g, {x})
  BY <1>2, <1>3, <1>7, <1>10, <1>11, CloneLeads
<1>13. QED
  BY <1>1, <1>8, <1>12, AddIsAcyclical

LEMMA AddPointerAcyclical ==
    ASSUME Sound, Acyclical(heap), NEW t, NEW p \in Policies, AddPointer(t, p)
    PROVE  Acyclical(heap')
<1>1. AddsItem(t, p, hand, heap)
  BY AddPointerAdds
<1>2. t \notin Reach(heap, {hand})
  BY DEF AddPointer, NotUnder
<1>3. QED
  BY <1>1, <1>2, AddIsAcyclical

LEMMA ImportItemAcyclical ==
    ASSUME Sound, Acyclical(heap), NEW x \in Ids, ImportItem(x)
    PROVE  Acyclical(heap')
<1> DEFINE dst == import.dst
           p   == policy[dst]
           y   == Incoming
           g   == [heap EXCEPT ![x] = heap[y]]
<1>1. /\ AddsItem(dst, p, x, g) /\ x \in Free /\ y \in Addresses /\ dst \in Configs
  BY ImportItemAdds
<1>2. WellTyped(heap) /\ Closed(heap) /\ x \in Addresses /\ heap[x] = Null /\ dst \notin Ids
  BY <1>1, AddressesAssumption DEF Sound, Free, Live, Addresses
<1>3. g[x] = heap[y] /\ \A z \in Addresses \ {x} : g[z] = heap[z]
  BY <1>2 DEF WellTyped
<1> HIDE DEF g, y, p, dst
<1>4. /\ Kids(g, x) \subseteq Kids(heap, y)
      /\ \A z \in Ids \ {x} : Kids(g, z) \subseteq Kids(heap, z)
  BY <1>3 DEF Kids, Addresses
<1>5. Acyclical(g)
  BY <1>1, <1>2, <1>4, CloneKids
<1>6. QED
  BY <1>1, <1>2, <1>5, AddIsAcyclical

\* Taking over the items of the client's container, which do not lead to x.
LEMMA AssignAcyclical ==
    ASSUME Sound, Acyclical(heap), NEW x \in Ids, hand # Null,
           NotUnder(x, Kids(heap, hand)), NEW h, NEW touched, Commit(h, hand, touched),
           Kids(h, x) \subseteq Kids(heap, hand),
           \A y \in Ids \ {x} : Kids(h, y) \subseteq Kids(heap, y)
    PROVE  Acyclical(heap')
<1> DEFINE R == Kids(heap, hand)
<1>1. WellTyped(heap) /\ hand \in Addresses
  BY DEF Sound, Addresses
<1>2. R \in SUBSET Ids
  BY <1>1, KidsAreIds
<1>3. \A y \in Addresses : Kids(heap', y) \subseteq Kids(h, y)
  BY CommittedKids
<1>4. /\ Kids(heap', x) \subseteq Kids(heap, x) \cup R
      /\ \A y \in Ids \ {x} : Kids(heap', y) \subseteq Kids(heap, y)
  BY <1>3 DEF Addresses
<1>5. x \notin Reach(heap, R)
  BY DEF NotUnder
<1> HIDE DEF R
<1>6. QED
  BY <1>1, <1>2, <1>4, <1>5, MoreKids

\* Every call but the four that add and the two that assign leaves a container
\* the items it has or fewer.
LEMMA ShrinkAcyclical ==
    ASSUME Sound, Acyclical(heap), NEW h, NEW p, NEW touched, Commit(h, p, touched),
           \A y \in Ids : Kids(h, y) \subseteq Kids(heap, y)
    PROVE  Acyclical(heap')
<1>1. \A y \in Ids : Kids(heap', y) \subseteq Kids(heap, y)
  BY CommittedKids DEF Addresses
<1>2. QED
  BY <1>1, FewerKids DEF Sound

LEMMA MutateAcyclical ==
    ASSUME Sound, Acyclical(heap), Mutate
    PROVE  Acyclical(heap')
<1>1. PICK x \in Ids : \/ \E name \in AnyName : Rename(x, name)
                       \/ \E v \in Vals : SetValue(x, v) \/ SetText(x, v)
                       \/ Assign(x) \/ AssignMove(x)
                       \/ \E p \in UsedPolicies : SetOnExistingAction(x, p)
  BY DEF Mutate
<1>2. x \in Addresses /\ WellTyped(heap)
  BY DEF Sound, Addresses
<1>3. ASSUME NEW item, NEW touched, heap[x] # Null,
             Commit([heap EXCEPT ![x] = item], hand, touched), item.kids = heap[x].kids
      PROVE  Acyclical(heap')
  <2> DEFINE h == [heap EXCEPT ![x] = item]
  <2>1. h[x].kids = heap[x].kids /\ \A y \in Addresses \ {x} : h[y] = heap[y]
    BY <1>2, <1>3 DEF WellTyped
  <2>2. Commit(h, hand, touched)
    BY <1>3
  <2> HIDE DEF h
  <2>3. \A y \in Ids : Kids(h, y) \subseteq Kids(heap, y)
    BY <1>2, <1>3, <2>1 DEF Kids, Addresses
  <2>4. QED
    BY <2>2, <2>3, ShrinkAcyclical
<1>4. ASSUME heap[x] # Null
      PROVE  heap[x] \in Item
  BY <1>2, <1>4, ItemFields
<1>5. CASE heap' = heap
  BY <1>5
<1>6. ASSUME NEW name, Rename(x, name)
      PROVE  Acyclical(heap')
  <2>1. /\ heap[x] # Null
        /\ Commit([heap EXCEPT ![x].name = name], hand, mutated \cup Holders(x))
    BY <1>6 DEF Rename, Live
  <2>2. [heap[x] EXCEPT !.name = name].kids = heap[x].kids
    BY <1>4, <2>1 DEF Item
  <2>3. QED
    BY <1>3, <2>1, <2>2
<1>7. ASSUME NEW v, SetValue(x, v) \/ SetText(x, v)
      PROVE  Acyclical(heap')
  <2>1. CASE heap' # heap
    <3>1. /\ heap[x] # Null
          /\ Commit([heap EXCEPT ![x].val = v], hand, mutated \cup Holders(x))
      BY <1>7, <2>1 DEF SetValue, SetText, Live
    <3>2. [heap[x] EXCEPT !.val = v].kids = heap[x].kids
      BY <1>4, <3>1 DEF Item
    <3>3. QED
      BY <1>3, <3>1, <3>2
  <2>2. QED
    BY <1>5, <2>1
<1>8. ASSUME NEW p, SetOnExistingAction(x, p)
      PROVE  Acyclical(heap')
  <2>1. heap[x] # Null /\ Commit([heap EXCEPT ![x].policy = p], hand, mutated)
    BY <1>8 DEF SetOnExistingAction, Targets, Live
  <2>2. [heap[x] EXCEPT !.policy = p].kids = heap[x].kids
    BY <1>4, <2>1 DEF Item
  <2>3. QED
    BY <1>3, <2>1, <2>2
<1>9. CASE Assign(x)
  <2> DEFINE h == [heap EXCEPT ![x] = heap[hand]]
  <2>1. /\ Commit(h, hand, Passed(mutated \cup Holders(x), hand, x))
        /\ hand # Null /\ NotUnder(x, Kids(heap, hand))
    BY <1>9 DEF Assign
  <2>2. h[x] = heap[hand] /\ \A y \in Addresses \ {x} : h[y] = heap[y]
    BY <1>2 DEF WellTyped
  <2> HIDE DEF h
  <2>3. /\ Kids(h, x) \subseteq Kids(heap, hand)
        /\ \A y \in Ids \ {x} : Kids(h, y) \subseteq Kids(heap, y)
    BY <2>2 DEF Kids, Addresses
  <2>4. QED
    BY <2>1, <2>3, AssignAcyclical
<1>10. CASE AssignMove(x)
  <2> DEFINE h == [heap EXCEPT ![x] = heap[hand], ![hand] = MovedFrom(heap[hand])]
             R == {hand}
             A == Reach(heap, R)
  <2>1. /\ Commit(h, hand, Passed(mutated \cup Holders(x) \cup Holders(hand), hand, x)
                             \ {hand})
        /\ hand # Null /\ x \notin A
    BY <1>10 DEF AssignMove, NotUnder
  <2>2. /\ hand \in Addresses /\ heap[hand] # Null /\ R \in SUBSET Ids /\ hand \in R
    BY <2>1 DEF Sound, Addresses
  <2> HIDE DEF R
  <2>3. A \in SUBSET Ids /\ R \subseteq A /\ \A y \in A : Kids(heap, y) \subseteq A
    BY <1>2, <2>2, ReachClosed
  <2> HIDE DEF A
  <2>4. x # hand /\ Kids(heap, hand) \subseteq A
    BY <2>1, <2>2, <2>3
  <2>5. heap[hand] \in Item /\ MovedFrom(heap[hand]).kids = <<>>
    BY <1>2, <2>2, ItemFields DEF MovedFrom, Item
  <2>6. /\ h[x] = heap[hand] /\ h[hand].kids = <<>>
        /\ \A y \in Addresses \ {x, hand} : h[y] = heap[y]
    BY <1>2, <2>2, <2>4, <2>5 DEF WellTyped
  <2> HIDE DEF h
  <2>7. Kids(h, hand) \subseteq Kids(heap, hand)
    BY <2>6 DEF Kids, ToSet
  <2>8. /\ Kids(h, x) \subseteq Kids(heap, hand)
        /\ \A y \in Ids \ {x} : Kids(h, y) \subseteq Kids(heap, y)
    BY <2>6, <2>7 DEF Kids, Addresses
  <2>9. NotUnder(x, Kids(heap, hand))
    BY <2>1, <2>3, <2>4, Outside DEF NotUnder
  <2>10. QED
    BY <2>1, <2>8, <2>9, AssignAcyclical
<1>11. QED
  BY <1>1, <1>6, <1>7, <1>8, <1>9, <1>10

LEMMA AcyclicalStep ==
    ASSUME Sound, Acyclical(heap), ~MayNest, [Next]_vars
    PROVE  Acyclical(heap')
<1>1. WellTyped(heap) /\ \A c \in Configs : c \in Addresses /\ c \notin Ids
  BY ConfigsLive DEF Sound
<1>2. CASE heap' = heap
  BY <1>2
<1>3. ASSUME NEW h, NEW p, NEW touched, Commit(h, p, touched), \A y \in Ids : h[y] = heap[y]
      PROVE  Acyclical(heap')
  BY <1>3, ShrinkAcyclical DEF Kids
<1>4. CASE Own
  <2>1. ASSUME NEW x \in Ids, NEW kind, NEW name, NEW val, Make(x, kind, name, val)
        PROVE  Acyclical(heap')
    <3> DEFINE item == NewItem(kind, name, val)
               h    == [heap EXCEPT ![x] = item]
    <3>1. Commit(h, x, mutated)
      BY <2>1 DEF Make
    <3>2. item.kids = <<>>
      BY DEF NewItem
    <3> HIDE DEF item
    <3>3. h[x].kids = <<>> /\ \A y \in Addresses \ {x} : h[y] = heap[y]
      BY <1>1, <3>2 DEF WellTyped, Addresses
    <3> HIDE DEF h
    <3>4. \A y \in Ids : Kids(h, y) \subseteq Kids(heap, y)
      BY <3>3 DEF Kids, ToSet, Addresses
    <3>5. QED
      BY <3>1, <3>4, ShrinkAcyclical
  <2>2. ASSUME NEW x, Take(x) \/ Release
        PROVE  Acyclical(heap')
    BY <1>3, <2>2 DEF Take, Release
  <2>3. QED
    BY <1>4, <2>1, <2>2 DEF Own
<1>5. CASE AddItem
  <2>1. UsedPolicies \subseteq Policies
    BY BoundsAssumption
  <2>2. QED
    BY <1>5, <2>1, AddCopyAcyclical, AddMoveAcyclical, AddPointerAcyclical DEF AddItem
<1>6. ASSUME NEW t \in Targets, NEW kids, ToSet(kids) \subseteq Kids(heap, t),
             NEW touched, Commit([heap EXCEPT ![t].kids = kids], hand, touched)
      PROVE  Acyclical(heap')
  <2> DEFINE h == [heap EXCEPT ![t].kids = kids]
  <2>1. t \in Addresses /\ heap[t] \in Item
    BY <1>1, TargetSound, ItemFields
  <2>2. h[t].kids = kids /\ \A y \in Addresses \ {t} : h[y] = heap[y]
    BY <1>1, <2>1 DEF WellTyped, Item
  <2>3. Commit(h, hand, touched)
    BY <1>6
  <2> HIDE DEF h
  <2>4. Kids(h, t) \subseteq Kids(heap, t)
    BY <1>6, <2>2 DEF Kids
  <2>5. \A y \in Ids : Kids(h, y) \subseteq Kids(heap, y)
    BY <2>2, <2>4 DEF Kids, Addresses
  <2>6. QED
    BY <2>3, <2>5, ShrinkAcyclical
<1>7. CASE Next /\ ret'.out = "removed"
  <2>1. PICK t \in Targets : \E k \in 1..Len(heap[t].kids) :
           Commit([heap EXCEPT ![t].kids = RemoveAt(heap[t].kids, k)], hand, mutated)
    BY <1>7, RemovedBy
  <2>2. ASSUME NEW k \in 1..Len(heap[t].kids)
        PROVE  ToSet(RemoveAt(heap[t].kids, k)) \subseteq Kids(heap, t)
    BY <1>1, <2>2, TargetSound, ErasedKids
  <2>3. QED
    BY <1>6, <2>1, <2>2
<1>8. CASE RemoveItem
  <2>1. ASSUME NEW t, NEW i, RemoveIndex(t, i)
        PROVE  ret'.out = "removed" \/ heap' = heap
    BY <2>1 DEF RemoveIndex, Answer
  <2>2. ASSUME NEW t, NEW path, RemovePath(t, path)
        PROVE  ret'.out = "removed" \/ heap' = heap
    BY <2>2 DEF RemovePath, Answer
  <2>3. ASSUME NEW t, Clear(t)
        PROVE  Acyclical(heap')
    <3> DEFINE none == <<>>
    <3>1. t \in Targets /\ Commit([heap EXCEPT ![t].kids = none], hand, mutated)
      BY <2>3 DEF Clear
    <3>2. ToSet(none) \subseteq Kids(heap, t)
      BY DEF ToSet
    <3> HIDE DEF none
    <3>3. QED
      BY <1>6, <3>1, <3>2
  <2>4. QED
    BY <1>2, <1>7, <1>8, <2>1, <2>2, <2>3 DEF RemoveItem, Next
<1>9. CASE ConfigCall
  <2>1. ASSUME NEW c \in Configs, NEW item, NEW h, h = [heap EXCEPT ![c] = item]
        PROVE  \A y \in Ids : h[y] = heap[y]
    BY <1>1, <2>1 DEF WellTyped, Addresses
  <2>2. ASSUME NEW c \in Configs, NEW p, OnExistingAction(c, p)
        PROVE  Acyclical(heap')
    BY <1>3, <2>1, <2>2 DEF OnExistingAction
  <2>3. ASSUME NEW c \in Configs, NEW d \in Configs, CopyConfig(c, d)
        PROVE  Acyclical(heap')
    BY <1>3, <2>1, <2>3 DEF CopyConfig
  <2>4. ASSUME NEW c \in Configs, NEW d \in Configs, MoveConfig(c, d)
        PROVE  Acyclical(heap')
    <3> DEFINE h == [heap EXCEPT ![d] = heap[c], ![c] = MovedFrom(heap[c])]
    <3>1. Commit(h, hand, Passed(mutated, c, d) \ {c})
      BY <2>4 DEF MoveConfig
    <3>2. \A y \in Ids : h[y] = heap[y]
      BY <1>1 DEF WellTyped, Addresses
    <3> HIDE DEF h
    <3>3. QED
      BY <1>3, <3>1, <3>2
  <2>5. ASSUME NEW c \in Configs, NEW d \in Configs, StartImport(c, d)
        PROVE  Acyclical(heap')
    BY <1>2, <2>5 DEF StartImport
  <2>6. QED
    BY <1>9, <2>2, <2>3, <2>4, <2>5 DEF ConfigCall
<1>10. CASE ImportStep
  <2>1. CASE EndImport
    BY <1>2, <2>1 DEF EndImport
  <2>2. QED
    BY <1>10, <2>1, ImportItemAcyclical DEF ImportStep
<1>11. CASE Return
  BY <1>2, <1>11 DEF Return
<1>12. CASE UNCHANGED vars
  BY <1>2, <1>12 DEF vars
<1>13. QED
  BY <1>4, <1>5, <1>8, <1>9, <1>10, <1>11, <1>12, MutateAcyclical DEF Next

\* If the client never adds a copy of a container below that container, no
\* container is ever below itself, so Count, Serialize and == return: neither a
\* call nor an import makes a cycle of its own (Container::Add, Clone).
THEOREM NothingHoldsItself == ~MayNest => (Spec => []Acyclic)
<1> SUFFICES ASSUME ~MayNest
             PROVE  Spec => []Acyclic
  OBVIOUS
<1>1. Init => Acyclical(heap)
  <2> SUFFICES ASSUME Init, NEW t \in Ids
               PROVE  t \notin Reach(heap, Kids(heap, t))
    BY DEF Acyclical
  <2>1. heap[t] = Null
    BY AddressesAssumption DEF Init, Addresses
  <2> DEFINE S == Kids(heap, t)
  <2>2. S = {}
    BY <2>1 DEF Kids
  <2>3. Reach(heap, S) \subseteq S
    BY <2>2, Outside
  <2>4. QED
    BY <2>2, <2>3
<1>2. Sound /\ Acyclical(heap) /\ [Next]_vars => Acyclical(heap)'
  BY AcyclicalStep
<1>3. Acyclical(heap) => Acyclic
  BY DEF Acyclical, Acyclic
<1>4. QED
  BY <1>1, <1>2, <1>3, Soundness, PTL DEF Spec
=============================================================================
