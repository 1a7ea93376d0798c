--------------------------- MODULE TextReadProofs ---------------------------
(***************************************************************************)
(* Proofs about TextRead: type correctness, the activations of the parser, *)
(* and that reads keep names and values unique.                            *)
(***************************************************************************)
EXTENDS TextRead, ItemsProofs

\* A heap a read may leave: sound, and every container tidy.  The root, which a
\* hook may add to, goes by a policy of the enum's.
Good(h) ==
    WellTyped(h) /\ Closed(h) /\ Neat(h, {}) /\ h[Root].policy \in Policies

\* What the activations in fs rely on: each fills a live container of the kind
\* its mode is for, no two the same one; the outermost fills the root, and no
\* item holds the containers of the others.
Stacked(h, fs) ==
    /\ fs \in Seq(Frame)
    /\ \A k \in 1..Len(fs) :
          /\ h[fs[k].at] # Null
          /\ h[fs[k].at].kind = IF fs[k].mode = "Named" THEN "Group" ELSE "List"
          /\ IF k = 1 THEN fs[k].at = Root
                      ELSE fs[k].at \in Ids /\ Holding(h, fs[k].at) = {}
    /\ \A j, k \in 1..Len(fs) : j # k => fs[j].at # fs[k].at

\* The rest of the state; a parse has an activation per open container.
Control ==
    /\ policy \in Policies /\ action \in Policies
    /\ before \in Seq({"null", "hook"}) /\ after \in Seq({"null", "hook"})
    /\ onFailure \in {"null", "hook"}
    /\ phase \in Phases /\ next \in Nat \ {0} /\ ret \in Outcomes /\ reads \in Nat
    /\ read \in Seq(Token)
    /\ phase = "parse" <=> frames # <<>>
    /\ frames # <<>> => level = Len(frames) - 1

ReadSound == Good(heap) /\ Stacked(heap, frames) /\ Control

-----------------------------------------------------------------------------
(* Activations *)

\* The innermost activation, and the rest.
LEMMA Innermost ==
    ASSUME NEW h, NEW fs, Stacked(h, fs), fs # <<>>
    PROVE  /\ Len(fs) \in Nat /\ Len(fs) \in 1..Len(fs)
           /\ Last(fs) = fs[Len(fs)] /\ Last(fs) \in Frame
           /\ Front(fs) \in Seq(Frame) /\ Len(Front(fs)) = Len(fs) - 1
           /\ \A k \in 1..(Len(fs) - 1) : Front(fs)[k] = fs[k]
BY FrontAndLast DEF Stacked

\* Dropping the innermost activation.
LEMMA StackedFront ==
    ASSUME NEW h, NEW fs, Stacked(h, fs), fs # <<>>
    PROVE  Stacked(h, Front(fs))
<1>1. /\ Len(fs) \in Nat
      /\ Front(fs) \in Seq(Frame) /\ Len(Front(fs)) = Len(fs) - 1
      /\ \A k \in 1..(Len(fs) - 1) : Front(fs)[k] = fs[k]
  BY Innermost
<1>2. \A k \in 1..(Len(fs) - 1) : k \in 1..Len(fs)
  BY <1>1
<1>3. QED
  BY <1>1, <1>2 DEF Stacked

\* Replacing what the innermost activation waits for.
LEMMA StackedAgain ==
    ASSUME NEW h, NEW fs, Stacked(h, fs), fs # <<>>,
           NEW f \in Frame, f.at = Last(fs).at, f.mode = Last(fs).mode
    PROVE  /\ Stacked(h, Append(Front(fs), f))
           /\ Len(Append(Front(fs), f)) = Len(fs)
           /\ Append(Front(fs), f) # <<>>
<1> DEFINE n == Len(fs)
           new == Append(Front(fs), f)
<1>1. /\ n \in Nat /\ n \in 1..n
      /\ Last(fs) = fs[n]
      /\ Front(fs) \in Seq(Frame) /\ Len(Front(fs)) = n - 1
      /\ \A k \in 1..(n - 1) : Front(fs)[k] = fs[k]
  BY Innermost
<1>2. /\ new \in Seq(Frame) /\ Len(new) = n /\ new[n] = f
      /\ \A k \in 1..(n - 1) : new[k] = fs[k]
  <2>1. /\ new \in Seq(Frame) /\ Len(new) = (n - 1) + 1 /\ new[(n - 1) + 1] = f
        /\ \A k \in 1..(n - 1) : new[k] = Front(fs)[k]
    BY <1>1, AppendKeeps
  <2>2. QED
    BY <1>1, <2>1
<1> HIDE DEF new
<1>3. \A k \in 1..n : new[k].at = fs[k].at /\ new[k].mode = fs[k].mode
  <2>1. \A k \in 1..n : k = n \/ k \in 1..(n - 1)
    BY <1>1
  <2>2. QED
    BY <1>1, <1>2, <2>1
<1>4. new # <<>>
  BY <1>1, <1>2, EmptySeq
<1>5. Stacked(h, new)
  <2>1. ASSUME NEW k \in 1..n
        PROVE  /\ h[new[k].at] # Null
               /\ h[new[k].at].kind = IF new[k].mode = "Named" THEN "Group" ELSE "List"
               /\ IF k = 1 THEN new[k].at = Root
                           ELSE new[k].at \in Ids /\ Holding(h, new[k].at) = {}
    BY <1>3 DEF Stacked
  <2>2. \A j, k \in 1..n : j # k => new[j].at # new[k].at
    BY <1>3 DEF Stacked
  <2> HIDE DEF n
  <2>3. QED
    BY <1>2, <2>1, <2>2 DEF Stacked
<1>6. QED
  BY <1>2, <1>4, <1>5 DEF new

\* A new activation for a container that no other fills and no item holds.
LEMMA StackedMore ==
    ASSUME NEW h, NEW fs, Stacked(h, fs), fs # <<>>,
           NEW f \in Frame, f.at \in Ids, h[f.at] # Null, Holding(h, f.at) = {},
           h[f.at].kind = IF f.mode = "Named" THEN "Group" ELSE "List",
           \A k \in 1..Len(fs) : fs[k].at # f.at
    PROVE  /\ Stacked(h, Append(fs, f))
           /\ Len(Append(fs, f)) = Len(fs) + 1
           /\ Append(fs, f) # <<>>
<1> DEFINE n == Len(fs)
           new == Append(fs, f)
<1>1. fs \in Seq(Frame) /\ n \in Nat /\ n \in 1..n
  BY Innermost DEF Stacked
<1>2. /\ new \in Seq(Frame) /\ Len(new) = n + 1 /\ new[n + 1] = f
      /\ \A k \in 1..n : new[k] = fs[k]
  BY <1>1, AppendKeeps
<1> HIDE DEF new
<1>3. \A k \in 1..(n + 1) : k = n + 1 \/ k \in 1..n
  BY <1>1
<1>4. n + 1 # 1 /\ \A k \in 1..n : k # n + 1
  BY <1>1
<1>5. new # <<>>
  BY <1>1, <1>2, EmptySeq
<1>6. Stacked(h, new)
  <2>1. ASSUME NEW k \in 1..(n + 1)
        PROVE  /\ h[new[k].at] # Null
               /\ h[new[k].at].kind = IF new[k].mode = "Named" THEN "Group" ELSE "List"
               /\ IF k = 1 THEN new[k].at = Root
                           ELSE new[k].at \in Ids /\ Holding(h, new[k].at) = {}
    <3>1. CASE k \in 1..n
      BY <1>2, <3>1, ZenonT(30) DEF Stacked
    <3>2. CASE k = n + 1
      BY <1>2, <1>4, <3>2
    <3>3. QED
      BY <1>3, <3>1, <3>2
  <2>2. ASSUME NEW j \in 1..(n + 1), NEW k \in 1..(n + 1), j # k
        PROVE  new[j].at # new[k].at
    <3>1. CASE j \in 1..n /\ k \in 1..n
      BY <1>2, <2>2, <3>1 DEF Stacked
    <3>2. CASE j = n + 1 /\ k \in 1..n
      BY <1>2, <3>2
    <3>3. CASE j \in 1..n /\ k = n + 1
      BY <1>2, <3>3
    <3>4. QED
      BY <1>3, <2>2, <3>1, <3>2, <3>3
  <2>3. Len(new) = n + 1 /\ new \in Seq(Frame)
    BY <1>2
  <2> HIDE DEF n
  <2>4. QED
    BY <2>1, <2>2, <2>3 DEF Stacked
<1>7. QED
  BY <1>2, <1>5, <1>6 DEF new

\* No activation at all.
LEMMA StackedEmpty ==
    ASSUME NEW h
    PROVE  Stacked(h, <<>>)
BY EmptySeq DEF Stacked

\* Activations stay as they are when what they fill keeps its kind and nothing
\* takes hold of it.
LEMMA StackedFrame ==
    ASSUME NEW h, NEW g, NEW fs, Stacked(h, fs),
           \A k \in 1..Len(fs) : /\ g[fs[k].at] # Null
                                 /\ g[fs[k].at].kind = h[fs[k].at].kind
                                 /\ Holding(g, fs[k].at) \subseteq Holding(h, fs[k].at)
    PROVE  Stacked(g, fs)
BY DEF Stacked

-----------------------------------------------------------------------------
(* What a call does to the containers that are being filled *)

\* The innermost activation fills a container.
LEMMA InnermostFills ==
    ASSUME NEW h, WellTyped(h), NEW fs, Stacked(h, fs), fs # <<>>
    PROVE  /\ Last(fs).at \in Addresses /\ h[Last(fs).at] # Null
           /\ IsContainer(h, Last(fs).at)
<1>1. Len(fs) \in 1..Len(fs) /\ Last(fs) = fs[Len(fs)] /\ Last(fs) \in Frame
  BY Innermost
<1>2. /\ Last(fs).at \in Addresses
      /\ h[Last(fs).at] # Null /\ h[Last(fs).at].kind \in ContainerKinds
  BY <1>1 DEF Stacked, Frame, ContainerKinds
<1>3. QED
  BY <1>2 DEF IsContainer, WellTyped

\* Every activation fills the root or a container its caller holds.
LEMMA LocalsHeld ==
    ASSUME NEW h, NEW fs, Stacked(h, fs)
    PROVE  /\ Locals(fs) \in SUBSET Ids /\ \A p \in Locals(fs) : h[p] # Null
           /\ \A k \in 1..Len(fs) : fs[k].at \in Locals(fs) \cup {Root}
           /\ \A k \in 1..Len(fs) : fs[k].at \in Addresses
<1>1. /\ \A k \in 1..Len(fs) : fs[k] \in ToSet(fs)
      /\ \A f \in ToSet(fs) : \E k \in 1..Len(fs) : f = fs[k]
  BY DEF Stacked, ToSet
<1>2. \A k \in 1..Len(fs) : fs[k].at = Root \/ fs[k].at \in Ids
  BY DEF Stacked
<1>3. \A k \in 1..Len(fs) : h[fs[k].at] # Null
  BY DEF Stacked
<1>4. QED
  BY <1>1, <1>2, <1>3, ReadAssumption DEF Locals, Addresses

\* Releasing what nothing refers to leaves the activations their containers.
LEMMA SettledGood ==
    ASSUME NEW h, Good(h), NEW fs, Stacked(h, fs)
    PROVE  Good(Settled(h, Locals(fs))) /\ Stacked(Settled(h, Locals(fs)), fs)
<1> DEFINE held == Locals(fs)
           g    == Settled(h, held)
<1>1. held \in SUBSET Ids /\ \A p \in held : h[p] # Null
  BY LocalsHeld
<1>2. \A k \in 1..Len(fs) : fs[k].at \in held \cup {Root} /\ fs[k].at \in Addresses
  BY LocalsHeld
<1> HIDE DEF held
<1>3. /\ WellTyped(g) /\ Closed(g) /\ \A p \in held : g[p] # Null
      /\ \A c \in Configs : g[c] = h[c]
      /\ \A x \in Addresses : g[x] # Null => g[x] = h[x]
  BY <1>1, SettledKeeps DEF Good
<1>4. Neat(g, {})
  <2>1. Neat(g, {t \in {} : g[t] # Null})
    BY <1>1, SettledNeat DEF Good
  <2>2. {t \in {} : g[t] # Null} = {}
    OBVIOUS
  <2>3. QED
    BY <2>1, <2>2
<1> HIDE DEF g
<1>5. \A y \in Addresses : Kids(g, y) \subseteq Kids(h, y)
  BY <1>3 DEF Kids
<1>6. \A y \in Addresses : Holding(g, y) \subseteq Holding(h, y)
  BY <1>5 DEF Holding
<1>7. \A k \in 1..Len(fs) : g[fs[k].at] # Null
  <2>1. g[Root] # Null
    BY <1>3, ReadAssumption DEF WellTyped
  <2>2. QED
    BY <1>2, <1>3, <2>1
<1>8. Stacked(g, fs)
  BY <1>2, <1>3, <1>6, <1>7, StackedFrame
<1>9. g[Root].policy \in Policies
  BY <1>3, ReadAssumption DEF Good
<1>10. QED
  BY <1>3, <1>4, <1>8, <1>9 DEF Good, g, held

\* An item that no activation fills is added to the innermost container.
LEMMA AddKeeps ==
    ASSUME NEW h, Good(h), NEW fs, Stacked(h, fs), fs # <<>>, NEW p \in Policies,
           NEW x \in Ids, h[x] # Null, \A k \in 1..Len(fs) : fs[k].at # x,
           NEW r, r = AddTo(h, Last(fs).at, x, p)
    PROVE  Good(r.heap) /\ Stacked(r.heap, fs) /\ r.out \in AddOutcomes
<1> DEFINE t == Last(fs).at
           g == r.heap
<1>1. /\ WellTyped(h) /\ Closed(h) /\ Neat(h, {})
      /\ t \in Addresses /\ IsContainer(h, t)
  BY InnermostFills DEF Good
<1> HIDE DEF t
<1>2. r = AddTo(h, t, x, p)
  BY DEF t
<1>3. /\ WellTyped(g) /\ Closed(g) /\ r.out \in AddOutcomes
      /\ \A y \in Addresses : h[y] # Null => g[y] # Null
  BY <1>1, <1>2, AddToSound DEF AnyPolicy
<1>4. Neat(g, {})
  BY <1>1, <1>2, NeatAdd DEF AnyPolicy
<1>5. \A y \in Addresses :
         /\ h[y] # Null => g[y].kind = h[y].kind
         /\ y # x => Holding(g, y) \subseteq Holding(h, y)
  BY <1>1, <1>2, AddToKeeps DEF AnyPolicy
<1> HIDE DEF g
<1>6. \A k \in 1..Len(fs) : fs[k].at \in Addresses /\ fs[k].at # x /\ h[fs[k].at] # Null
  BY LocalsHeld DEF Stacked
<1>7. Stacked(g, fs)
  BY <1>3, <1>5, <1>6, StackedFrame
<1>8. g[Root].policy \in Policies
  <2>1. Root \in Addresses /\ Root # x /\ h[Root] # Null /\ h[Root].policy \in Policies
    BY ReadAssumption, AddressesAssumption DEF Good, WellTyped, Addresses
  <2>2. g[Root].policy = h[Root].policy
    BY <1>1, <1>2, <2>1, AddTouches DEF AnyPolicy, g
  <2>3. QED
    BY <2>1, <2>2
<1>9. QED
  BY <1>3, <1>4, <1>7, <1>8 DEF Good, g

\* An item that is allocated is in no container and looks like nothing else.
LEMMA FreshKeeps ==
    ASSUME NEW h, Good(h), NEW fs, Stacked(h, fs), NEW x \in Ids, h[x] = Null,
           NEW kind \in Kinds, NEW name \in AnyName, NEW val \in Vals \cup {NoVal},
           NEW g, Puts(h, x, NewItem(kind, name, val), g)
    PROVE  /\ Good(g) /\ Stacked(g, fs)
           /\ g[x] # Null /\ g[x].kind = kind /\ Holding(g, x) = {}
           /\ \A k \in 1..Len(fs) : fs[k].at # x
<1> DEFINE item == NewItem(kind, name, val)
           none == <<>>
<1>1. item.kids = none /\ item.kind = kind
  BY DEF NewItem
<1>2. item \in Item
  BY EmptySeq DEF NewItem, Item, AnyPolicy, Policies
<1>3. WellTyped(h) /\ Closed(h) /\ Neat(h, {}) /\ x \in Addresses /\ x \notin Configs
  BY AddressesAssumption DEF Good, Addresses
<1>4. Len(none) = 0 /\ none = <<>> /\ Tidy(h, kind, none)
  BY EmptySeq, TidyEmpty
<1> HIDE DEF item, none
<1>5. Puts(h, x, item, g)
  BY DEF item
<1>6. /\ x \in Configs => item.kind = "Group"
      /\ item.kids # <<>> => item.kind \in ContainerKinds
      /\ \A k \in 1..Len(item.kids) : h[item.kids[k]] # Null
      /\ Tidy(h, item.kind, item.kids)
      /\ \A k \in 1..Len(item.kids) : item.kids[k] # x
  BY <1>1, <1>3, <1>4
<1>7. /\ WellTyped(g) /\ Closed(g) /\ g[x] = item /\ g[x] # Null
      /\ \A y \in Addresses \ {x} : g[y] = h[y]
  BY <1>2, <1>3, <1>5, <1>6, PutItem
<1>8. Holding(h, x) = {}
  BY <1>3, HeldByNone
<1>9. Neat(g, {})
  <2> DEFINE nothing == {}
  <2>1. Neat(h, nothing)
    BY <1>3
  <2>2. \A s \in Addresses \ nothing : s # x => s \notin nothing /\ x \notin Kids(h, s)
    BY <1>8 DEF Holding
  <2> HIDE DEF nothing
  <2>3. Neat(g, nothing)
    BY <1>2, <1>3, <1>5, <1>6, <2>1, <2>2, NeatWrite
  <2>4. QED
    BY <2>3 DEF nothing
<1>10. \A y \in Addresses : Kids(g, y) \subseteq Kids(h, y)
  <2>1. Kids(g, x) = {}
    <3>1. Kids(g, x) = {g[x].kids[k] : k \in 1..Len(g[x].kids)}
      BY <1>3, <1>7, ItemFields
    <3>2. QED
      BY <1>1, <1>4, <1>7, <3>1
  <2>2. QED
    BY <1>7, <2>1 DEF Kids
<1>11. Holding(g, x) = {} /\ \A y \in Addresses : Holding(g, y) \subseteq Holding(h, y)
  BY <1>8, <1>10 DEF Holding
<1>12. \A k \in 1..Len(fs) : fs[k].at \in Addresses /\ fs[k].at # x /\ h[fs[k].at] # Null
  BY LocalsHeld DEF Stacked
<1>13. Stacked(g, fs)
  BY <1>7, <1>11, <1>12, StackedFrame
<1>14. g[Root].policy \in Policies
  BY <1>3, <1>7, ReadAssumption DEF Good, Addresses
<1>15. QED
  BY <1>1, <1>7, <1>9, <1>11, <1>12, <1>13, <1>14 DEF Good

PutsName(h, x, name, g) == g = [h EXCEPT ![x].name = name]

\* The name of an item that no container holds may change.
LEMMA NameKeeps ==
    ASSUME NEW h, Good(h), NEW fs, Stacked(h, fs),
           NEW x \in Ids, h[x] # Null, Holding(h, x) = {}, NEW name \in AnyName,
           NEW g, PutsName(h, x, name, g)
    PROVE  Good(g) /\ Stacked(g, fs) /\ g[x] # Null
<1> DEFINE item == [h[x] EXCEPT !.name = name]
           nothing == {}
<1>1. /\ WellTyped(h) /\ Closed(h) /\ Neat(h, nothing)
      /\ x \in Addresses /\ x \notin Configs
  BY AddressesAssumption DEF Good, Addresses
<1>2. /\ h[x] \in Item /\ Kids(h, x) \subseteq Ids
      /\ Kids(h, x) = {h[x].kids[k] : k \in 1..Len(h[x].kids)}
  BY <1>1, ItemFields
<1>3. /\ item \in Item /\ item.kids = h[x].kids /\ item.kind = h[x].kind
  BY <1>2 DEF Item
<1>4. Puts(h, x, item, g)
  BY DEF Puts, PutsName
<1> HIDE DEF item
<1>5. /\ x \in Configs => item.kind = "Group"
      /\ item.kids # <<>> => item.kind \in ContainerKinds
      /\ \A k \in 1..Len(item.kids) : h[item.kids[k]] # Null
  BY <1>1, <1>2, <1>3 DEF WellTyped, Closed, Addresses
<1>6. /\ WellTyped(g) /\ Closed(g) /\ g[x] = item /\ g[x] # Null
      /\ \A y \in Addresses \ {x} : g[y] = h[y]
  BY <1>1, <1>3, <1>4, <1>5, PutItem
<1>7. Neat(g, nothing)
  BY <1>1, <1>3, <1>4, NeatTouch DEF nothing
<1>8. \A y \in Addresses : g[y].kind = h[y].kind /\ Kids(g, y) = Kids(h, y)
  <2>1. g[x].kind = h[x].kind /\ Kids(g, x) = Kids(h, x)
    BY <1>3, <1>6 DEF Kids
  <2>2. QED
    BY <1>6, <2>1 DEF Kids
<1>9. \A y \in Addresses : Holding(g, y) \subseteq Holding(h, y)
  BY <1>8 DEF Holding
<1>10. \A k \in 1..Len(fs) : fs[k].at \in Addresses /\ h[fs[k].at] # Null
  BY LocalsHeld DEF Stacked
<1>11. \A k \in 1..Len(fs) : g[fs[k].at] # Null
  BY <1>6, <1>10
<1>12. Stacked(g, fs)
  BY <1>8, <1>9, <1>10, <1>11, StackedFrame
<1>13. g[Root].policy \in Policies
  BY <1>1, <1>6, ReadAssumption DEF Good, Addresses
<1>14. QED
  BY <1>6, <1>7, <1>12, <1>13 DEF Good, nothing

-----------------------------------------------------------------------------
(* What a call does to the root *)

\* Releasing what nothing refers to, between parses.
LEMMA SettledRoot ==
    ASSUME NEW h, Good(h)
    PROVE  Good(Settled(h, {}))
<1> DEFINE none == <<>>
<1>1. Stacked(h, none)
  BY StackedEmpty
<1>2. Locals(none) = {}
  BY DEF Locals, ToSet
<1> HIDE DEF none
<1>3. Good(Settled(h, Locals(none)))
  BY <1>1, SettledGood
<1>4. QED
  BY <1>2, <1>3

\* The root has its first activation, and it alone.
LEMMA StackedRoot ==
    ASSUME NEW h, Good(h)
    PROVE  Stacked(h, <<NewFrame(Root, "Named")>>)
<1> DEFINE f == NewFrame(Root, "Named")
<1>1. /\ f \in Frame /\ f.at = Root /\ f.mode = "Named"
  BY ReadAssumption DEF NewFrame, Frame, Addresses, AnyName
<1>2. h[Root] # Null /\ h[Root].kind = "Group"
  BY ReadAssumption DEF Good, WellTyped
<1> HIDE DEF f
<1>3. <<f>> \in Seq(Frame) /\ Len(<<f>>) = 1 /\ \A k \in 1..1 : k = 1 /\ <<f>>[k] = f
  BY <1>1
<1>4. QED
  BY <1>1, <1>2, <1>3 DEF Stacked, f

PutsPolicy(h, x, p, g) == g = [h EXCEPT ![x].policy = p]

\* The policy of the root may change.
LEMMA PolicyKeeps ==
    ASSUME NEW h, Good(h), NEW p \in Policies, NEW g, PutsPolicy(h, Root, p, g)
    PROVE  Good(g)
<1> DEFINE item == [h[Root] EXCEPT !.policy = p]
           nothing == {}
<1>1. /\ WellTyped(h) /\ Closed(h) /\ Neat(h, nothing)
      /\ Root \in Addresses /\ h[Root] # Null /\ h[Root].kind = "Group"
  BY ReadAssumption DEF Good, Addresses, WellTyped
<1>2. /\ h[Root] \in Item /\ Kids(h, Root) \subseteq Ids
      /\ Kids(h, Root) = {h[Root].kids[k] : k \in 1..Len(h[Root].kids)}
  BY <1>1, ItemFields
<1>3. /\ item \in Item /\ item.kids = h[Root].kids /\ item.kind = h[Root].kind
      /\ item.name = h[Root].name /\ item.val = h[Root].val /\ item.policy = p
  BY <1>2 DEF Item, AnyPolicy
<1>4. Puts(h, Root, item, g)
  BY DEF Puts, PutsPolicy
<1> HIDE DEF item, nothing
<1>5. /\ Root \in Configs => item.kind = "Group"
      /\ item.kids # <<>> => item.kind \in ContainerKinds
      /\ \A k \in 1..Len(item.kids) : h[item.kids[k]] # Null
  BY <1>1, <1>2, <1>3 DEF WellTyped, Closed, Addresses, ContainerKinds
<1>6. WellTyped(g) /\ Closed(g) /\ g[Root] = item
  BY <1>1, <1>3, <1>4, <1>5, PutItem
<1>7. Looks(h, Root, item)
  BY <1>1, <1>3 DEF Looks
<1>8. Neat(g, nothing)
  BY <1>1, <1>3, <1>4, <1>7, NeatTouch
<1>9. QED
  BY <1>3, <1>6, <1>8 DEF Good, nothing

\* The root may be emptied.
LEMMA ClearKeeps ==
    ASSUME NEW h, Good(h), NEW none, none = <<>>, NEW g, PutsKids(h, Root, none, g)
    PROVE  Good(g)
<1> DEFINE nothing == {}
<1>1. /\ WellTyped(h) /\ Closed(h) /\ Neat(h, nothing)
      /\ Root \in Addresses /\ IsContainer(h, Root)
  BY ReadAssumption DEF Good, Addresses, WellTyped, IsContainer, ContainerKinds
<1>2. none \in Seq(Ids) /\ \A k \in 1..Len(none) : h[none[k]] # Null
  BY EmptySeq
<1>3. Tidy(h, h[Root].kind, none)
  BY TidyEmpty
<1> HIDE DEF nothing
<1>4. WellTyped(g) /\ Closed(g)
  BY <1>1, <1>2, PutKids
<1>5. Neat(g, nothing)
  BY <1>1, <1>2, <1>3, NeatKids
<1>6. g[Root].policy \in Policies
  BY ReadAssumption DEF PutsKids, Good, WellTyped, Item, Addresses
<1>7. QED
  BY <1>4, <1>5, <1>6 DEF Good, nothing

\* An item may be added to the root.
LEMMA AddToRootKeeps ==
    ASSUME NEW h, Good(h), NEW x \in Ids, h[x] # Null, NEW p \in Policies,
           NEW r, r = AddTo(h, Root, x, p)
    PROVE  Good(r.heap) /\ r.out \in AddOutcomes
<1> DEFINE nothing == {}
<1>1. /\ WellTyped(h) /\ Closed(h) /\ Neat(h, nothing)
      /\ Root \in Addresses /\ IsContainer(h, Root)
  BY ReadAssumption DEF Good, Addresses, WellTyped, IsContainer, ContainerKinds
<1> HIDE DEF nothing
<1>2. WellTyped(r.heap) /\ Closed(r.heap) /\ r.out \in AddOutcomes
  BY <1>1, AddToSound DEF AnyPolicy
<1>3. Neat(r.heap, nothing)
  BY <1>1, NeatAdd DEF AnyPolicy
<1>4. r.heap[Root].policy \in Policies
  <2>1. Root # x /\ h[Root] # Null /\ h[Root].policy \in Policies
    BY ReadAssumption, AddressesAssumption DEF Good, WellTyped
  <2>2. r.heap[Root].policy = h[Root].policy
    BY <1>1, <2>1, AddTouches DEF AnyPolicy
  <2>3. QED
    BY <2>1, <2>2
<1>5. QED
  BY <1>2, <1>3, <1>4 DEF Good, nothing

-----------------------------------------------------------------------------
(* Hooks *)

\* A hook returns, or throws.
LEMMA HookEndSound ==
    ASSUME ReadSound, phase \in {"before", "after"}, NEW h, Good(h),
           NEW what \in Outcomes, HookReturns(h) \/ HookThrows(h, what),
           UNCHANGED <<client, frames, level, action, read, history>>
    PROVE  ReadSound'
<1>1. frames = <<>>
  BY DEF ReadSound, Control
<1>2. heap' = Settled(h, {})
  BY DEF HookReturns, HookThrows
<1>3. Good(heap')
  BY <1>2, SettledRoot
<1>4. Stacked(heap', frames')
  BY <1>1, StackedEmpty
<1>5. Control'
  BY <1>1 DEF ReadSound, Control, HookReturns, HookThrows, Finish, client, history, Phases
<1>6. QED
  BY <1>3, <1>4, <1>5 DEF ReadSound

\* What a hook does with the root.
LEMMA HookBodySound ==
    ASSUME ReadSound, phase \in {"before", "after"}, HookBody,
           UNCHANGED <<client, frames, level, action, read, history>>
    PROVE  ReadSound'
<1>1. Good(heap) /\ WellTyped(heap) /\ Root \in Addresses /\ Root \in DOMAIN heap
  BY ReadAssumption DEF ReadSound, Good, WellTyped, Addresses
<1>2. CASE HookReturns(heap) \/ HookThrows(heap, "HookException")
  <2>1. "HookException" \in Outcomes
    BY DEF Outcomes
  <2>2. QED
    BY <1>1, <1>2, <2>1, HookEndSound
<1>3. CASE HookReturns([heap EXCEPT ![Root].kids = <<>>])
  <2> DEFINE none == <<>>
             g    == [heap EXCEPT ![Root].kids = none]
  <2>1. PutsKids(heap, Root, none, g)
    BY DEF PutsKids
  <2>2. HookReturns(g)
    BY <1>3
  <2> HIDE DEF g
  <2>3. Good(g)
    <3>1. none = <<>>
      OBVIOUS
    <3> HIDE DEF none
    <3>2. QED
      BY <1>1, <2>1, <3>1, ClearKeeps
  <2>4. "none" \in Outcomes
    BY DEF Outcomes
  <2>5. QED
    BY <2>2, <2>3, <2>4, HookEndSound
<1>4. ASSUME NEW p \in UsedPolicies, HookReturns([heap EXCEPT ![Root].policy = p])
      PROVE  ReadSound'
  <2> DEFINE g == [heap EXCEPT ![Root].policy = p]
  <2>1. PutsPolicy(heap, Root, p, g) /\ p \in Policies
    BY ReadAssumption DEF PutsPolicy
  <2>2. HookReturns(g)
    BY <1>4
  <2> HIDE DEF g
  <2>3. Good(g)
    BY <1>1, <2>1, PolicyKeeps
  <2>4. "none" \in Outcomes
    BY DEF Outcomes
  <2>5. QED
    BY <2>2, <2>3, <2>4, HookEndSound
<1>5. ASSUME NEW x \in Free, NEW name \in Names \cup OddNames, NEW v \in Vals,
             HookAdds(x, name, v)
      PROVE  ReadSound'
  <2> DEFINE g == [heap EXCEPT ![x] = NewItem("Value", name, v)]
             p == heap[Root].policy
             r == AddTo(g, Root, x, p)
  <2>1. /\ x \in Ids /\ heap[x] = Null /\ "Value" \in Kinds /\ name \in AnyName
        /\ v \in Vals \cup {NoVal} /\ Stacked(heap, frames)
    BY DEF Free, Kinds, AnyName, ReadSound
  <2>2. Puts(heap, x, NewItem("Value", name, v), g)
    BY DEF Puts
  <2>3. p \in Policies
    BY <1>1 DEF Good
  <2>4. IF r.out \in AddErrors THEN HookThrows(r.heap, r.out) ELSE HookReturns(r.heap)
    BY <1>5 DEF HookAdds
  <2> HIDE DEF g, p
  <2>5. Good(g) /\ g[x] # Null
    BY <1>1, <2>1, <2>2, FreshKeeps
  <2>6. r = AddTo(g, Root, x, p)
    OBVIOUS
  <2> HIDE DEF r
  <2>7. Good(r.heap)
    BY <2>1, <2>3, <2>5, <2>6, AddToRootKeeps
  <2>8. CASE r.out \in AddErrors
    <3>1. r.out \in Outcomes /\ HookThrows(r.heap, r.out)
      BY <2>4, <2>8 DEF Outcomes
    <3>2. QED
      BY <2>7, <3>1, HookEndSound
  <2>9. CASE r.out \notin AddErrors
    <3>1. HookReturns(r.heap) /\ "none" \in Outcomes
      BY <2>4, <2>9 DEF Outcomes
    <3>2. QED
      BY <2>7, <3>1, HookEndSound
  <2>10. QED
    BY <2>8, <2>9
<1>6. QED
  BY <1>2, <1>3, <1>4, <1>5 DEF HookBody

LEMMA CallHookSound ==
    ASSUME ReadSound, NEW when \in {"before", "after"}, NEW hooks, CallHook(when, hooks)
    PROVE  ReadSound'
<1>1. /\ phase \in {"before", "after"}
      /\ UNCHANGED <<client, frames, level, action, read, history>>
  BY DEF CallHook
<1>2. CASE next' = next + 1 /\ UNCHANGED <<heap, phase, ret, calls>>
  BY <1>1, <1>2 DEF ReadSound, Control, client, history
<1>3. CASE HookBody
  BY <1>1, <1>3, HookBodySound
<1>4. QED
  BY <1>2, <1>3 DEF CallHook

-----------------------------------------------------------------------------
(* The client, and the start and the end of a read *)

LEMMA ClientSound ==
    ASSUME ReadSound, Client
    PROVE  ReadSound'
<1>1. ASSUME NEW p \in UsedPolicies, OnExistingAction(p)
      PROVE  ReadSound'
  <2>1. PutsPolicy(heap, Root, p, heap') /\ p \in Policies /\ Good(heap)
    BY <1>1, ReadAssumption DEF OnExistingAction, PutsPolicy, ReadSound
  <2>2. Good(heap')
    BY <2>1, PolicyKeeps
  <2>3. frames = <<>> /\ UNCHANGED frames
    BY <1>1 DEF OnExistingAction, Idle, ReadSound, Control
  <2>4. Stacked(heap', frames')
    BY <2>3, StackedEmpty
  <2>5. Control'
    BY <1>1, <2>1 DEF OnExistingAction, Idle, ReadSound, Control, history
  <2>6. QED
    BY <2>2, <2>4, <2>5 DEF ReadSound
<1>2. ASSUME NEW hook \in UsedHooks,
             \/ AddHookBeforeRead(hook) \/ AddHookAfterRead(hook) \/ OnParseFailure(hook)
      PROVE  ReadSound'
  <2>1. UNCHANGED <<heap, policy, action, phase, next, ret, reads, read, frames, level>>
    BY <1>2 DEF AddHookBeforeRead, AddHookAfterRead, OnParseFailure, Idle, history
  <2>2. hook \in {"null", "hook"}
    BY ReadAssumption
  <2>3. /\ before' \in Seq({"null", "hook"}) /\ after' \in Seq({"null", "hook"})
        /\ onFailure' \in {"null", "hook"}
    <3> DEFINE Slots == {"null", "hook"}
    <3>1. /\ before \in Seq(Slots) /\ after \in Seq(Slots) /\ onFailure \in Slots
          /\ hook \in Slots
      BY <2>2 DEF ReadSound, Control
    <3> HIDE DEF Slots
    <3>2. Append(before, hook) \in Seq(Slots) /\ Append(after, hook) \in Seq(Slots)
      BY <3>1, AppendKeeps
    <3>3. before' \in Seq(Slots) /\ after' \in Seq(Slots) /\ onFailure' \in Slots
      BY <1>2, <3>1, <3>2 DEF AddHookBeforeRead, AddHookAfterRead, OnParseFailure
    <3>4. QED
      BY <3>3 DEF Slots
  <2>4. QED
    BY <2>1, <2>3 DEF ReadSound, Control
<1>3. QED
  BY <1>1, <1>2 DEF Client

LEMMA StartReadSound ==
    ASSUME ReadSound, StartRead
    PROVE  ReadSound'
BY DEF ReadSound, Control, StartRead, client, Phases, Outcomes

LEMMA StartParseSound ==
    ASSUME ReadSound, StartParse
    PROVE  ReadSound'
<1>1. frames' = <<NewFrame(Root, "Named")>> /\ UNCHANGED heap /\ level' = 0
  BY DEF StartParse
<1>2. Stacked(heap', frames')
  BY <1>1, StackedRoot DEF ReadSound
<1>3. frames' # <<>> /\ Len(frames') = 1
  BY <1>1
<1>4. Control'
  BY <1>1, <1>3 DEF ReadSound, Control, StartParse, client, Phases
<1>5. QED
  BY <1>1, <1>2, <1>4 DEF ReadSound

\* A read that is over outside of the parse.
LEMMA FinishSound ==
    ASSUME ReadSound, EndRead \/ ReportFailure
    PROVE  ReadSound'
<1>1. /\ phase \in {"after", "failed"} /\ phase' = "idle"
      /\ ret' \in Outcomes
      /\ UNCHANGED <<heap, client, next, frames, level, action, read, history>>
  BY DEF EndRead, ReportFailure, Finish, Outcomes
<1>2. QED
  BY <1>1 DEF ReadSound, Control, client, history, Phases

-----------------------------------------------------------------------------
(* The parse *)

\* A token is read.
LEMMA ConsumeSound ==
    ASSUME ReadSound, NEW token \in Token, Consume(token)
    PROVE  /\ phase = "parse" /\ frames # <<>> /\ level = Len(frames) - 1
           /\ Good(heap) /\ Stacked(heap, frames)
           /\ action \in Policies /\ read' \in Seq(Token)
           /\ UNCHANGED <<policy, before, after, onFailure, action, reads>>
BY AppendKeeps DEF ReadSound, Control, Consume, client, history

\* The parse goes on in the activations that are left, or the read is over.
LEMMA ParseSound ==
    ASSUME ReadSound, NEW token \in Token, Consume(token),
           Good(heap'), Stacked(heap', frames'), ret' \in Outcomes, next' \in Nat \ {0},
           \/ phase' = "parse" /\ frames' # <<>> /\ level' = Len(frames') - 1
           \/ phase' \in Phases \ {"parse"} /\ frames' = <<>>
    PROVE  ReadSound'
BY ConsumeSound DEF ReadSound, Control

LEMMA FailSound ==
    ASSUME ReadSound, NEW token \in Token, Consume(token), Fail
    PROVE  ReadSound'
<1>1. Good(heap) /\ heap' = Settled(heap, {}) /\ frames' = <<>>
  BY DEF Fail, ReadSound
<1>2. Good(heap') /\ Stacked(heap', frames')
  BY <1>1, SettledRoot, StackedEmpty
<1>3. /\ ret' \in Outcomes /\ next' \in Nat \ {0}
      /\ phase' \in Phases \ {"parse"}
  BY DEF Fail, ReadSound, Control, Phases
<1>4. QED
  BY <1>1, <1>2, <1>3, ParseSound

LEMMA AwaitSound ==
    ASSUME ReadSound, NEW token \in Token, Consume(token),
           NEW want \in {"item", "equal", "value"}, NEW name \in AnyName, Await(want, name)
    PROVE  ReadSound'
<1> DEFINE f == Wanting(Top, want, name)
<1>1. /\ frames # <<>> /\ level = Len(frames) - 1 /\ phase = "parse"
      /\ Good(heap) /\ Stacked(heap, frames)
  BY ConsumeSound
<1>2. Top = Last(frames) /\ Top \in Frame
  BY <1>1, Innermost DEF Top
<1>3. f \in Frame /\ f.at = Last(frames).at /\ f.mode = Last(frames).mode
  BY <1>2 DEF Wanting, Frame
<1>4. /\ frames' = Append(Front(frames), f)
      /\ UNCHANGED <<heap, phase, next, level, ret>>
  BY DEF Await
<1> HIDE DEF f
<1>5. /\ Stacked(heap, frames') /\ Len(frames') = Len(frames) /\ frames' # <<>>
  BY <1>1, <1>3, <1>4, StackedAgain
<1>6. ret \in Outcomes /\ next \in Nat \ {0}
  BY DEF ReadSound, Control
<1>7. /\ Good(heap') /\ Stacked(heap', frames') /\ ret' \in Outcomes
      /\ next' \in Nat \ {0}
      /\ phase' = "parse" /\ frames' # <<>> /\ level' = Len(frames') - 1
  BY <1>1, <1>4, <1>5, <1>6
<1>8. QED
  BY <1>7, ParseSound

\* Adding an item that no activation fills to the innermost container of fs:
\* the activations of fs are left, or none.
LEMMA DeliverSound ==
    ASSUME NEW h, Good(h), NEW fs, Stacked(h, fs), fs # <<>>, action \in Policies,
           NEW x \in Ids, h[x] # Null, \A k \in 1..Len(fs) : fs[k].at # x,
           Deliver(h, x, fs)
    PROVE  /\ Good(heap') /\ Stacked(heap', frames')
           /\ \/ phase' = "idle" /\ frames' = <<>> /\ ret' \in Outcomes
              \/ /\ UNCHANGED <<phase, ret>>
                 /\ frames' # <<>> /\ Len(frames') = Len(fs)
<1> DEFINE r    == AddTo(h, Last(fs).at, x, action)
           f    == NewFrame(Last(fs).at, Last(fs).mode)
           rest == Append(Front(fs), f)
<1>1. \/ /\ r.out \in AddErrors
         /\ heap' = Settled(r.heap, {}) /\ frames' = <<>>
         /\ phase' = "idle" /\ ret' = r.out
      \/ /\ r.out \notin AddErrors
         /\ heap' = Settled(r.heap, Locals(fs)) /\ frames' = rest
         /\ UNCHANGED <<phase, ret>>
  BY DEF Deliver, Finish
<1>2. r = AddTo(h, Last(fs).at, x, action)
  OBVIOUS
<1> HIDE DEF r
<1>3. Good(r.heap) /\ Stacked(r.heap, fs)
  BY <1>2, AddKeeps
<1>4. CASE r.out \in AddErrors
  <2>1. /\ heap' = Settled(r.heap, {}) /\ frames' = <<>>
        /\ phase' = "idle" /\ ret' = r.out
    BY <1>1, <1>4
  <2>2. Good(heap') /\ Stacked(heap', frames')
    BY <1>3, <2>1, SettledRoot, StackedEmpty
  <2>3. ret' \in Outcomes
    BY <1>4, <2>1 DEF Outcomes
  <2>4. QED
    BY <2>1, <2>2, <2>3
<1>5. CASE r.out \notin AddErrors
  <2>1. /\ heap' = Settled(r.heap, Locals(fs)) /\ frames' = rest
        /\ UNCHANGED <<phase, ret>>
    BY <1>1, <1>5
  <2>2. Good(heap') /\ Stacked(heap', fs)
    BY <1>3, <2>1, SettledGood
  <2>3. Last(fs) \in Frame
    BY Innermost
  <2>4. f \in Frame /\ f.at = Last(fs).at /\ f.mode = Last(fs).mode
    BY <2>3 DEF NewFrame, Frame, AnyName
  <2>5. rest = Append(Front(fs), f)
    OBVIOUS
  <2> HIDE DEF f, rest
  <2>6. Stacked(heap', rest) /\ Len(rest) = Len(fs) /\ rest # <<>>
    BY <2>2, <2>4, <2>5, StackedAgain
  <2>7. QED
    BY <2>1, <2>2, <2>6
<1>6. QED
  BY <1>4, <1>5

LEMMA ReadItemSound ==
    ASSUME ReadSound, NEW token \in Token, NEW x \in Ids, ReadItem(token, x)
    PROVE  ReadSound'
<1> DEFINE kind == token.type
           name == Top.name
           val  == token.text
           g    == [heap EXCEPT ![x] = NewItem(kind, name, val)]
<1>1. /\ Consume(token) /\ kind \in {"Value", "Comment"} /\ heap[x] = Null
      /\ Deliver(g, x, frames) /\ UNCHANGED <<next, level>>
  BY DEF ReadItem, AddItem, Free
<1>2. /\ frames # <<>> /\ level = Len(frames) - 1 /\ phase = "parse"
      /\ Good(heap) /\ Stacked(heap, frames) /\ action \in Policies
  BY <1>1, ConsumeSound
<1>3. /\ kind \in Kinds /\ name \in AnyName /\ val \in Vals \cup {NoVal}
  <2>1. Top \in Frame
    BY <1>2, Innermost DEF Top
  <2>2. QED
    BY <1>1, <2>1 DEF Token, Frame, Kinds, Openers, Closers
<1>4. Puts(heap, x, NewItem(kind, name, val), g)
  BY DEF Puts
<1> HIDE DEF g, kind, name, val
<1>5. /\ Good(g) /\ Stacked(g, frames) /\ g[x] # Null
      /\ \A k \in 1..Len(frames) : frames[k].at # x
  BY <1>1, <1>2, <1>3, <1>4, FreshKeeps
<1>6. /\ Good(heap') /\ Stacked(heap', frames')
      /\ \/ phase' = "idle" /\ frames' = <<>> /\ ret' \in Outcomes
         \/ /\ UNCHANGED <<phase, ret>>
            /\ frames' # <<>> /\ Len(frames') = Len(frames)
  BY <1>1, <1>2, <1>5, DeliverSound
<1>7. ret \in Outcomes /\ next \in Nat \ {0} /\ "idle" \in Phases \ {"parse"}
  BY DEF ReadSound, Control, Phases
<1>8. ret' \in Outcomes /\ next' \in Nat \ {0}
  BY <1>1, <1>6, <1>7
<1>9. \/ phase' = "parse" /\ frames' # <<>> /\ level' = Len(frames') - 1
      \/ phase' \in Phases \ {"parse"} /\ frames' = <<>>
  BY <1>1, <1>2, <1>6, <1>7
<1>10. QED
  BY <1>1, <1>6, <1>8, <1>9, ParseSound

LEMMA OpenContainerSound ==
    ASSUME ReadSound, NEW token \in Token, NEW x \in Ids, OpenContainer(token, x)
    PROVE  ReadSound'
<1>1. PICK list \in {token.type = "LBracket"} :
         /\ heap' = [heap EXCEPT ![x] =
                       NewItem(IF list THEN "List" ELSE "Group", NoName, NoVal)]
         /\ frames' = Append(frames, NewFrame(x, IF list THEN "Unnamed" ELSE "Named"))
  BY DEF OpenContainer
<1> DEFINE kind == IF list THEN "List" ELSE "Group"
           mode == IF list THEN "Unnamed" ELSE "Named"
           f    == NewFrame(x, mode)
           g    == [heap EXCEPT ![x] = NewItem(kind, NoName, NoVal)]
<1>2. /\ heap' = g /\ frames' = Append(frames, f) /\ heap[x] = Null
      /\ level' = level + 1 /\ UNCHANGED <<phase, next, ret>> /\ Consume(token)
  BY <1>1 DEF OpenContainer, Free
<1>3. /\ frames # <<>> /\ level = Len(frames) - 1 /\ phase = "parse"
      /\ Good(heap) /\ Stacked(heap, frames)
      /\ ret \in Outcomes /\ next \in Nat \ {0}
  BY <1>2, ConsumeSound DEF ReadSound, Control
<1>4. /\ kind \in Kinds /\ NoName \in AnyName /\ NoVal \in Vals \cup {NoVal}
      /\ mode \in {"Named", "Unnamed"}
      /\ kind = IF mode = "Named" THEN "Group" ELSE "List"
  BY DEF Kinds, ContainerKinds, AnyName
<1>5. Puts(heap, x, NewItem(kind, NoName, NoVal), g)
  BY DEF Puts
<1>6. f \in Frame /\ f.at = x /\ f.mode = mode
  BY <1>4 DEF NewFrame, Frame, Addresses, AnyName
<1> HIDE DEF g, kind, mode, f
<1>7. /\ Good(g) /\ Stacked(g, frames) /\ g[x] # Null /\ g[x].kind = kind
      /\ Holding(g, x) = {} /\ \A k \in 1..Len(frames) : frames[k].at # x
  BY <1>2, <1>3, <1>4, <1>5, FreshKeeps
<1>8. /\ Stacked(g, frames') /\ frames' # <<>> /\ Len(frames') = Len(frames) + 1
  BY <1>2, <1>3, <1>4, <1>6, <1>7, StackedMore
<1>9. Len(frames) \in Nat
  BY <1>3, Innermost
<1>10. level' = Len(frames') - 1
  BY <1>2, <1>3, <1>8, <1>9
<1>11. QED
  BY <1>2, <1>3, <1>7, <1>8, <1>10, ParseSound

LEMMA CloseContainerSound ==
    ASSUME ReadSound, NEW token \in Token, CloseContainer(token)
    PROVE  ReadSound'
<1>1. CASE Consume(token) /\ Fail
  BY <1>1, FailSound
<1>2. ASSUME Consume(token), level > 0, level' = level - 1, UNCHANGED next,
             Deliver([heap EXCEPT ![Top.at].name = Last(Front(frames)).name],
                     Top.at, Front(frames))
      PROVE  ReadSound'
  <2> DEFINE n    == Len(frames)
             fs   == Front(frames)
             x    == Top.at
             name == Last(Front(frames)).name
             g    == [heap EXCEPT ![x].name = name]
  <2>1. /\ frames # <<>> /\ level = n - 1 /\ phase = "parse"
        /\ Good(heap) /\ Stacked(heap, frames) /\ action \in Policies
        /\ ret \in Outcomes /\ next \in Nat \ {0}
    BY <1>2, ConsumeSound DEF ReadSound, Control
  <2>2. /\ n \in Nat /\ n \in 1..n /\ Top = frames[n]
        /\ fs \in Seq(Frame) /\ Len(fs) = n - 1
        /\ \A k \in 1..(n - 1) : fs[k] = frames[k]
    BY <2>1, Innermost DEF Top
  <2>3. n > 1 /\ n # 1 /\ \A k \in 1..(n - 1) : k \in 1..n /\ k # n
    BY <1>2, <2>1, <2>2
  <2>4. Stacked(heap, fs)
    BY <2>1, StackedFront
  <2>5. fs # <<>>
    <3>1. Len(fs) # 0
      BY <2>2, <2>3
    <3>2. QED
      BY <3>1
  <2>6. x \in Ids /\ heap[x] # Null /\ Holding(heap, x) = {}
    BY <2>1, <2>2, <2>3 DEF Stacked
  <2>7. \A k \in 1..Len(fs) : fs[k].at # x
    BY <2>1, <2>2, <2>3, SMTT(30) DEF Stacked
  <2>8. name \in AnyName
    <3>1. Last(fs) \in Frame
      BY <2>4, <2>5, Innermost
    <3>2. QED
      BY <3>1 DEF Frame
  <2>9. PutsName(heap, x, name, g) /\ Deliver(g, x, fs)
    BY <1>2 DEF PutsName
  <2> HIDE DEF n, fs, x, name, g
  <2>10. Good(g) /\ Stacked(g, fs) /\ g[x] # Null
    BY <2>1, <2>4, <2>6, <2>8, <2>9, NameKeeps
  <2>11. /\ Good(heap') /\ Stacked(heap', frames')
         /\ \/ phase' = "idle" /\ frames' = <<>> /\ ret' \in Outcomes
            \/ /\ UNCHANGED <<phase, ret>>
               /\ frames' # <<>> /\ Len(frames') = Len(fs)
    BY <2>1, <2>5, <2>6, <2>7, <2>9, <2>10, DeliverSound
  <2>12. level' = Len(fs) - 1
    BY <1>2, <2>1, <2>2
  <2>13. "idle" \in Phases \ {"parse"}
    BY DEF Phases
  <2>14. /\ ret' \in Outcomes /\ next' \in Nat \ {0}
         /\ \/ phase' = "parse" /\ frames' # <<>> /\ level' = Len(frames') - 1
            \/ phase' \in Phases \ {"parse"} /\ frames' = <<>>
    BY <1>2, <2>1, <2>11, <2>12, <2>13
  <2>15. QED
    BY <1>2, <2>11, <2>14, ParseSound
<1>3. QED
  BY <1>1, <1>2 DEF CloseContainer

LEMMA EndDocumentSound ==
    ASSUME ReadSound, NEW token \in Token, EndDocument(token)
    PROVE  ReadSound'
<1>1. CASE Consume(token) /\ Fail
  BY <1>1, FailSound
<1>2. ASSUME Consume(token), phase' = "after", next' = 1, frames' = <<>>,
             UNCHANGED <<heap, level, ret>>
      PROVE  ReadSound'
  <2>1. Good(heap) /\ ret \in Outcomes
    BY DEF ReadSound, Control
  <2>2. Good(heap') /\ Stacked(heap', frames')
    BY <1>2, <2>1, StackedEmpty
  <2>3. "after" \in Phases \ {"parse"} /\ 1 \in Nat \ {0}
    BY DEF Phases
  <2>4. QED
    BY <1>2, <2>1, <2>2, <2>3, ParseSound
<1>3. QED
  BY <1>1, <1>2 DEF EndDocument

LEMMA ReadTokenSound ==
    ASSUME ReadSound, ReadToken
    PROVE  ReadSound'
<1>1. PICK token \in Token :
         \/ Unexpected(token) \/ ReadName(token) \/ ReadEqual(token)
         \/ \E x \in Ids : ReadItem(token, x) \/ OpenContainer(token, x)
         \/ CloseContainer(token) \/ EndDocument(token)
  BY DEF ReadToken
<1>2. CASE Unexpected(token)
  BY <1>2, FailSound DEF Unexpected
<1>3. CASE ReadName(token)
  <2>1. /\ Consume(token) /\ Await("equal", token.text)
        /\ token.text \in AnyName /\ "equal" \in {"item", "equal", "value"}
    BY <1>3 DEF ReadName, Token, AnyName, Openers, Closers
  <2>2. QED
    BY <2>1, AwaitSound
<1>4. CASE ReadEqual(token)
  <2>1. /\ Consume(token) /\ Await("value", Top.name)
        /\ "value" \in {"item", "equal", "value"}
    BY <1>4 DEF ReadEqual
  <2>2. Top \in Frame
    BY <2>1, ConsumeSound, Innermost DEF Top
  <2>3. Top.name \in AnyName
    BY <2>2 DEF Frame
  <2>4. QED
    BY <2>1, <2>3, AwaitSound
<1>5. ASSUME NEW x \in Ids, ReadItem(token, x) \/ OpenContainer(token, x)
      PROVE  ReadSound'
  BY <1>5, ReadItemSound, OpenContainerSound
<1>6. CASE CloseContainer(token) \/ EndDocument(token)
  BY <1>6, CloseContainerSound, EndDocumentSound
<1>7. QED
  BY <1>1, <1>2, <1>3, <1>4, <1>5, <1>6

-----------------------------------------------------------------------------
(* The theorems *)

LEMMA ReadSoundInit == Init => ReadSound
<1> SUFFICES ASSUME Init
             PROVE  ReadSound
  OBVIOUS
<1> DEFINE root == NewItem("Group", NoName, NoVal)
           none == <<>>
<1>1. /\ root \in Item /\ root.kind = "Group" /\ root.kids = none
      /\ root.policy \in Policies
  BY EmptySeq DEF NewItem, Item, Kinds, ContainerKinds, AnyName, AnyPolicy, Policies
<1>2. Len(none) = 0 /\ \A kind : Tidy(heap, kind, none)
  BY TidyEmpty, EmptySeq
<1>3. heap = [x \in Addresses |-> IF x \in Configs THEN root ELSE Null]
  BY DEF Init
<1>4. none = <<>> /\ ToSet(none) = {}
  BY DEF ToSet
<1> HIDE DEF root, none
<1>5. WellTyped(heap)
  BY <1>1, <1>3, <1>4, NullAssumption DEF WellTyped, Addresses
<1>6. Closed(heap)
  BY <1>1, <1>3, <1>4 DEF Closed, Kids
<1>7. Neat(heap, {})
  BY <1>1, <1>2, <1>3 DEF Neat
<1>8. Stacked(heap, frames)
  BY StackedEmpty DEF Init
<1>9. Control
  BY EmptySeq DEF Control, Init, Policies, Phases, Outcomes
<1>10. heap[Root].policy \in Policies
  BY <1>1, <1>3, ReadAssumption DEF Addresses
<1>11. QED
  BY <1>5, <1>6, <1>7, <1>8, <1>9, <1>10 DEF ReadSound, Good

LEMMA ReadSoundStep == ReadSound /\ [Next]_vars => ReadSound'
<1> SUFFICES ASSUME ReadSound, [Next]_vars
             PROVE  ReadSound'
  OBVIOUS
<1>1. CASE Client
  BY <1>1, ClientSound
<1>2. CASE StartRead
  BY <1>2, StartReadSound
<1>3. CASE Hooks
  BY <1>3, CallHookSound, FinishSound DEF Hooks
<1>4. CASE StartParse
  BY <1>4, StartParseSound
<1>5. CASE ReadToken
  BY <1>5, ReadTokenSound
<1>6. CASE EndRead
  BY <1>6, FinishSound
<1>7. CASE UNCHANGED vars
  BY <1>7 DEF vars, client, history, ReadSound, Control
<1>8. QED
  BY <1>1, <1>2, <1>3, <1>4, <1>5, <1>6, <1>7 DEF Next, ReadStep

\* The inductive invariant.
THEOREM ReadSoundness == Spec => []ReadSound
BY ReadSoundInit, ReadSoundStep, PTL DEF Spec

\* Every variable has its type; the parser has an activation per open container
\* as m_container_level counts them, each filling a container of its own that is
\* alive and of the kind its mode is for (Parser::Parse).
THEOREM ReadTypeCorrect == Spec => []TypeOK
<1>1. ReadSound => TypeOK
  <2> SUFFICES ASSUME ReadSound
               PROVE  TypeOK
    OBVIOUS
  <2>1. frames \in Seq(Frame) /\ DOMAIN frames = 1..Len(frames)
    BY LenProperties DEF ReadSound, Stacked
  <2>2. /\ \A j, k \in DOMAIN frames : frames[j].at = frames[k].at => j = k
        /\ \A k \in DOMAIN frames :
              /\ heap[frames[k].at] # Null
              /\ heap[frames[k].at].kind =
                    IF frames[k].mode = "Named" THEN "Group" ELSE "List"
    BY <2>1 DEF ReadSound, Stacked
  <2>3. frames # <<>> => frames[1].at = Root
    <3>1. frames # <<>> => 1 \in 1..Len(frames)
      BY <2>1, LenProperties, EmptySeq
    <3>2. QED
      BY <3>1 DEF ReadSound, Stacked
  <2>4. \A x \in Addresses : Kids(heap, x) \cap Free = {}
    BY DEF ReadSound, Good, Closed, Free, Addresses
  <2>5. heap \in [Addresses -> Item \cup {Null}]
    BY DEF ReadSound, Good, WellTyped
  <2>6. QED
    BY <2>1, <2>2, <2>3, <2>4, <2>5 DEF ReadSound, Control, TypeOK
<1>2. QED
  BY <1>1, ReadSoundness, PTL

\* Whatever the document, the hooks and the policies are, no read puts two items
\* of one name into a group, a value twice into a list, or a badly named item
\* into either, in the containers still being read too (Container::Add as the
\* parser and the hooks call it).
THEOREM ReadsStayUnique == Spec => []ReadsKeepUnique
<1>1. ASSUME ReadSound, NEW x \in Addresses, heap[x] # Null
      PROVE  UniqueNamesIn(heap, x) /\ DistinctValuesIn(heap, x)
  BY <1>1, TidyMeans DEF ReadSound, Good, Neat
<1>2. ReadSound => ReadsKeepUnique
  BY <1>1 DEF ReadsKeepUnique
<1>3. QED
  BY <1>2, ReadSoundness, PTL
=============================================================================
