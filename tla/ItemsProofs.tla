----------------------------- MODULE ItemsProofs -----------------------------
(***************************************************************************)
(* Lemmas about the operators of Items: what each way to build a heap       *)
(* preserves.  No variables: the modules that have some cite them.          *)
(***************************************************************************)
EXTENDS Items, TLAPS, SequenceTheorems, WellFoundedInduction, NaturalsInduction

\* std::vector::erase: the items before the position stay, the others move up.
LEMMA RemoveAtIsErase ==
    ASSUME NEW S, NEW s \in Seq(S), NEW i \in 1..Len(s)
    PROVE  /\ RemoveAt(s, i) \in Seq(S)
           /\ Len(RemoveAt(s, i)) = Len(s) - 1
           /\ \A k \in 1..(Len(s) - 1) :
                 RemoveAt(s, i)[k] = IF k < i THEN s[k] ELSE s[k + 1]
<1> DEFINE left  == SubSeq(s, 1, i - 1)
           right == SubSeq(s, i + 1, Len(s))
<1>0. /\ Len(s) \in Nat /\ i \in Nat
      /\ \A k \in 1..Len(s) : s[k] \in S
  BY LenProperties, ElementOfSeq
<1>1. /\ left \in Seq(S) /\ Len(left) = i - 1
      /\ \A k \in 1..(i - 1) : left[k] = s[k]
  <2>1. i - 1 \in Int /\ \A k \in 1..(i - 1) : s[k] \in S
    BY <1>0
  <2>2. /\ left \in Seq(S)
        /\ Len(left) = IF 1 <= i - 1 THEN i - 1 - 1 + 1 ELSE 0
        /\ \A k \in 1..(i - 1 - 1 + 1) : left[k] = s[1 + k - 1]
    BY <2>1, SubSeqProperties
  <2>3. QED
    BY <1>0, <2>2
<1>2. /\ right \in Seq(S) /\ Len(right) = Len(s) - i
      /\ \A k \in 1..(Len(s) - i) : right[k] = s[i + k]
  <2>1. i + 1 \in Int /\ Len(s) \in Int /\ \A k \in (i + 1)..Len(s) : s[k] \in S
    BY <1>0
  <2>2. /\ right \in Seq(S)
        /\ Len(right) = IF i + 1 <= Len(s) THEN Len(s) - (i + 1) + 1 ELSE 0
        /\ \A k \in 1..(Len(s) - (i + 1) + 1) : right[k] = s[i + 1 + k - 1]
    BY <2>1, SubSeqProperties
  <2>3. QED
    BY <1>0, <2>2
<1>3. /\ left \o right \in Seq(S)
      /\ Len(left \o right) = Len(left) + Len(right)
      /\ \A k \in 1..(Len(left) + Len(right)) :
            (left \o right)[k] = IF k <= Len(left) THEN left[k] ELSE right[k - Len(left)]
  BY <1>1, <1>2, ConcatProperties
<1>4. RemoveAt(s, i) = left \o right
  BY DEF RemoveAt
<1> HIDE DEF left, right
<1>5. Len(RemoveAt(s, i)) = Len(s) - 1
  <2>1. Len(RemoveAt(s, i)) = Len(left) + Len(right)
    BY <1>3, <1>4
  <2>2. QED
    BY <1>0, <1>1, <1>2, <2>1
<1>6. ASSUME NEW k \in 1..(Len(s) - 1)
      PROVE  RemoveAt(s, i)[k] = IF k < i THEN s[k] ELSE s[k + 1]
  BY <1>0, <1>1, <1>2, <1>3, <1>4
<1>7. QED
  BY <1>3, <1>4, <1>5, <1>6

\* Appending keeps the items and their positions.
LEMMA AppendKeeps ==
    ASSUME NEW S, NEW s \in Seq(S), NEW e \in S
    PROVE  /\ Append(s, e) \in Seq(S)
           /\ Len(Append(s, e)) = Len(s) + 1
           /\ Append(s, e)[Len(s) + 1] = e
           /\ \A k \in 1..Len(s) : Append(s, e)[k] = s[k]
OBVIOUS

\* The last element of a sequence, and the rest.
LEMMA FrontAndLast ==
    ASSUME NEW S, NEW s \in Seq(S), s # <<>>
    PROVE  /\ Len(s) \in Nat /\ Len(s) \in 1..Len(s)
           /\ Last(s) = s[Len(s)] /\ Last(s) \in S
           /\ Front(s) \in Seq(S) /\ Len(Front(s)) = Len(s) - 1
           /\ \A k \in 1..(Len(s) - 1) : Front(s)[k] = s[k]
<1>1. Len(s) \in Nat /\ Len(s) # 0
  BY LenProperties, EmptySeq
<1>2. Len(s) \in 1..Len(s) /\ Last(s) = s[Len(s)]
  BY <1>1 DEF Last
<1>3. Last(s) \in S
  BY <1>2, ElementOfSeq
<1> DEFINE m == Len(s) - 1
<1>4. m \in Nat /\ m \in Int /\ 1 \in Int /\ \A i \in 1..m : s[i] \in S
  BY <1>1, ElementOfSeq
<1>5. Front(s) = SubSeq(s, 1, m)
  BY DEF Front
<1> HIDE DEF m
<1>6. /\ SubSeq(s, 1, m) \in Seq(S)
      /\ Len(SubSeq(s, 1, m)) = IF 1 <= m THEN m - 1 + 1 ELSE 0
      /\ \A i \in 1..(m - 1 + 1) : SubSeq(s, 1, m)[i] = s[1 + i - 1]
  BY <1>4, SubSeqProperties
<1>7. /\ \A i \in 1..m : 1 + i - 1 = i /\ i \in 1..(m - 1 + 1)
      /\ (IF 1 <= m THEN m - 1 + 1 ELSE 0) = m
  BY <1>4
<1>8. /\ Front(s) \in Seq(S) /\ Len(Front(s)) = m
      /\ \A k \in 1..m : Front(s)[k] = s[k]
  BY <1>5, <1>6, <1>7
<1>9. QED
  BY <1>1, <1>2, <1>3, <1>8 DEF m

\* A non-empty set of natural numbers has a least element.
LEMMA LeastElement ==
    ASSUME NEW T \in SUBSET Nat, T # {}
    PROVE  \E m \in T : \A n \in T : m <= n
<1> DEFINE less == OpToRel(<, Nat)
<1>0. \A a, b \in Nat : a < b => <<a, b>> \in less
  BY DEF OpToRel
<1>a. IsWellFoundedOn(less, Nat)
  BY NatLessThanWellFounded
<1> HIDE DEF less
<1>1. PICK m \in T : \A n \in T : ~(<<n, m>> \in less)
  BY <1>a, WFMin
<1>2. ASSUME NEW n \in T
      PROVE  m <= n
  <2>1. n \in Nat /\ m \in Nat
    OBVIOUS
  <2>2. n < m => <<n, m>> \in less
    BY <1>0, <2>1
  <2>3. ~(<<n, m>> \in less)
    BY <1>1
  <2>4. ~(n < m)
    BY <2>2, <2>3
  <2>5. QED
    BY <2>1, <2>4
<1>3. QED
  BY <1>2

\* The position of the first collision, if there is one.
LEMMA FirstClashFound ==
    ASSUME NEW h, NEW t, NEW x, NEW S, h[t].kids \in Seq(S)
    PROVE  /\ FirstClash(h, t, x) \in 0..Len(h[t].kids)
           /\ FirstClash(h, t, x) = 0
                 => \A k \in 1..Len(h[t].kids) : ~Clashes(h, t, x, h[t].kids[k])
           /\ FirstClash(h, t, x) # 0
                 => Clashes(h, t, x, h[t].kids[FirstClash(h, t, x)])
<1> DEFINE I == {k \in 1..Len(h[t].kids) : Clashes(h, t, x, h[t].kids[k])}
<1>1. FirstClash(h, t, x) = IF I # {} THEN CHOOSE m \in I : \A n \in I : m <= n ELSE 0
  BY DEF FirstClash, SelectInSeq, Min
<1>0. Len(h[t].kids) \in Nat
  BY LenProperties
<1>2. CASE I = {}
  <2>1. \A k \in 1..Len(h[t].kids) : ~Clashes(h, t, x, h[t].kids[k])
    BY <1>2
  <2>2. FirstClash(h, t, x) = 0
    BY <1>1, <1>2
  <2>3. QED
    BY <1>0, <2>1, <2>2
<1>3. CASE I # {}
  <2>1. \E m \in I : \A n \in I : m <= n
    <3>1. I \in SUBSET Nat
      OBVIOUS
    <3>2. QED
      BY <1>3, <3>1, LeastElement
  <2>2. FirstClash(h, t, x) \in I
    BY <1>1, <1>3, <2>1
  <2>3. QED
    BY <1>0, <2>2
<1>4. QED
  BY <1>2, <1>3
-----------------------------------------------------------------------------
(* Heaps: what every call may rely on and has to give back *)

WellTyped(h) ==
    /\ h \in [Addresses -> Item \cup {Null}]
    /\ \A c \in Configs : h[c] # Null /\ h[c].kind = "Group"
    /\ \A x \in Addresses : h[x] # Null /\ h[x].kids # <<>> => h[x].kind \in ContainerKinds

Closed(h) == \A x, y \in Addresses : y \in Kids(h, x) => h[y] # Null

\* What an item that is allocated is made of.
LEMMA ItemFields ==
    ASSUME NEW h, WellTyped(h), NEW x \in Addresses, h[x] # Null
    PROVE  /\ h[x] \in Item
           /\ h[x].kind \in Kinds /\ h[x].name \in AnyName
           /\ h[x].kids \in Seq(Ids) /\ h[x].policy \in AnyPolicy
           /\ Kids(h, x) \subseteq Ids
           /\ Kids(h, x) = {h[x].kids[k] : k \in 1..Len(h[x].kids)}
<1>1. h[x] \in Item
  BY DEF WellTyped
<1>2. /\ h[x].kind \in Kinds /\ h[x].name \in AnyName
      /\ h[x].kids \in Seq(Ids) /\ h[x].policy \in AnyPolicy
  BY <1>1 DEF Item
<1>3. /\ DOMAIN h[x].kids = 1..Len(h[x].kids)
      /\ \A k \in 1..Len(h[x].kids) : h[x].kids[k] \in Ids
  BY <1>2, LenProperties, ElementOfSeq
<1>4. Kids(h, x) = {h[x].kids[k] : k \in DOMAIN h[x].kids}
  BY DEF Kids, ToSet
<1>5. QED
  BY <1>1, <1>2, <1>3, <1>4

\* Reach(h, R) contains R and is closed under m_items.
LEMMA ReachClosed ==
    ASSUME NEW h, WellTyped(h), NEW R \in SUBSET Ids
    PROVE  /\ R \subseteq Reach(h, R)
           /\ Reach(h, R) \subseteq Ids
           /\ \A x \in Reach(h, R) : Kids(h, x) \subseteq Reach(h, R)
<1>1. \A x \in Ids : Kids(h, x) \subseteq Ids
  BY ItemFields DEF Kids, Addresses
<1>2. R \subseteq Reach(h, R) /\ Reach(h, R) \subseteq Ids
  BY DEF Reach
<1>3. ASSUME NEW x \in Reach(h, R), NEW y \in Kids(h, x)
      PROVE  y \in Reach(h, R)
  <2>1. x \in Ids /\ y \in Ids
    BY <1>1, <1>2, <1>3
  <2>2. ASSUME NEW S \in SUBSET Ids, R \subseteq S, \A z \in S : Kids(h, z) \subseteq S
        PROVE  y \in S
    <3>1. x \in S
      BY <2>2, <1>3 DEF Reach
    <3>2. QED
      BY <3>1, <2>2, <1>3
  <2>3. QED
    BY <2>1, <2>2 DEF Reach
<1>4. QED
  BY <1>2, <1>3

\* Destroying what is no longer referenced leaves every item that is still
\* there as it was, together with all it refers to.
LEMMA SettledKeeps ==
    ASSUME NEW h, WellTyped(h), Closed(h),
           NEW held \in SUBSET Ids, \A p \in held : h[p] # Null
    PROVE  /\ WellTyped(Settled(h, held)) /\ Closed(Settled(h, held))
           /\ \A p \in held : Settled(h, held)[p] # Null
           /\ \A c \in Configs : Settled(h, held)[c] = h[c]
           /\ \A x \in Addresses : Settled(h, held)[x] # Null =>
                 /\ Settled(h, held)[x] = h[x]
                 /\ \A y \in Kids(h, x) : Settled(h, held)[y] = h[y]
<1> DEFINE R    == (UNION {Kids(h, c) : c \in Configs}) \cup held
           live == Reach(h, R)
           g    == Settled(h, held)
<1>1. R \in SUBSET Ids
  BY ItemFields DEF Addresses, WellTyped
<1>2. g = [x \in Addresses |-> IF x \in Configs \cup live THEN h[x] ELSE Null]
  BY DEF Settled
<1> HIDE DEF R
<1>3. /\ R \subseteq live /\ live \subseteq Ids
      /\ \A x \in live : Kids(h, x) \subseteq live
  BY <1>1, ReachClosed
<1> HIDE DEF live, g
<1>4. \A x \in Addresses : g[x] = IF x \in Configs \cup live THEN h[x] ELSE Null
  BY <1>2
<1>5. \A x \in Configs \cup live : Kids(h, x) \subseteq live
  BY <1>3 DEF R
<1>6. \A c \in Configs : g[c] = h[c]
  BY <1>4 DEF Addresses
<1>7. ASSUME NEW x \in Addresses, g[x] # Null
      PROVE  g[x] = h[x] /\ \A y \in Kids(h, x) : g[y] = h[y]
  <2>1. x \in Configs \cup live
    BY <1>4, <1>7
  <2>2. Kids(h, x) \subseteq live /\ live \subseteq Addresses
    BY <1>3, <1>5, <2>1 DEF Addresses
  <2>3. QED
    BY <1>4, <2>1, <2>2
<1>8. \A p \in held : g[p] # Null
  BY <1>3, <1>4 DEF R, Addresses
<1>9. WellTyped(g)
  <2>1. g \in [Addresses -> Item \cup {Null}]
    BY <1>2 DEF WellTyped
  <2>2. QED
    BY <1>6, <1>7, <2>1 DEF WellTyped
<1>10. Closed(g)
  <2>1. SUFFICES ASSUME NEW x \in Addresses, NEW y \in Addresses, y \in Kids(g, x)
                 PROVE  g[y] # Null
    BY DEF Closed
  <2>2. g[x] # Null
    BY <2>1 DEF Kids
  <2>3. Kids(g, x) = Kids(h, x)
    BY <1>7, <2>2 DEF Kids
  <2>4. g[y] = h[y]
    BY <1>7, <2>1, <2>2, <2>3
  <2>5. QED
    BY <2>1, <2>3, <2>4 DEF Closed
<1>11. QED
  BY <1>6, <1>7, <1>8, <1>9, <1>10 DEF g, live, R

\* g is h with one item written, or with the items of one container written.
Puts(h, x, item, g)    == g = [h EXCEPT ![x] = item]
PutsKids(h, t, kids, g) == g = [h EXCEPT ![t].kids = kids]

\* Writing one item keeps a heap sound if what the item refers to is there.
LEMMA PutItem ==
    ASSUME NEW h, WellTyped(h), Closed(h), NEW x \in Addresses, NEW item \in Item,
           x \in Configs => item.kind = "Group",
           item.kids # <<>> => item.kind \in ContainerKinds,
           \A k \in 1..Len(item.kids) : h[item.kids[k]] # Null,
           NEW g, Puts(h, x, item, g)
    PROVE  /\ WellTyped(g) /\ Closed(g)
           /\ g[x] = item /\ g[x] # Null
           /\ \A y \in Addresses \ {x} : g[y] = h[y]
<1>1. /\ g \in [Addresses -> Item \cup {Null}]
      /\ g[x] = item
      /\ \A y \in Addresses \ {x} : g[y] = h[y]
  BY DEF WellTyped, Puts
<1>2. item # Null
  BY NullAssumption
<1>3. WellTyped(g)
  <2>1. \A c \in Configs : g[c] # Null /\ g[c].kind = "Group"
    BY <1>1, <1>2 DEF WellTyped, Addresses
  <2>2. ASSUME NEW y \in Addresses, g[y] # Null, g[y].kids # <<>>
        PROVE  g[y].kind \in ContainerKinds
    <3>1. CASE y = x
      BY <1>1, <2>2, <3>1
    <3>2. CASE y # x
      BY <1>1, <2>2, <3>2 DEF WellTyped
    <3>3. QED
      BY <3>1, <3>2
  <2>3. QED
    BY <1>1, <2>1, <2>2 DEF WellTyped
<1>4. Closed(g)
  <2>1. SUFFICES ASSUME NEW z \in Addresses, NEW y \in Addresses, y \in Kids(g, z)
                 PROVE  g[y] # Null
    BY DEF Closed
  <2>2. CASE y = x
    BY <1>1, <1>2, <2>2
  <2>3. CASE y # x /\ z # x
    <3>1. Kids(g, z) = Kids(h, z)
      BY <1>1, <2>3 DEF Kids
    <3>2. QED
      BY <1>1, <2>1, <2>3, <3>1 DEF Closed
  <2>4. CASE y # x /\ z = x
    <3>1. PICK k \in 1..Len(item.kids) : y = item.kids[k]
      BY <1>1, <1>2, <1>3, <2>1, <2>4, ItemFields
    <3>2. QED
      BY <1>1, <2>1, <2>4, <3>1
  <2>5. QED
    BY <2>2, <2>3, <2>4
<1>5. QED
  BY <1>1, <1>2, <1>3, <1>4

\* The same for the items of one container.
LEMMA PutKids ==
    ASSUME NEW h, WellTyped(h), Closed(h), NEW t \in Addresses, IsContainer(h, t),
           NEW kids \in Seq(Ids), \A k \in 1..Len(kids) : h[kids[k]] # Null,
           NEW g, PutsKids(h, t, kids, g)
    PROVE  /\ WellTyped(g) /\ Closed(g) /\ g[t] # Null
           /\ g[t].kind = h[t].kind /\ g[t].kids = kids
           /\ g[t].name = h[t].name /\ g[t].val = h[t].val
           /\ \A y \in Addresses \ {t} : g[y] = h[y]
<1> DEFINE item == [h[t] EXCEPT !.kids = kids]
<1>1. h[t] # Null /\ h[t].kind \in ContainerKinds
  BY DEF IsContainer
<1>2. h[t] \in Item
  BY <1>1, ItemFields
<1>3. /\ item \in Item /\ item.kids = kids /\ item.kind = h[t].kind
      /\ item.name = h[t].name /\ item.val = h[t].val
  BY <1>2 DEF Item
<1>4. Puts(h, t, item, g)
  BY DEF Puts, PutsKids
<1>5. t \in Configs => item.kind = "Group"
  BY <1>3 DEF WellTyped
<1> HIDE DEF item
<1>6. /\ WellTyped(g) /\ Closed(g) /\ g[t] = item /\ g[t] # Null
      /\ \A y \in Addresses \ {t} : g[y] = h[y]
  BY <1>1, <1>3, <1>4, <1>5, PutItem
<1>7. QED
  BY <1>3, <1>6 DEF item

-----------------------------------------------------------------------------
(* Container::Add *)

\* Taking over the policy of the call changes nothing but the policy.
LEMMA OfferedKeeps ==
    ASSUME NEW h, WellTyped(h), Closed(h), NEW x \in Addresses, h[x] # Null,
           NEW p \in AnyPolicy
    PROVE  /\ WellTyped(Offered(h, x, p)) /\ Closed(Offered(h, x, p))
           /\ \A y \in Addresses \ {x} : Offered(h, x, p)[y] = h[y]
           /\ Offered(h, x, p)[x] # Null
           /\ Offered(h, x, p)[x].kind = h[x].kind /\ Offered(h, x, p)[x].name = h[x].name
           /\ Offered(h, x, p)[x].val = h[x].val /\ Offered(h, x, p)[x].kids = h[x].kids
<1> DEFINE item == [h[x] EXCEPT !.policy = p]
<1>1. h[x] \in Item
  BY ItemFields
<1>2. /\ item \in Item /\ item.kind = h[x].kind /\ item.name = h[x].name
      /\ item.val = h[x].val /\ item.kids = h[x].kids
  BY <1>1 DEF Item
<1> DEFINE g == Offered(h, x, p)
<1>4. CASE h[x].kind \in ContainerKinds
  <2>1. Puts(h, x, item, g)
    BY <1>4 DEF Offered, Puts
  <2>2. x \in Configs => item.kind = "Group"
    BY <1>2 DEF WellTyped
  <2>3. \A k \in 1..Len(item.kids) : h[item.kids[k]] # Null
    <3>1. \A k \in 1..Len(h[x].kids) : h[x].kids[k] \in Kids(h, x) /\ h[x].kids[k] \in Ids
      BY ItemFields
    <3>2. QED
      BY <1>2, <3>1 DEF Closed, Addresses
  <2> HIDE DEF item, g
  <2>4. /\ WellTyped(g) /\ Closed(g) /\ g[x] = item /\ g[x] # Null
        /\ \A y \in Addresses \ {x} : g[y] = h[y]
    BY <1>2, <1>4, <2>1, <2>2, <2>3, PutItem
  <2>5. QED
    BY <1>2, <2>4 DEF g
<1>5. CASE h[x].kind \notin ContainerKinds
  BY <1>5 DEF Offered
<1>6. QED
  BY <1>4, <1>5

\* What container t may keep of its items when x goes in: all of them, or all
\* but one that collides with x.
Leaves(g, t, x, rest) ==
    LET kids == g[t].kids
    IN  \/ rest = kids /\ g[x].kind = "Comment"
        \/ /\ g[x].kind # "Comment" /\ ~BadlyNamed(g, t, x)
           /\ \/ rest = kids /\ \A k \in 1..Len(kids) : ~Clashes(g, t, x, kids[k])
              \/ \E k \in 1..Len(kids) :
                    Clashes(g, t, x, kids[k]) /\ rest = RemoveAt(kids, k)

\* g2 is g once x has gone in at the end of container t.
Grown(g, t, x, g2) ==
    \E rest \in Seq(Ids) :
        Leaves(g, t, x, rest) /\ g2 = [g EXCEPT ![t].kids = Append(rest, x)]

\* Under whatever policy, t keeps its items, or all but one, and takes no item
\* that is named as it must not be.
Spares(g, t, x, rest) ==
    /\ g[x].kind # "Comment" => ~BadlyNamed(g, t, x)
    /\ \/ rest = g[t].kids
       \/ \E k \in 1..Len(g[t].kids) : rest = RemoveAt(g[t].kids, k)

Enlarged(g, t, x, g2) ==
    \E rest \in Seq(Ids) :
        Spares(g, t, x, rest) /\ g2 = [g EXCEPT ![t].kids = Append(rest, x)]

LEMMA GrownEnlarged ==
    ASSUME NEW g, NEW t, NEW x, NEW g2, Grown(g, t, x, g2)
    PROVE  Enlarged(g, t, x, g2)
BY DEF Grown, Enlarged, Leaves, Spares

\* What Add answers and what it does to the heap, answer by answer: it refuses
\* or keeps the item it has and changes at most the policy of the one offered,
\* or the item is at the end of the container, one colliding item less.  Under a
\* policy that is none of the enum's the colliding item may still be there.
LEMMA AddAnswers ==
    ASSUME NEW h, WellTyped(h), Closed(h),
           NEW t \in Addresses, IsContainer(h, t),
           NEW x \in Ids, h[x] # Null, NEW p \in AnyPolicy
    PROVE  LET r == AddTo(h, t, x, p)
               g == Offered(h, x, p)
           IN  \/ /\ r.out \in AddErrors /\ r.item = Null /\ r.heap = g
                  /\ g[x].kind # "Comment"
               \/ /\ r.out = "kept" /\ p = "Keep" /\ r.item \in Ids /\ r.heap = g
                  /\ g[x].kind # "Comment"
                  /\ \E k \in 1..Len(g[t].kids) :
                        r.item = g[t].kids[k] /\ Clashes(g, t, x, g[t].kids[k])
               \/ /\ r.out = "added" /\ r.item = x /\ Enlarged(g, t, x, r.heap)
                  /\ p \in Policies => Grown(g, t, x, r.heap)
<1> DEFINE g    == Offered(h, x, p)
           kids == g[t].kids
           k    == FirstClash(g, t, x)
           r    == PlaceIn(g, t, x, p)
<1>1. r = AddTo(h, t, x, p)
  BY DEF AddTo
<1>2. x \in Addresses /\ WellTyped(g) /\ g[t] # Null
  BY OfferedKeeps DEF Addresses, IsContainer
<1>3. kids \in Seq(Ids) /\ \A j \in 1..Len(kids) : kids[j] \in Ids
  BY <1>2, ItemFields, ElementOfSeq
<1> HIDE DEF g
<1>4. /\ k \in 0..Len(kids)
      /\ k = 0 => \A j \in 1..Len(kids) : ~Clashes(g, t, x, kids[j])
      /\ k # 0 => Clashes(g, t, x, kids[k])
  BY <1>3, FirstClashFound
<1>5. Len(kids) \in Nat
  BY <1>3, LenProperties
<1>6. k # 0 => k \in 1..Len(kids) /\ RemoveAt(kids, k) \in Seq(Ids)
  <2>1. k # 0 => k \in 1..Len(kids)
    BY <1>4, <1>5
  <2>2. QED
    BY <1>3, <2>1, RemoveAtIsErase
<1> HIDE DEF k
<1>0. ASSUME NEW rest \in Seq(Ids), Leaves(g, t, x, rest), r = Placed(g, t, rest, x)
      PROVE  /\ r.out = "added" /\ r.item = x
             /\ Enlarged(g, t, x, r.heap) /\ Grown(g, t, x, r.heap)
  <2> HIDE DEF r
  <2>1. /\ r.out = "added" /\ r.item = x
        /\ r.heap = [g EXCEPT ![t].kids = Append(rest, x)]
    BY <1>0 DEF Placed
  <2>2. Grown(g, t, x, r.heap)
    BY <1>0, <2>1 DEF Grown
  <2>3. QED
    BY <2>1, <2>2, GrownEnlarged
<1>7. CASE g[x].kind = "Comment"
  <2>1. r = Placed(g, t, kids, x)
    BY <1>7 DEF PlaceIn
  <2>2. Leaves(g, t, x, kids)
    BY <1>7 DEF Leaves
  <2> HIDE DEF r
  <2>3. QED
    BY <1>0, <1>1, <1>3, <2>1, <2>2 DEF g
<1>8. CASE g[x].kind # "Comment" /\ BadlyNamed(g, t, x)
  <2>1. r = Refused(g, "InvalidName")
    BY <1>8 DEF PlaceIn
  <2>2. QED
    BY <1>1, <1>8, <2>1 DEF Refused, AddErrors, g
<1>9. CASE g[x].kind # "Comment" /\ ~BadlyNamed(g, t, x) /\ k = 0
  <2>1. r = Placed(g, t, kids, x)
    BY <1>9 DEF PlaceIn, k
  <2>2. Leaves(g, t, x, kids)
    BY <1>4, <1>9 DEF Leaves
  <2> HIDE DEF r
  <2>3. QED
    BY <1>0, <1>1, <1>3, <2>1, <2>2 DEF g
<1>10. CASE g[x].kind # "Comment" /\ ~BadlyNamed(g, t, x) /\ k # 0 /\ p = "Keep"
  <2>1. r = [heap |-> g, out |-> "kept", item |-> kids[k]]
    BY <1>10 DEF PlaceIn, k, Policies
  <2>2. QED
    BY <1>1, <1>3, <1>4, <1>6, <1>10, <2>1 DEF g
<1>11. CASE g[x].kind # "Comment" /\ ~BadlyNamed(g, t, x) /\ k # 0 /\ p = "Overwrite"
  <2>1. r = Placed(g, t, RemoveAt(kids, k), x)
    BY <1>11 DEF PlaceIn, k, Policies
  <2>2. Leaves(g, t, x, RemoveAt(kids, k)) /\ RemoveAt(kids, k) \in Seq(Ids)
    BY <1>4, <1>6, <1>11 DEF Leaves
  <2> HIDE DEF r
  <2>3. QED
    BY <1>0, <1>1, <2>1, <2>2 DEF g
<1>12. CASE g[x].kind # "Comment" /\ ~BadlyNamed(g, t, x) /\ k # 0 /\ p = "ThrowException"
  <2>1. \E why \in AddErrors : r = Refused(g, why)
    BY <1>12 DEF PlaceIn, k, AddErrors, Policies
  <2>2. QED
    BY <1>1, <1>12, <2>1 DEF Refused, g
<1>13. CASE g[x].kind # "Comment" /\ ~BadlyNamed(g, t, x) /\ k # 0 /\ p \notin Policies
  <2>1. r = Placed(g, t, kids, x)
    BY <1>13 DEF PlaceIn, k, Policies
  <2>2. Spares(g, t, x, kids)
    BY <1>13 DEF Spares
  <2> HIDE DEF r
  <2>3. /\ r.out = "added" /\ r.item = x
        /\ r.heap = [g EXCEPT ![t].kids = Append(kids, x)]
    BY <2>1 DEF Placed
  <2>4. Enlarged(g, t, x, r.heap)
    BY <1>3, <2>2, <2>3 DEF Enlarged
  <2>5. QED
    BY <1>1, <1>13, <2>3, <2>4 DEF g
<1>14. QED
  BY <1>7, <1>8, <1>9, <1>10, <1>11, <1>12, <1>13 DEF Policies

\* So it is under a policy of the enum's: Add adds only what collides with nothing left.
LEMMA AddToAnswer ==
    ASSUME NEW h, WellTyped(h), Closed(h),
           NEW t \in Addresses, IsContainer(h, t),
           NEW x \in Ids, h[x] # Null, NEW p \in Policies
    PROVE  LET r == AddTo(h, t, x, p)
               g == Offered(h, x, p)
           IN  \/ /\ r.out \in AddErrors /\ r.item = Null /\ r.heap = g
                  /\ g[x].kind # "Comment"
               \/ /\ r.out = "kept" /\ p = "Keep" /\ r.item \in Ids /\ r.heap = g
                  /\ g[x].kind # "Comment"
                  /\ \E k \in 1..Len(g[t].kids) :
                        r.item = g[t].kids[k] /\ Clashes(g, t, x, g[t].kids[k])
               \/ r.out = "added" /\ r.item = x /\ Grown(g, t, x, r.heap)
BY AddAnswers DEF AnyPolicy

\* Whatever the answer, the heap takes over the policy or grows.
LEMMA AddToOutcome ==
    ASSUME NEW h, WellTyped(h), Closed(h),
           NEW t \in Addresses, IsContainer(h, t),
           NEW x \in Ids, h[x] # Null, NEW p \in AnyPolicy
    PROVE  /\ AddTo(h, t, x, p).out \in AddOutcomes
           /\ AddTo(h, t, x, p).item \in Ids \cup {Null}
           /\ \/ AddTo(h, t, x, p).heap = Offered(h, x, p)
              \/ Enlarged(Offered(h, x, p), t, x, AddTo(h, t, x, p).heap)
           /\ p \in Policies =>
                 \/ AddTo(h, t, x, p).heap = Offered(h, x, p)
                 \/ Grown(Offered(h, x, p), t, x, AddTo(h, t, x, p).heap)
BY AddAnswers DEF AddOutcomes

\* Whatever Add answers, the heap stays sound and no item is lost or made.
LEMMA AddToSound ==
    ASSUME NEW h, WellTyped(h), Closed(h),
           NEW t \in Addresses, IsContainer(h, t),
           NEW x \in Ids, h[x] # Null, NEW p \in AnyPolicy
    PROVE  /\ AddTo(h, t, x, p).out \in AddOutcomes
           /\ AddTo(h, t, x, p).item \in Ids \cup {Null}
           /\ WellTyped(AddTo(h, t, x, p).heap) /\ Closed(AddTo(h, t, x, p).heap)
           /\ \A y \in Addresses : h[y] # Null => AddTo(h, t, x, p).heap[y] # Null
<1> DEFINE g == Offered(h, x, p)
           r == AddTo(h, t, x, p)
<1>1. x \in Addresses
  BY DEF Addresses
<1>2. /\ WellTyped(g) /\ Closed(g)
      /\ \A y \in Addresses : h[y] # Null => g[y] # Null
      /\ g[x] # Null /\ g[t].kind = h[t].kind
  BY <1>1, OfferedKeeps
<1>3. IsContainer(g, t) /\ t \in DOMAIN g
  BY <1>2 DEF IsContainer, WellTyped
<1>4. /\ r.out \in AddOutcomes /\ r.item \in Ids \cup {Null}
      /\ r.heap = g \/ Enlarged(g, t, x, r.heap)
  BY AddToOutcome
<1>5. CASE r.heap = g
  BY <1>2, <1>4, <1>5
<1>6. ASSUME NEW rest \in Seq(Ids), Spares(g, t, x, rest),
             r.heap = [g EXCEPT ![t].kids = Append(rest, x)]
      PROVE  /\ WellTyped(r.heap) /\ Closed(r.heap)
             /\ \A y \in Addresses : h[y] # Null => r.heap[y] # Null
  <2> DEFINE kids == g[t].kids
  <2> HIDE DEF g, r
  <2>1. /\ kids \in Seq(Ids) /\ Len(kids) \in Nat
        /\ \A k \in 1..Len(kids) : g[kids[k]] # Null
    <3>1. /\ kids \in Seq(Ids) /\ Kids(g, t) = {kids[k] : k \in 1..Len(kids)}
          /\ Kids(g, t) \subseteq Ids
      BY <1>2, <1>3, ItemFields DEF IsContainer
    <3>2. QED
      BY <1>2, <3>1, LenProperties DEF Closed, Addresses
  <2>2. Len(rest) \in Nat /\ \A k \in 1..Len(rest) : g[rest[k]] # Null
    <3>1. CASE rest = kids
      BY <2>1, <3>1
    <3>2. ASSUME NEW j \in 1..Len(kids), rest = RemoveAt(kids, j)
          PROVE  Len(rest) \in Nat /\ \A k \in 1..Len(rest) : g[rest[k]] # Null
      <4>1. /\ Len(rest) = Len(kids) - 1
            /\ \A k \in 1..(Len(kids) - 1) :
                  rest[k] = IF k < j THEN kids[k] ELSE kids[k + 1]
        BY <2>1, <3>2, RemoveAtIsErase
      <4>2. ASSUME NEW k \in 1..Len(rest)
            PROVE  \E m \in 1..Len(kids) : rest[k] = kids[m]
        <5>1. k \in 1..(Len(kids) - 1) /\ k \in 1..Len(kids) /\ k + 1 \in 1..Len(kids)
          BY <2>1, <4>1
        <5>2. QED
          BY <4>1, <5>1
      <4>3. Len(rest) \in Nat
        BY <2>1, <4>1
      <4>4. QED
        BY <2>1, <4>2, <4>3
    <3>3. QED
      BY <1>6, <3>1, <3>2 DEF Spares
  <2>3. /\ Append(rest, x) \in Seq(Ids)
        /\ \A k \in 1..Len(Append(rest, x)) : g[Append(rest, x)[k]] # Null
    BY <1>2, <2>2, AppendKeeps
  <2>4. /\ WellTyped(r.heap) /\ Closed(r.heap)
        /\ r.heap[t] # Null
        /\ \A y \in Addresses \ {t} : r.heap[y] = g[y]
    <3> DEFINE full == Append(rest, x)
    <3>1. full \in Seq(Ids) /\ \A k \in 1..Len(full) : g[full[k]] # Null
      BY <2>3
    <3>2. PutsKids(g, t, full, r.heap)
      BY <1>6 DEF PutsKids
    <3> HIDE DEF full
    <3>3. QED
      BY <1>2, <1>3, <3>1, <3>2, PutKids
  <2>5. QED
    BY <1>2, <2>4
<1>7. QED
  BY <1>4, <1>5, <1>6 DEF Enlarged

-----------------------------------------------------------------------------
(* The heaps the calls build *)

\* Clone() at a fresh address, and operator= at one in use.
LEMMA CopySound ==
    ASSUME NEW h, WellTyped(h), Closed(h), NEW x \in Addresses, NEW y \in Addresses,
           h[y] # Null, x \in Configs => h[y].kind = "Group",
           NEW g, Puts(h, x, h[y], g)
    PROVE  /\ WellTyped(g) /\ Closed(g) /\ g[x] = h[y] /\ g[x] # Null
           /\ \A z \in Addresses \ {x} : g[z] = h[z]
<1>1. h[y] \in Item /\ (h[y].kids # <<>> => h[y].kind \in ContainerKinds)
  BY ItemFields DEF WellTyped
<1>2. \A k \in 1..Len(h[y].kids) : h[h[y].kids[k]] # Null
  <2>1. \A k \in 1..Len(h[y].kids) : h[y].kids[k] \in Kids(h, y) /\ h[y].kids[k] \in Ids
    BY ItemFields
  <2>2. QED
    BY <2>1 DEF Closed, Addresses
<1>3. QED
  BY <1>1, <1>2, PutItem

\* An item that has been moved from refers to nothing.
LEMMA MovedFromSound ==
    ASSUME NEW h, WellTyped(h), Closed(h), NEW y \in Addresses, h[y] # Null,
           NEW item, item = h[y], NEW g, Puts(h, y, MovedFrom(item), g)
    PROVE  /\ WellTyped(g) /\ Closed(g) /\ g[y] = MovedFrom(item) /\ g[y] # Null
           /\ MovedFrom(item) \in Item
           /\ MovedFrom(item).kids = <<>> /\ MovedFrom(item).kind = item.kind
           /\ \A z \in Addresses \ {y} : g[z] = h[z]
<1>1. item \in Item
  BY ItemFields
<1>2. /\ MovedFrom(item) \in Item
      /\ MovedFrom(item).kids = <<>> /\ MovedFrom(item).kind = item.kind
  <2> DEFINE nameless == [item EXCEPT !.name = NoName]
  <2>1. nameless \in Item /\ nameless.kind = item.kind
    BY <1>1 DEF Item, AnyName
  <2>2. MovedFrom(item) = [nameless EXCEPT !.kids = <<>>]
    BY DEF MovedFrom
  <2>3. <<>> \in Seq(Ids)
    BY EmptySeq
  <2> HIDE DEF nameless
  <2>4. QED
    BY <2>1, <2>2, <2>3 DEF Item
<1>3. /\ y \in Configs => MovedFrom(item).kind = "Group"
      /\ \A k \in 1..Len(MovedFrom(item).kids) : h[MovedFrom(item).kids[k]] # Null
  BY <1>2 DEF WellTyped
<1>4. QED
  BY <1>2, <1>3, PutItem

\* Erasing one item of a container.
LEMMA EraseSound ==
    ASSUME NEW h, WellTyped(h), Closed(h), NEW t \in Addresses, IsContainer(h, t),
           NEW k \in 1..Len(h[t].kids),
           NEW g, PutsKids(h, t, RemoveAt(h[t].kids, k), g)
    PROVE  /\ WellTyped(g) /\ Closed(g)
           /\ \A y \in Addresses : h[y] # Null => g[y] # Null
<1> DEFINE kids == RemoveAt(h[t].kids, k)
<1>1. /\ h[t].kids \in Seq(Ids) /\ Len(h[t].kids) \in Nat
      /\ \A j \in 1..Len(h[t].kids) : h[h[t].kids[j]] # Null
  <2>1. /\ h[t].kids \in Seq(Ids) /\ Kids(h, t) \subseteq Ids
        /\ Kids(h, t) = {h[t].kids[j] : j \in 1..Len(h[t].kids)}
    BY ItemFields DEF IsContainer
  <2>2. QED
    BY <2>1, LenProperties DEF Closed, Addresses
<1>2. /\ kids \in Seq(Ids) /\ Len(kids) = Len(h[t].kids) - 1
      /\ \A j \in 1..(Len(h[t].kids) - 1) :
            kids[j] = IF j < k THEN h[t].kids[j] ELSE h[t].kids[j + 1]
  BY <1>1, RemoveAtIsErase
<1>3. PutsKids(h, t, kids, g)
  OBVIOUS
<1> HIDE DEF kids
<1>4. ASSUME NEW j \in 1..Len(kids)
      PROVE  h[kids[j]] # Null
  <2>1. /\ j \in 1..(Len(h[t].kids) - 1)
        /\ j \in 1..Len(h[t].kids) /\ j + 1 \in 1..Len(h[t].kids)
    BY <1>1, <1>2
  <2>2. QED
    BY <1>1, <1>2, <2>1
<1>5. kids \in Seq(Ids)
  BY <1>2
<1>6. /\ WellTyped(g) /\ Closed(g) /\ g[t] # Null
      /\ \A y \in Addresses \ {t} : g[y] = h[y]
  BY <1>3, <1>4, <1>5, PutKids
<1>7. QED
  BY <1>6

-----------------------------------------------------------------------------
(* Tidy containers: the names of a group and the values of a list differ *)

\* y may be in a container of this kind.
Fit(h, kind, y) == IF kind = "Group" THEN h[y].name \in Names ELSE h[y].name = NoName

\* y and z may not both be.
Alike(h, kind, y, z) ==
    IF kind = "Group" THEN h[y].name = h[z].name
    ELSE h[y].kind = "Value" /\ h[z].kind = "Value" /\ h[y].val = h[z].val /\ h[y].val # NaN

Tidy(h, kind, kids) ==
    \A j \in 1..Len(kids) : h[kids[j]].kind # "Comment" =>
        /\ Fit(h, kind, kids[j])
        /\ \A k \in 1..Len(kids) :
              h[kids[k]].kind # "Comment" /\ k # j => ~Alike(h, kind, kids[j], kids[k])

\* All of them may be in a container of this kind, each by itself.
NamedFit(h, kind, kids) ==
    \A k \in 1..Len(kids) : h[kids[k]].kind # "Comment" => Fit(h, kind, kids[k])

\* Every container outside marks is tidy.
Neat(h, marks) ==
    \A s \in Addresses \ marks : h[s] # Null => Tidy(h, h[s].kind, h[s].kids)

-----------------------------------------------------------------------------
(* Sequences of items *)

LEMMA TidyEmpty ==
    ASSUME NEW h, NEW kind
    PROVE  Tidy(h, kind, <<>>)
BY EmptySeq DEF Tidy

\* Only kind, name and payload of the items matter.
LEMMA TidyFrame ==
    ASSUME NEW h, NEW g, NEW kind, NEW kids, Tidy(h, kind, kids),
           \A k \in 1..Len(kids) : /\ g[kids[k]].kind = h[kids[k]].kind
                                   /\ g[kids[k]].name = h[kids[k]].name
                                   /\ g[kids[k]].val = h[kids[k]].val
    PROVE  Tidy(g, kind, kids)
BY DEF Tidy, Fit, Alike

LEMMA NamedFitFrame ==
    ASSUME NEW h, NEW g, NEW kind, NEW kids, NamedFit(h, kind, kids),
           \A k \in 1..Len(kids) : /\ g[kids[k]].kind = h[kids[k]].kind
                                   /\ g[kids[k]].name = h[kids[k]].name
    PROVE  NamedFit(g, kind, kids)
BY DEF NamedFit, Fit

\* What is left after an erase was there before, at another position than the
\* one erased.
LEMMA ErasedFrom ==
    ASSUME NEW kids \in Seq(Ids), NEW i \in 1..Len(kids),
           NEW j \in 1..Len(RemoveAt(kids, i)), NEW k \in 1..Len(RemoveAt(kids, i)), k # j
    PROVE  \E m, n \in 1..Len(kids) :
              /\ m # i /\ n # i /\ m # n
              /\ RemoveAt(kids, i)[j] = kids[m] /\ RemoveAt(kids, i)[k] = kids[n]
<1>1. /\ Len(kids) \in Nat /\ Len(RemoveAt(kids, i)) = Len(kids) - 1
      /\ \A q \in 1..(Len(kids) - 1) :
            RemoveAt(kids, i)[q] = IF q < i THEN kids[q] ELSE kids[q + 1]
  BY RemoveAtIsErase, LenProperties
<1> DEFINE At(q) == IF q < i THEN q ELSE q + 1
<1>2. j \in 1..(Len(kids) - 1) /\ k \in 1..(Len(kids) - 1)
  BY <1>1
<1>3. /\ At(j) \in 1..Len(kids) /\ At(k) \in 1..Len(kids)
      /\ At(j) # i /\ At(k) # i /\ At(j) # At(k)
  BY <1>1, <1>2
<1>4. RemoveAt(kids, i)[j] = kids[At(j)] /\ RemoveAt(kids, i)[k] = kids[At(k)]
  BY <1>1, <1>2
<1>5. QED
  BY <1>3, <1>4

LEMMA ErasedOne ==
    ASSUME NEW kids \in Seq(Ids), NEW i \in 1..Len(kids),
           NEW j \in 1..Len(RemoveAt(kids, i))
    PROVE  \E m \in 1..Len(kids) : m # i /\ RemoveAt(kids, i)[j] = kids[m]
<1>1. /\ Len(kids) \in Nat /\ Len(RemoveAt(kids, i)) = Len(kids) - 1
      /\ \A q \in 1..(Len(kids) - 1) :
            RemoveAt(kids, i)[q] = IF q < i THEN kids[q] ELSE kids[q + 1]
  BY RemoveAtIsErase, LenProperties
<1>2. j \in 1..(Len(kids) - 1)
  BY <1>1
<1>3. CASE j < i
  BY <1>1, <1>2, <1>3
<1>4. CASE ~(j < i)
  <2>1. j + 1 \in 1..Len(kids) /\ j + 1 # i
    BY <1>1, <1>2, <1>4
  <2>2. QED
    BY <1>1, <1>2, <1>4, <2>1
<1>5. QED
  BY <1>3, <1>4

LEMMA TidyErase ==
    ASSUME NEW h, NEW kind, NEW kids \in Seq(Ids), Tidy(h, kind, kids),
           NEW i \in 1..Len(kids)
    PROVE  Tidy(h, kind, RemoveAt(kids, i))
<1> DEFINE rest == RemoveAt(kids, i)
<1>1. ASSUME NEW j \in 1..Len(rest), h[rest[j]].kind # "Comment"
      PROVE  Fit(h, kind, rest[j])
  <2>1. PICK m \in 1..Len(kids) : rest[j] = kids[m]
    BY ErasedOne
  <2>2. QED
    BY <1>1, <2>1 DEF Tidy
<1>2. ASSUME NEW j \in 1..Len(rest), h[rest[j]].kind # "Comment",
             NEW k \in 1..Len(rest), h[rest[k]].kind # "Comment", k # j
      PROVE  ~Alike(h, kind, rest[j], rest[k])
  <2>1. PICK m \in 1..Len(kids), n \in 1..Len(kids) :
           m # n /\ rest[j] = kids[m] /\ rest[k] = kids[n]
    BY <1>2, ErasedFrom
  <2>2. QED
    BY <1>2, <2>1 DEF Tidy
<1>3. QED
  BY <1>1, <1>2 DEF Tidy

LEMMA TidyAppend ==
    ASSUME NEW h, NEW kind, NEW kids \in Seq(Ids), Tidy(h, kind, kids), NEW x \in Ids,
           h[x].kind # "Comment" =>
              /\ Fit(h, kind, x)
              /\ \A k \in 1..Len(kids) :
                    h[kids[k]].kind # "Comment" => ~Alike(h, kind, kids[k], x)
    PROVE  Tidy(h, kind, Append(kids, x))
<1> DEFINE full == Append(kids, x)
<1>1. /\ Len(full) = Len(kids) + 1 /\ Len(kids) \in Nat
      /\ full[Len(kids) + 1] = x
      /\ \A k \in 1..Len(kids) : full[k] = kids[k]
  BY AppendKeeps, LenProperties
<1> HIDE DEF full
<1>2. \A k \in 1..Len(full) : (k \in 1..Len(kids) /\ full[k] = kids[k])
                                 \/ (k = Len(kids) + 1 /\ full[k] = x)
  BY <1>1
<1>3. \A y, z : Alike(h, kind, y, z) <=> Alike(h, kind, z, y)
  BY DEF Alike
<1>4. ASSUME NEW j \in 1..Len(full), h[full[j]].kind # "Comment"
      PROVE  Fit(h, kind, full[j])
  BY <1>2, <1>4 DEF Tidy
<1>5. ASSUME NEW j \in 1..Len(full), h[full[j]].kind # "Comment",
             NEW k \in 1..Len(full), h[full[k]].kind # "Comment", k # j
      PROVE  ~Alike(h, kind, full[j], full[k])
  <2>1. CASE j \in 1..Len(kids) /\ full[j] = kids[j]
             /\ k \in 1..Len(kids) /\ full[k] = kids[k]
    BY <1>5, <2>1 DEF Tidy
  <2>2. CASE j \in 1..Len(kids) /\ full[j] = kids[j] /\ full[k] = x
    BY <1>5, <2>2
  <2>3. CASE full[j] = x /\ k \in 1..Len(kids) /\ full[k] = kids[k]
    BY <1>3, <1>5, <2>3
  <2>4. QED
    BY <1>2, <1>5, <2>1, <2>2, <2>3
<1>6. Tidy(h, kind, full)
  BY <1>4, <1>5 DEF Tidy
<1>7. QED
  BY <1>6 DEF full

-----------------------------------------------------------------------------
(* What Add checks is enough *)

\* Two equal values, one after the other in a list, would have collided.
LEMMA AlikeClashes ==
    ASSUME NEW h, WellTyped(h), NEW t, h[t].kind \in ContainerKinds,
           NEW x \in Addresses, h[x] # Null, h[x].kind # "Comment", ~BadlyNamed(h, t, x),
           NEW y \in Addresses, h[y] # Null, h[y].kind # "Comment",
           Fit(h, h[t].kind, y), Alike(h, h[t].kind, y, x)
    PROVE  Clashes(h, t, x, y)
<1>1. CASE h[t].kind = "Group"
  BY <1>1 DEF Alike, Clashes
<1>2. CASE h[t].kind # "Group"
  <2>1. /\ h[y].kind = "Value" /\ h[x].kind = "Value"
        /\ h[y].val = h[x].val /\ h[y].val # NaN /\ h[y].name = h[x].name
    BY <1>2 DEF Alike, Fit, BadlyNamed
  <2>2. h[y].kids = <<>> /\ h[x].kids = <<>>
    BY <2>1 DEF WellTyped, ContainerKinds
  <2>3. SameShape(h, y, x) /\ DOMAIN h[y].kids = {}
    BY <2>1, <2>2, EmptySeq DEF SameShape
  <2>4. Same(h, y, x)
    BY <2>3 DEF Same, SameItems
  <2>5. QED
    BY <1>2, <2>4 DEF Clashes
<1>3. QED
  BY <1>1, <1>2

\* Two items that collide with the item that goes in are alike themselves, if
\* they are of a kind that may be alike.
LEMMA ClashAlike ==
    ASSUME NEW h, NEW t, NEW x, h[x].kind # "Comment", NEW y, NEW z,
           Clashes(h, t, x, y), Alike(h, h[t].kind, z, x)
    PROVE  h[y].kind # "Comment" /\ Alike(h, h[t].kind, y, z)
<1>1. CASE h[t].kind = "Group"
  BY <1>1 DEF Clashes, Alike
<1>2. CASE h[t].kind # "Group"
  <2>1. SameShape(h, y, x)
    <3>1. Same(h, y, x)
      BY <1>2 DEF Clashes
    <3>2. QED
      BY <3>1 DEF Same
  <2>2. QED
    BY <1>2, <2>1 DEF SameShape, Alike
<1>3. QED
  BY <1>1, <1>2

\* A tidy container is tidy once Add has let an item in.
LEMMA TidyGrown ==
    ASSUME NEW g, WellTyped(g), Closed(g), NEW t \in Addresses, IsContainer(g, t),
           NEW x \in Ids, g[x] # Null, NEW rest \in Seq(Ids), Leaves(g, t, x, rest),
           Tidy(g, g[t].kind, g[t].kids)
    PROVE  Tidy(g, g[t].kind, Append(rest, x))
<1> DEFINE kids == g[t].kids
           kind == g[t].kind
<1>1. /\ kids \in Seq(Ids) /\ kind \in ContainerKinds /\ x \in Addresses
      /\ \A k \in 1..Len(kids) : kids[k] \in Addresses /\ g[kids[k]] # Null
  <2>1. /\ kids \in Seq(Ids) /\ Kids(g, t) \subseteq Ids
        /\ Kids(g, t) = {kids[k] : k \in 1..Len(kids)}
    BY ItemFields DEF IsContainer
  <2>2. QED
    BY <2>1 DEF Closed, Addresses, IsContainer
<1>2. CASE g[x].kind = "Comment"
  <2>1. rest = kids
    BY <1>2 DEF Leaves
  <2>2. QED
    BY <1>1, <1>2, <2>1, TidyAppend
<1>3. CASE g[x].kind # "Comment"
  <2>1. ~BadlyNamed(g, t, x)
    BY <1>3 DEF Leaves
  <2>2. Fit(g, kind, x)
    BY <1>1, <2>1 DEF Fit, BadlyNamed
  <2>3. ASSUME NEW k \in 1..Len(kids), g[kids[k]].kind # "Comment",
               Alike(g, kind, kids[k], x)
        PROVE  Clashes(g, t, x, kids[k])
    <3>1. Fit(g, kind, kids[k])
      BY <2>3 DEF Tidy
    <3>2. kids[k] \in Addresses /\ g[kids[k]] # Null /\ g[t].kind \in ContainerKinds
      BY <1>1
    <3>3. QED
      BY <1>1, <1>3, <2>1, <2>3, <3>1, <3>2, AlikeClashes
  <2>4. CASE rest = kids /\ \A k \in 1..Len(kids) : ~Clashes(g, t, x, kids[k])
    BY <1>1, <2>2, <2>3, <2>4, TidyAppend
  <2>5. ASSUME NEW i \in 1..Len(kids), Clashes(g, t, x, kids[i]), rest = RemoveAt(kids, i)
        PROVE  Tidy(g, kind, Append(rest, x))
    <3>1. Tidy(g, kind, rest)
      BY <1>1, <2>5, TidyErase
    <3>2. ASSUME NEW j \in 1..Len(rest), g[rest[j]].kind # "Comment",
                 Alike(g, kind, rest[j], x)
          PROVE  FALSE
      <4>1. PICK m \in 1..Len(kids) : m # i /\ rest[j] = kids[m]
        BY <1>1, <2>5, ErasedOne, SMTT(30)
      <4>2. g[kids[i]].kind # "Comment" /\ Alike(g, kind, kids[i], kids[m])
        BY <1>3, <2>5, <3>2, <4>1, ClashAlike
      <4>3. QED
        BY <3>2, <4>1, <4>2 DEF Tidy
    <3>3. QED
      BY <2>2, <3>1, <3>2, TidyAppend
  <2>6. QED
    BY <1>3, <2>4, <2>5 DEF Leaves
<1>4. QED
  BY <1>2, <1>3

-----------------------------------------------------------------------------
(* Writing one item *)

\* An item that replaces the one at x looks the same to the container it is in.
Looks(h, x, item) ==
    h[x] # Null /\ item.kind = h[x].kind /\ item.name = h[x].name /\ item.val = h[x].val

\* The containers of h that hold x.
Holding(h, x) == {s \in Addresses : x \in Kids(h, s)}

LEMMA NeatWrite ==
    ASSUME NEW h, WellTyped(h), NEW x \in Addresses, NEW item \in Item,
           NEW g, Puts(h, x, item, g), NEW marks, Neat(h, marks), NEW touched,
           \A s \in Addresses \ touched :
              s # x => s \notin marks /\ (Looks(h, x, item) \/ x \notin Kids(h, s)),
           x \notin touched =>
              /\ Tidy(h, item.kind, item.kids)
              /\ Looks(h, x, item) \/ \A k \in 1..Len(item.kids) : item.kids[k] # x
    PROVE  Neat(g, touched)
<1>1. g[x] = item /\ \A y \in Addresses \ {x} : g[y] = h[y]
  BY DEF WellTyped, Puts
<1>2. item.kids \in Seq(Ids)
  BY DEF Item
<1>3. ASSUME NEW kind, NEW kids \in Seq(Ids), Tidy(h, kind, kids),
             Looks(h, x, item) \/ \A k \in 1..Len(kids) : kids[k] # x
      PROVE  Tidy(g, kind, kids)
  <2>1. ASSUME NEW k \in 1..Len(kids)
        PROVE  /\ g[kids[k]].kind = h[kids[k]].kind
               /\ g[kids[k]].name = h[kids[k]].name
               /\ g[kids[k]].val = h[kids[k]].val
    <3>1. kids[k] \in Addresses
      BY ElementOfSeq DEF Addresses
    <3>2. CASE kids[k] = x
      BY <1>1, <1>3, <3>2 DEF Looks
    <3>3. CASE kids[k] # x
      BY <1>1, <3>1, <3>3
    <3>4. QED
      BY <3>2, <3>3
  <2>2. QED
    BY <1>3, <2>1, TidyFrame
<1>4. ASSUME NEW s \in Addresses \ touched, g[s] # Null
      PROVE  Tidy(g, g[s].kind, g[s].kids)
  <2>1. CASE s = x
    BY <1>1, <1>2, <1>3, <2>1
  <2>2. CASE s # x
    <3>1. g[s] = h[s] /\ h[s] # Null /\ Tidy(h, h[s].kind, h[s].kids)
      BY <1>1, <1>4, <2>2 DEF Neat
    <3>2. h[s].kids \in Seq(Ids) /\ Kids(h, s) = {h[s].kids[k] : k \in 1..Len(h[s].kids)}
      BY <3>1, ItemFields
    <3>3. Looks(h, x, item) \/ \A k \in 1..Len(h[s].kids) : h[s].kids[k] # x
      BY <2>2, <3>2
    <3>4. QED
      BY <1>3, <3>1, <3>2, <3>3
  <2>3. QED
    BY <2>1, <2>2
<1>5. QED
  BY <1>4 DEF Neat

\* An item that is not allocated is in no container, and no Config ever is.
LEMMA HeldByNone ==
    ASSUME NEW h, WellTyped(h), Closed(h), NEW x \in Addresses,
           h[x] = Null \/ x \in Configs
    PROVE  Holding(h, x) = {}
<1>1. ASSUME NEW s \in Addresses, x \in Kids(h, s)
      PROVE  FALSE
  <2>1. h[s] # Null
    BY <1>1 DEF Kids
  <2>2. x \in Ids /\ h[x] # Null
    BY <1>1, <2>1, ItemFields DEF Closed
  <2>3. QED
    BY <2>2, AddressesAssumption
<1>2. QED
  BY <1>1 DEF Holding

\* Changing the name, payload or policy of an item: only the containers that
\* hold it may no longer be tidy, and not even those if it looks as before.
LEMMA NeatTouch ==
    ASSUME NEW h, WellTyped(h), Closed(h), NEW x \in Addresses, h[x] # Null,
           NEW item \in Item, item.kind = h[x].kind, item.kids = h[x].kids,
           NEW g, Puts(h, x, item, g), NEW marks, Neat(h, marks), NEW touched,
           marks \subseteq touched, Looks(h, x, item) \/ Holding(h, x) \subseteq touched
    PROVE  Neat(g, touched)
<1>1. \A s \in Addresses \ touched :
         s \notin marks /\ (Looks(h, x, item) \/ x \notin Kids(h, s))
  BY DEF Holding
<1>2. ASSUME x \notin touched
      PROVE  /\ Tidy(h, item.kind, item.kids)
             /\ Looks(h, x, item) \/ \A k \in 1..Len(item.kids) : item.kids[k] # x
  <2>1. Kids(h, x) = {h[x].kids[k] : k \in 1..Len(h[x].kids)}
    BY ItemFields
  <2>2. Tidy(h, h[x].kind, h[x].kids)
    BY <1>1, <1>2 DEF Neat
  <2>3. QED
    BY <1>1, <1>2, <2>1, <2>2
<1>3. QED
  BY <1>1, <1>2, NeatWrite

\* Clone() and operator=: the copy is as tidy as the original.
LEMMA NeatCopy ==
    ASSUME NEW h, WellTyped(h), Closed(h), NEW x \in Addresses,
           NEW y \in Addresses, h[y] # Null, NEW g, Puts(h, x, h[y], g),
           NEW marks, Neat(h, marks), NEW touched,
           marks \subseteq touched, Holding(h, x) \subseteq touched
    PROVE  Neat(g, Passed(touched, y, x))
<1> DEFINE item  == h[y]
           after == Passed(touched, y, x)
<1>1. /\ item \in Item
      /\ Kids(h, y) = {item.kids[k] : k \in 1..Len(item.kids)}
  BY ItemFields
<1>2. \A s \in Addresses \ after : s # x => s \notin touched
  BY DEF Passed
<1>3. x \notin after => y \notin touched
  BY DEF Passed
<1> HIDE DEF after
<1>4. \A s \in Addresses \ after :
         s # x => s \notin marks /\ (Looks(h, x, item) \/ x \notin Kids(h, s))
  BY <1>2 DEF Holding
<1>5. ASSUME x \notin after
      PROVE  /\ Tidy(h, item.kind, item.kids)
             /\ Looks(h, x, item) \/ \A k \in 1..Len(item.kids) : item.kids[k] # x
  <2>1. y \notin marks /\ x \notin Kids(h, y)
    BY <1>3, <1>5 DEF Holding
  <2>2. QED
    BY <1>1, <2>1 DEF Neat
<1> HIDE DEF item
<1>6. Puts(h, x, item, g)
  BY DEF item
<1>7. QED
  BY <1>1, <1>4, <1>5, <1>6, NeatWrite DEF after

\* What has been moved from holds nothing.
LEMMA NeatMoved ==
    ASSUME NEW h, WellTyped(h), NEW y \in Addresses, NEW item \in Item, item.kids = <<>>,
           NEW g, Puts(h, y, item, g), NEW marks, Neat(h, marks),
           Holding(h, y) \ {y} \subseteq marks
    PROVE  Neat(g, marks \ {y})
<1>1. \A s \in Addresses \ (marks \ {y}) : s # y => s \notin marks /\ y \notin Kids(h, s)
  BY DEF Holding
<1> DEFINE none == <<>>
<1>2. Tidy(h, item.kind, none) /\ \A k \in 1..Len(none) : none[k] # y
  BY TidyEmpty, EmptySeq
<1>3. item.kids = none
  OBVIOUS
<1> HIDE DEF none
<1>4. /\ Tidy(h, item.kind, item.kids)
      /\ \A k \in 1..Len(item.kids) : item.kids[k] # y
  BY <1>2, <1>3
<1>5. QED
  BY <1>1, <1>4, NeatWrite

\* Replacing the items of one container.
LEMMA NeatKids ==
    ASSUME NEW h, WellTyped(h), Closed(h), NEW t \in Addresses, IsContainer(h, t),
           NEW kids \in Seq(Ids), NEW g, PutsKids(h, t, kids, g),
           NEW marks, Neat(h, marks), t \notin marks => Tidy(h, h[t].kind, kids)
    PROVE  Neat(g, marks)
<1> DEFINE item == [h[t] EXCEPT !.kids = kids]
<1>1. h[t] # Null /\ h[t] \in Item
  BY ItemFields DEF IsContainer
<1>2. /\ item \in Item /\ item.kids = kids /\ item.kind = h[t].kind
      /\ item.name = h[t].name /\ item.val = h[t].val
  BY <1>1 DEF Item
<1>3. Puts(h, t, item, g)
  BY DEF Puts, PutsKids
<1> HIDE DEF item
<1>4. Looks(h, t, item)
  BY <1>1, <1>2 DEF Looks
<1>5. t \notin marks => Tidy(h, item.kind, item.kids)
  BY <1>2
<1>6. QED
  BY <1>2, <1>3, <1>4, <1>5, NeatWrite

\* Add keeps every tidy container tidy, the one it adds to included if it goes by a
\* policy of the enum's.
LEMMA NeatAdd ==
    ASSUME NEW h, WellTyped(h), Closed(h), NEW t \in Addresses, IsContainer(h, t),
           NEW x \in Ids, h[x] # Null, NEW p \in AnyPolicy, NEW marks, Neat(h, marks),
           p \in Policies \/ t \in marks
    PROVE  Neat(AddTo(h, t, x, p).heap, marks)
<1> DEFINE g    == Offered(h, x, p)
           item == g[x]
           r    == AddTo(h, t, x, p).heap
<1>1. x \in Addresses
  BY DEF Addresses
<1>2. /\ WellTyped(g) /\ Closed(g) /\ \A y \in Addresses \ {x} : g[y] = h[y]
      /\ g[x] # Null
      /\ g[x].kind = h[x].kind /\ g[x].name = h[x].name
      /\ g[x].val = h[x].val /\ g[x].kids = h[x].kids
  BY <1>1, OfferedKeeps
<1>3. /\ r = g \/ Enlarged(g, t, x, r)
      /\ p \in Policies => r = g \/ Grown(g, t, x, r)
  BY AddToOutcome
<1>4. IsContainer(g, t) /\ t \in DOMAIN g
  BY <1>2 DEF IsContainer, WellTyped
<1>5. Puts(h, x, item, g)
  <2>1. g = h \/ \E q : g = [h EXCEPT ![x] = q]
    BY DEF Offered
  <2>2. CASE g = h
    BY <1>1, <2>2 DEF Puts, WellTyped
  <2>3. ASSUME NEW q, g = [h EXCEPT ![x] = q]
        PROVE  Puts(h, x, item, g)
    <3>1. g[x] = q
      BY <1>1, <2>3 DEF WellTyped
    <3>2. QED
      BY <2>3, <3>1 DEF Puts
  <2>4. QED
    BY <2>1, <2>2, <2>3
<1> HIDE DEF g, r
<1>6. item \in Item
  BY <1>1, <1>2, ItemFields
<1>7. Neat(g, marks)
  <2>1. /\ item.kind = h[x].kind /\ item.name = h[x].name
        /\ item.val = h[x].val /\ item.kids = h[x].kids
    BY <1>2
  <2> HIDE DEF item
  <2>2. Looks(h, x, item)
    BY <2>1 DEF Looks
  <2>3. QED
    BY <1>1, <1>5, <1>6, <2>1, <2>2, NeatTouch
<1>8. ASSUME NEW rest \in Seq(Ids), Leaves(g, t, x, rest),
             r = [g EXCEPT ![t].kids = Append(rest, x)]
      PROVE  Neat(r, marks)
  <2> DEFINE full == Append(rest, x)
  <2>1. PutsKids(g, t, full, r) /\ full \in Seq(Ids)
    BY <1>8, AppendKeeps DEF PutsKids
  <2>2. t \notin marks => Tidy(g, g[t].kind, full)
    <3>1. t \notin marks => Tidy(g, g[t].kind, g[t].kids)
      BY <1>4, <1>7 DEF Neat, IsContainer
    <3>2. QED
      BY <1>2, <1>4, <1>8, <3>1, TidyGrown
  <2> HIDE DEF full
  <2>3. QED
    BY <1>2, <1>4, <1>7, <2>1, <2>2, NeatKids
<1>9. ASSUME NEW rest \in Seq(Ids), t \in marks,
             r = [g EXCEPT ![t].kids = Append(rest, x)]
      PROVE  Neat(r, marks)
  <2> DEFINE full == Append(rest, x)
  <2>1. PutsKids(g, t, full, r) /\ full \in Seq(Ids)
    BY <1>9, AppendKeeps DEF PutsKids
  <2> HIDE DEF full
  <2>2. QED
    BY <1>2, <1>4, <1>7, <1>9, <2>1, NeatKids
<1>10. QED
  BY <1>3, <1>7, <1>8, <1>9 DEF Grown, Enlarged, r

\* Releasing what is no longer referenced leaves the rest as tidy as it was.
LEMMA SettledNeat ==
    ASSUME NEW h, WellTyped(h), Closed(h),
           NEW held \in SUBSET Ids, \A p \in held : h[p] # Null,
           NEW marked, Neat(h, marked)
    PROVE  Neat(Settled(h, held), {t \in marked : Settled(h, held)[t] # Null})
<1> DEFINE g == Settled(h, held)
<1>1. \A x \in Addresses : g[x] # Null =>
         g[x] = h[x] /\ \A y \in Kids(h, x) : g[y] = h[y]
  BY SettledKeeps
<1> HIDE DEF g
<1>2. ASSUME NEW s \in Addresses \ {t \in marked : g[t] # Null}, g[s] # Null
      PROVE  Tidy(g, g[s].kind, g[s].kids)
  <2>1. s \notin marked /\ g[s] = h[s] /\ h[s] # Null
    BY <1>1, <1>2
  <2>2. Tidy(h, h[s].kind, h[s].kids)
    BY <2>1 DEF Neat
  <2>3. Kids(h, s) = {h[s].kids[k] : k \in 1..Len(h[s].kids)}
    BY <2>1, ItemFields
  <2>4. \A k \in 1..Len(h[s].kids) : g[h[s].kids[k]] = h[h[s].kids[k]]
    BY <1>1, <1>2, <2>3
  <2>5. Tidy(g, h[s].kind, h[s].kids)
    BY <2>2, <2>4, TidyFrame
  <2>6. QED
    BY <2>1, <2>5
<1>3. Neat(g, {t \in marked : g[t] # Null})
  BY <1>2 DEF Neat
<1>4. QED
  BY <1>3 DEF g

\* Add keeps the kind of every item, and no item but the one that goes in comes
\* into a container.
LEMMA AddToKeeps ==
    ASSUME NEW h, WellTyped(h), Closed(h), NEW t \in Addresses, IsContainer(h, t),
           NEW x \in Ids, h[x] # Null, NEW p \in AnyPolicy,
           NEW r, r = AddTo(h, t, x, p).heap
    PROVE  \A y \in Addresses :
              /\ h[y] # Null => r[y].kind = h[y].kind
              /\ y # x => Holding(r, y) \subseteq Holding(h, y)
<1> DEFINE g == Offered(h, x, p)
<1>1. /\ WellTyped(g) /\ Closed(g) /\ x \in Addresses
      /\ \A y \in Addresses \ {x} : g[y] = h[y]
      /\ g[x] # Null /\ g[x].kind = h[x].kind /\ g[x].kids = h[x].kids
  <2>1. x \in Addresses
    BY DEF Addresses
  <2>2. QED
    BY <2>1, OfferedKeeps
<1>2. r = g \/ Enlarged(g, t, x, r)
  BY AddToOutcome
<1> HIDE DEF g
<1>3. IsContainer(g, t)
  BY <1>1 DEF IsContainer, WellTyped
<1>4. \A y \in Addresses : Kids(g, y) = Kids(h, y)
  BY <1>1 DEF Kids
<1>5. CASE r = g
  BY <1>1, <1>4, <1>5 DEF Holding
<1>6. ASSUME NEW rest \in Seq(Ids), Spares(g, t, x, rest),
             r = [g EXCEPT ![t].kids = Append(rest, x)]
      PROVE  \A y \in Addresses :
                /\ h[y] # Null => r[y].kind = h[y].kind
                /\ y # x => Holding(r, y) \subseteq Holding(h, y)
  <2> DEFINE full == Append(rest, x)
             kids == g[t].kids
  <2>1. /\ kids \in Seq(Ids) /\ Len(rest) \in Nat /\ g[t] # Null
        /\ Kids(g, t) = {kids[k] : k \in 1..Len(kids)}
        /\ \A k \in 1..Len(kids) : g[kids[k]] # Null
    <3>1. /\ kids \in Seq(Ids) /\ Kids(g, t) \subseteq Ids
          /\ Kids(g, t) = {kids[k] : k \in 1..Len(kids)}
      BY <1>1, <1>3, ItemFields DEF IsContainer
    <3>2. QED
      BY <1>1, <1>3, <3>1, LenProperties DEF Closed, Addresses, IsContainer
  <2>2. /\ full \in Seq(Ids) /\ Len(full) = Len(rest) + 1 /\ full[Len(rest) + 1] = x
        /\ \A k \in 1..Len(rest) : full[k] = rest[k]
    BY AppendKeeps
  <2>3. \A k \in 1..Len(rest) : rest[k] \in Kids(g, t)
    <3>1. CASE rest = kids
      BY <2>1, <3>1
    <3>2. ASSUME NEW i \in 1..Len(kids), rest = RemoveAt(kids, i)
          PROVE  \A k \in 1..Len(rest) : rest[k] \in Kids(g, t)
      BY <2>1, <3>2, ErasedOne
    <3>3. QED
      BY <1>6, <3>1, <3>2 DEF Spares
  <2>4. \A k \in 1..Len(full) : k = Len(rest) + 1 \/ k \in 1..Len(rest)
    BY <2>1, <2>2
  <2>5. PutsKids(g, t, full, r)
    BY <1>6 DEF PutsKids
  <2> HIDE DEF full, kids
  <2>6. \A k \in 1..Len(full) : full[k] = x \/ full[k] \in Kids(g, t)
    BY <2>2, <2>3, <2>4
  <2>7. \A k \in 1..Len(full) : g[full[k]] # Null
    BY <1>1, <1>3, <2>6, ItemFields DEF Closed, Addresses, IsContainer
  <2>8. /\ WellTyped(r) /\ r[t] # Null /\ r[t].kind = g[t].kind /\ r[t].kids = full
        /\ \A y \in Addresses \ {t} : r[y] = g[y]
    BY <1>1, <1>3, <2>2, <2>5, <2>7, PutKids
  <2>9. Kids(r, t) = {full[k] : k \in 1..Len(full)}
    BY <2>8, ItemFields
  <2>10. \A y \in Addresses : \A z \in Kids(r, y) : z = x \/ z \in Kids(g, y)
    <3>1. \A y \in Addresses \ {t} : Kids(r, y) = Kids(g, y)
      BY <2>8 DEF Kids
    <3>2. QED
      BY <2>6, <2>9, <3>1
  <2>11. \A y \in Addresses : h[y] # Null => r[y].kind = h[y].kind
    BY <1>1, <2>8
  <2>12. QED
    BY <1>4, <2>10, <2>11 DEF Holding
<1>7. QED
  BY <1>2, <1>5, <1>6 DEF Enlarged

\* Add changes of no item the kind or the name, and the policy of the one offered only.
LEMMA AddTouches ==
    ASSUME NEW h, WellTyped(h), Closed(h), NEW t \in Addresses, IsContainer(h, t),
           NEW x \in Ids, h[x] # Null, NEW p \in AnyPolicy,
           NEW r, r = AddTo(h, t, x, p).heap
    PROVE  \A y \in Addresses : h[y] # Null =>
              /\ r[y].kind = h[y].kind /\ r[y].name = h[y].name
              /\ y # x => r[y].policy = h[y].policy
              /\ y # t => r[y].kids = h[y].kids
<1> DEFINE g == Offered(h, x, p)
<1>1. x \in Addresses
  BY DEF Addresses
<1>2. /\ WellTyped(g) /\ Closed(g) /\ \A y \in Addresses \ {x} : g[y] = h[y]
      /\ g[x].kind = h[x].kind /\ g[x].name = h[x].name /\ g[x].kids = h[x].kids
  BY <1>1, OfferedKeeps
<1>3. r = g \/ Enlarged(g, t, x, r)
  BY AddToOutcome
<1> HIDE DEF g
<1>4. ASSUME NEW kids, r = [g EXCEPT ![t].kids = kids]
      PROVE  \A y \in Addresses :
                /\ r[y].kind = g[y].kind /\ r[y].name = g[y].name
                /\ r[y].policy = g[y].policy
                /\ y # t => r[y].kids = g[y].kids
  BY <1>2, <1>4 DEF WellTyped
<1>5. \A y \in Addresses :
         /\ r[y].kind = g[y].kind /\ r[y].name = g[y].name
         /\ r[y].policy = g[y].policy
         /\ y # t => r[y].kids = g[y].kids
  BY <1>3, <1>4 DEF Enlarged
<1>6. \A y \in Addresses :
         /\ g[y].kind = h[y].kind /\ g[y].name = h[y].name /\ g[y].kids = h[y].kids
         /\ y # x => g[y].policy = h[y].policy
  <2>1. \A y \in Addresses : y = x \/ y \in Addresses \ {x}
    OBVIOUS
  <2>2. QED
    BY <1>2, <2>1
<1>7. QED
  BY <1>5, <1>6

\* Whatever the policy, what is in a container may be there by its name.
LEMMA NamedFitAdd ==
    ASSUME NEW h, WellTyped(h), Closed(h), NEW t \in Addresses, IsContainer(h, t),
           NEW x \in Ids, h[x] # Null, NEW p \in AnyPolicy,
           NEW r, r = AddTo(h, t, x, p).heap,
           NEW c \in Addresses, IsContainer(h, c), NamedFit(h, h[c].kind, h[c].kids)
    PROVE  NamedFit(r, r[c].kind, r[c].kids)
<1> DEFINE g    == Offered(h, x, p)
           kind == h[c].kind
<1>1. x \in Addresses /\ h[c] # Null
  BY DEF Addresses, IsContainer
<1>2. /\ WellTyped(g) /\ Closed(g) /\ \A y \in Addresses \ {x} : g[y] = h[y]
      /\ g[x] # Null
      /\ g[x].kind = h[x].kind /\ g[x].name = h[x].name /\ g[x].kids = h[x].kids
  BY <1>1, OfferedKeeps
<1>3. r = g \/ Enlarged(g, t, x, r)
  BY AddToOutcome
<1>4. \A y \in Addresses : h[y] # Null =>
         /\ r[y].kind = h[y].kind /\ r[y].name = h[y].name
         /\ y # t => r[y].kids = h[y].kids
  BY AddTouches
<1>5. /\ h[c].kids \in Seq(Ids) /\ Len(h[c].kids) \in Nat
      /\ \A k \in 1..Len(h[c].kids) : h[c].kids[k] \in Addresses /\ h[h[c].kids[k]] # Null
  <2>1. /\ h[c].kids \in Seq(Ids) /\ Kids(h, c) \subseteq Ids
        /\ Kids(h, c) = {h[c].kids[k] : k \in 1..Len(h[c].kids)}
    BY <1>1, ItemFields
  <2>2. QED
    BY <1>1, <2>1, LenProperties DEF Closed, Addresses
<1>6. NamedFit(r, kind, h[c].kids)
  BY <1>4, <1>5, NamedFitFrame
<1> HIDE DEF g
<1>7. CASE r[c].kids = h[c].kids
  BY <1>1, <1>4, <1>6, <1>7
<1>8. ASSUME c = t, NEW rest \in Seq(Ids), Spares(g, t, x, rest),
             r = [g EXCEPT ![t].kids = Append(rest, x)]
      PROVE  NamedFit(r, r[c].kind, r[c].kids)
  <2> DEFINE full == Append(rest, x)
  <2>1. /\ Len(full) = Len(rest) + 1 /\ Len(rest) \in Nat /\ full[Len(rest) + 1] = x
        /\ \A k \in 1..Len(rest) : full[k] = rest[k]
    BY AppendKeeps, LenProperties
  <2>2. r[c].kids = full /\ r[c].kind = kind
    <3>1. /\ g[t] \in Item /\ t \in DOMAIN g
      <4>1. g[t] # Null
        BY <1>1, <1>2, <1>8
      <4>2. QED
        BY <1>2, <4>1, ItemFields DEF WellTyped
    <3>2. QED
      BY <1>1, <1>4, <1>8, <3>1 DEF Item
  <2> HIDE DEF full
  <2>3. g[t].kids = h[c].kids /\ g[t].kind = kind
    BY <1>2, <1>8
  <2>4. \A k \in 1..Len(rest) : \E m \in 1..Len(h[c].kids) : rest[k] = h[c].kids[m]
    <3>1. CASE rest = h[c].kids
      BY <3>1
    <3>2. ASSUME NEW m \in 1..Len(h[c].kids), rest = RemoveAt(h[c].kids, m)
          PROVE  \A k \in 1..Len(rest) : \E i \in 1..Len(h[c].kids) : rest[k] = h[c].kids[i]
      BY <1>5, <3>2, ErasedOne
    <3>3. QED
      BY <1>8, <2>3, <3>1, <3>2 DEF Spares
  <2>5. r[x].kind # "Comment" => Fit(r, kind, x)
    <3>1. h[x].kind # "Comment" => ~BadlyNamed(g, t, x)
      BY <1>2, <1>8 DEF Spares
    <3>2. r[x].kind = h[x].kind /\ r[x].name = h[x].name /\ g[x].name = h[x].name
      BY <1>1, <1>2, <1>4
    <3>3. QED
      BY <2>3, <3>1, <3>2 DEF BadlyNamed, Fit
  <2>6. \A k \in 1..Len(full) : r[full[k]].kind # "Comment" => Fit(r, kind, full[k])
    <3>1. \A k \in 1..Len(rest) : r[rest[k]].kind # "Comment" => Fit(r, kind, rest[k])
      BY <1>6, <2>4 DEF NamedFit
    <3>2. \A k \in 1..Len(full) : k = Len(rest) + 1 \/ k \in 1..Len(rest)
      BY <2>1
    <3>3. QED
      BY <2>1, <2>5, <3>1, <3>2
  <2>7. QED
    BY <2>2, <2>6 DEF NamedFit
<1>9. CASE c = t /\ r = g
  BY <1>1, <1>2, <1>4, <1>6, <1>9
<1>10. QED
  BY <1>1, <1>3, <1>4, <1>7, <1>8, <1>9 DEF Enlarged

\* A container that is tidy has unique names or distinct values.
LEMMA TidyMeans ==
    ASSUME NEW h, WellTyped(h), NEW x \in Addresses, h[x] # Null,
           Tidy(h, h[x].kind, h[x].kids)
    PROVE  UniqueNamesIn(h, x) /\ DistinctValuesIn(h, x)
<1> DEFINE kids == h[x].kids
           kind == h[x].kind
<1>1. DOMAIN kids = 1..Len(kids)
  BY ItemFields, LenProperties
<1>2. \A j, k \in Keyed(h, x) :
         Fit(h, kind, kids[j]) /\ (Alike(h, kind, kids[j], kids[k]) => j = k)
  BY <1>1 DEF Tidy, Keyed
<1>3. UniqueNamesIn(h, x)
  BY <1>2 DEF UniqueNamesIn, Fit, Alike
<1>4. DistinctValuesIn(h, x)
  BY <1>2 DEF DistinctValuesIn, Fit, Alike
<1>5. QED
  BY <1>3, <1>4

-----------------------------------------------------------------------------
(* What m_items leads to *)

\* What is outside a set that m_items does not lead out of is not reached.
LEMMA Outside ==
    ASSUME NEW h, NEW R, NEW S \in SUBSET Ids, R \subseteq S,
           \A y \in S : Kids(h, y) \subseteq S
    PROVE  Reach(h, R) \subseteq S
BY DEF Reach

\* An item holds items, whatever there is at its address.
LEMMA KidsAreIds ==
    ASSUME NEW h, WellTyped(h), NEW x \in Addresses
    PROVE  Kids(h, x) \subseteq Ids
<1>1. CASE h[x] = Null
  BY <1>1 DEF Kids
<1>2. CASE h[x] # Null
  BY <1>2, ItemFields
<1>3. QED
  BY <1>1, <1>2

\* The items of t and what they lead to, in a heap where that is not t.
LEMMA Below ==
    ASSUME NEW h, WellTyped(h), NEW x \in Ids
    PROVE  /\ Kids(h, x) \subseteq Reach(h, Kids(h, x))
           /\ Reach(h, Kids(h, x)) \subseteq Ids
           /\ \A y \in Reach(h, Kids(h, x)) : Kids(h, y) \subseteq Reach(h, Kids(h, x))
<1> DEFINE R == Kids(h, x)
<1>1. R \in SUBSET Ids
  BY KidsAreIds DEF Addresses
<1> HIDE DEF R
<1>2. /\ R \subseteq Reach(h, R) /\ Reach(h, R) \subseteq Ids
      /\ \A y \in Reach(h, R) : Kids(h, y) \subseteq Reach(h, R)
  BY <1>1, ReachClosed
<1>3. QED
  BY <1>2 DEF R

\* Erasing an item brings none in.
LEMMA ErasedKids ==
    ASSUME NEW h, WellTyped(h), NEW t \in Addresses, h[t] # Null,
           NEW k \in 1..Len(h[t].kids)
    PROVE  ToSet(RemoveAt(h[t].kids, k)) \subseteq Kids(h, t)
<1> DEFINE s    == h[t].kids
           rest == RemoveAt(s, k)
<1>1. s \in Seq(Ids) /\ Kids(h, t) = {s[j] : j \in 1..Len(s)}
  BY ItemFields
<1> HIDE DEF s
<1>2. \A j \in 1..Len(rest) : \E m \in 1..Len(s) : rest[j] = s[m]
  BY <1>1, ErasedOne DEF s
<1>3. rest \in Seq(Ids)
  BY <1>1, RemoveAtIsErase DEF s
<1> HIDE DEF rest
<1>4. ToSet(rest) = {rest[j] : j \in 1..Len(rest)}
  BY <1>3, LenProperties DEF ToSet
<1>5. ToSet(rest) \subseteq Kids(h, t)
  BY <1>1, <1>2, <1>4
<1>6. QED
  BY <1>5 DEF rest, s

\* The items of a container once one has gone in.
LEMMA EnlargedKids ==
    ASSUME NEW o, WellTyped(o), NEW t \in Addresses, IsContainer(o, t), NEW x \in Ids,
           NEW g, Enlarged(o, t, x, g)
    PROVE  /\ Kids(g, t) \subseteq Kids(o, t) \cup {x}
           /\ \A y \in Addresses \ {t} : g[y] = o[y]
<1> DEFINE s == o[t].kids
<1>1. PICK rest \in Seq(Ids) :
         Spares(o, t, x, rest) /\ g = [o EXCEPT ![t].kids = Append(rest, x)]
  BY DEF Enlarged
<1>2. o[t] # Null /\ o[t] \in Item /\ t \in DOMAIN o
  BY ItemFields DEF IsContainer, WellTyped
<1>3. g[t].kids = Append(rest, x) /\ \A y \in Addresses \ {t} : g[y] = o[y]
  BY <1>1, <1>2 DEF WellTyped, Item
<1>4. ToSet(rest) \subseteq Kids(o, t)
  <2>1. CASE rest = s
    BY <1>2, <2>1 DEF Kids
  <2>2. ASSUME NEW k \in 1..Len(s), rest = RemoveAt(s, k)
        PROVE  ToSet(rest) \subseteq Kids(o, t)
    BY <1>2, <2>2, ErasedKids
  <2>3. QED
    BY <1>1, <2>1, <2>2 DEF Spares
<1>5. ToSet(Append(rest, x)) \subseteq ToSet(rest) \cup {x}
  <2> DEFINE more == Append(rest, x)
  <2>1. /\ more \in Seq(Ids) /\ Len(more) = Len(rest) + 1 /\ more[Len(rest) + 1] = x
        /\ \A k \in 1..Len(rest) : more[k] = rest[k]
    BY AppendKeeps
  <2> HIDE DEF more
  <2>2. /\ Len(rest) \in Nat /\ DOMAIN rest = 1..Len(rest)
        /\ DOMAIN more = 1..(Len(rest) + 1)
    BY <2>1, LenProperties
  <2>3. \A k \in 1..(Len(rest) + 1) : k = Len(rest) + 1 \/ k \in 1..Len(rest)
    BY <2>2
  <2>4. ToSet(more) \subseteq ToSet(rest) \cup {x}
    BY <2>1, <2>2, <2>3 DEF ToSet
  <2>5. QED
    BY <2>4 DEF more
<1>6. Kids(g, t) \subseteq ToSet(Append(rest, x))
  BY <1>3 DEF Kids
<1>7. QED
  BY <1>3, <1>4, <1>5, <1>6

-----------------------------------------------------------------------------
(* Recursion over a number *)

\* A function on 0..n that starts at base and goes on by step.
Iterates(f, n, S, base, step) ==
    /\ f \in [0..n -> S] /\ f[0] = base
    /\ \A k \in 1..n : f[k] = step[k][f[k - 1]]

LEMMA RecursionExists ==
    ASSUME NEW n \in Nat, NEW S, NEW base \in S, NEW step \in [1..n -> [S -> S]]
    PROVE  \E f : Iterates(f, n, S, base, step)
<1> DEFINE Bad == {m \in 0..n : ~\E f \in [0..m -> S] :
                       f[0] = base /\ \A k \in 1..m : f[k] = step[k][f[k - 1]]}
<1>1. Bad = {}
  <2>1. SUFFICES ASSUME Bad # {}
                 PROVE  FALSE
    OBVIOUS
  <2>2. PICK m \in Bad : \A j \in Bad : m <= j
    <3>1. Bad \in SUBSET Nat
      OBVIOUS
    <3> HIDE DEF Bad
    <3>2. QED
      BY <2>1, <3>1, LeastElement
  <2>3. m \in 0..n /\ m \in Nat
    OBVIOUS
  <2>4. CASE m = 0
    <3> DEFINE f == [k \in 0..0 |-> base]
    <3>1. f \in [0..m -> S] /\ f[0] = base /\ \A k \in 1..m : f[k] = step[k][f[k - 1]]
      BY <2>4
    <3>2. QED
      BY <3>1, <2>2
  <2>5. CASE m # 0
    <3>1. m - 1 \in 0..n /\ m - 1 \notin Bad /\ m \in 1..n
      BY <2>2, <2>3, <2>5
    <3>2. PICK f \in [0..(m - 1) -> S] :
             f[0] = base /\ \A k \in 1..(m - 1) : f[k] = step[k][f[k - 1]]
      BY <3>1
    <3> DEFINE g == [k \in 0..m |-> IF k = m THEN step[m][f[m - 1]] ELSE f[k]]
    <3>3. step[m][f[m - 1]] \in S
      BY <2>3, <3>1, <3>2
    <3>4. g \in [0..m -> S] /\ g[0] = base
      BY <2>3, <2>5, <3>2, <3>3
    <3>5. \A k \in 1..m : g[k] = step[k][g[k - 1]]
      BY <2>3, <2>5, <3>2
    <3>6. QED
      BY <2>2, <3>4, <3>5
  <2>6. QED
    BY <2>4, <2>5
<1>2. n \in 0..n
  OBVIOUS
<1>3. QED
  BY <1>1, <1>2 DEF Iterates
=============================================================================
