----------------------------- MODULE TreesProofs -----------------------------
(***************************************************************************)
(* Lemmas about the operators of Trees: what is in order, what the tree of  *)
(* an item is, when two items are equal, and which trees a container keeps. *)
(***************************************************************************)
EXTENDS Trees, ItemsProofs, FiniteSetTheorems

(* Numbers in order *)

\* s holds the numbers from 1 to m that are in S, each greater than the last.
Ordered(s, S, m) ==
    /\ s \in Seq(Nat)
    /\ \A i, j \in 1..Len(s) : i < j => s[i] < s[j]
    /\ \A i \in 1..Len(s) : s[i] \in S /\ s[i] \in 1..m
    /\ \A k \in 1..m : k \in S => \E i \in 1..Len(s) : s[i] = k

\* The numbers in order up to each bound.
Upto(f, S, m) ==
    /\ f \in [0..m -> Seq(Nat)] /\ f[0] = <<>>
    /\ \A k \in 1..m : f[k] = IF k \in S THEN Append(f[k - 1], k) ELSE f[k - 1]

LEMMA InOrderUpto ==
    ASSUME NEW S, NEW m \in Nat
    PROVE  \E f : Upto(f, S, m) /\ InOrder(S, m) = f[m]
<1> DEFINE none == <<>>
           Lists == Seq(Nat)
           step == [k \in 1..m |-> [s \in Lists |-> IF k \in S THEN Append(s, k) ELSE s]]
           Is(f) == f = [k \in 0..m |-> IF k = 0 THEN none
                                        ELSE IF k \in S THEN Append(f[k - 1], k) ELSE f[k - 1]]
<1>1. none \in Lists
  BY EmptySeq
<1>2. step \in [1..m -> [Lists -> Lists]]
  <2>1. ASSUME NEW k \in 1..m, NEW s \in Lists
        PROVE  Append(s, k) \in Lists
    BY AppendProperties
  <2> HIDE DEF Lists
  <2>2. QED
    BY <2>1
<1>3. PICK f : Iterates(f, m, Lists, none, step)
  <2> HIDE DEF none, step, Lists
  <2>1. QED
    BY <1>1, <1>2, RecursionExists
<1>4. /\ f \in [0..m -> Lists] /\ f[0] = none
      /\ \A k \in 1..m : f[k] = step[k][f[k - 1]] /\ f[k - 1] \in Lists
  <2> HIDE DEF none, step, Lists
  <2>1. \A k \in 1..m : k - 1 \in 0..m
    OBVIOUS
  <2>2. QED
    BY <1>3, <2>1 DEF Iterates
<1>5. ASSUME NEW k \in 1..m
      PROVE  f[k] = IF k \in S THEN Append(f[k - 1], k) ELSE f[k - 1]
  <2>1. f[k] = step[k][f[k - 1]] /\ f[k - 1] \in Lists
    BY <1>4
  <2> HIDE DEF Lists
  <2>2. QED
    BY <2>1
<1>6. Is(f)
  <2> HIDE DEF none, step, Lists
  <2>1. ASSUME NEW k \in 0..m
        PROVE  f[k] = IF k = 0 THEN none
                      ELSE IF k \in S THEN Append(f[k - 1], k) ELSE f[k - 1]
    <3>1. k = 0 \/ k \in 1..m
      OBVIOUS
    <3>2. QED
      BY <1>4, <1>5, <3>1
  <2>2. f = [k \in 0..m |-> f[k]]
    BY <1>4
  <2>3. QED
    BY <2>1, <2>2
<1> DEFINE upto == CHOOSE g : Is(g)
<1>7. InOrder(S, m) = upto[m]
  BY DEF InOrder
<1>8. Is(upto)
  <2> HIDE DEF Is
  <2>1. QED
    BY <1>6
<1> HIDE DEF upto
<1>9. ASSUME NEW k \in 0..m
      PROVE  upto[k] = IF k = 0 THEN none
                       ELSE IF k \in S THEN Append(upto[k - 1], k) ELSE upto[k - 1]
  <2> HIDE DEF none
  <2>1. QED
    BY <1>8
<1> DEFINE Bad == {k \in 0..m : upto[k] \notin Lists}
<1>10. Bad = {}
  <2>1. SUFFICES ASSUME Bad # {}
                 PROVE  FALSE
    OBVIOUS
  <2>2. PICK k \in Bad : \A j \in Bad : k <= j
    <3>1. Bad \in SUBSET Nat
      OBVIOUS
    <3> HIDE DEF Bad
    <3>2. QED
      BY <2>1, <3>1, LeastElement
  <2>3. k # 0 /\ k \in 0..m
    BY <1>1, <1>9, <2>2
  <2>4. k - 1 \in 0..m /\ upto[k - 1] \in Lists
    BY <2>2, <2>3
  <2>5. Append(upto[k - 1], k) \in Lists
    BY <2>3, <2>4, AppendProperties
  <2>6. QED
    <3> HIDE DEF Lists
    <3>1. upto[k] \in Lists
      BY <1>9, <2>3, <2>4, <2>5
    <3>2. QED
      BY <2>2, <3>1
<1>11. Upto(upto, S, m)
  <2>1. DOMAIN upto = 0..m
    <3> HIDE DEF none
    <3>1. QED
      BY <1>8
  <2>2. upto = [k \in 0..m |-> upto[k]]
    <3> HIDE DEF none
    <3>1. QED
      BY <1>8
  <2>3. upto \in [0..m -> Seq(Nat)]
    BY <1>10, <2>2
  <2>4. \A k \in 1..m : k \in 0..m /\ k # 0
    OBVIOUS
  <2>5. 0 \in 0..m
    OBVIOUS
  <2>6. QED
    BY <1>9, <2>3, <2>4, <2>5 DEF Upto
<1>12. QED
  BY <1>7, <1>11

\* InOrder puts them in order.
LEMMA InOrderOrdered ==
    ASSUME NEW S, NEW m \in Nat
    PROVE  Ordered(InOrder(S, m), S, m)
<1>1. PICK f : Upto(f, S, m) /\ InOrder(S, m) = f[m]
  BY InOrderUpto
<1> DEFINE Bad == {k \in 0..m : ~Ordered(f[k], S, k)}
<1>2. Bad = {}
  <2>1. SUFFICES ASSUME Bad # {}
                 PROVE  FALSE
    OBVIOUS
  <2>2. PICK k \in Bad : \A j \in Bad : k <= j
    <3>1. Bad \in SUBSET Nat
      OBVIOUS
    <3> HIDE DEF Bad
    <3>2. QED
      BY <2>1, <3>1, LeastElement
  <2>3. CASE k = 0
    <3>1. f[k] = <<>>
      BY <1>1, <2>3 DEF Upto
    <3>2. Ordered(f[k], S, k)
      BY <2>3, <3>1, EmptySeq DEF Ordered
    <3>3. QED
      BY <2>2, <3>2
  <2>4. CASE k # 0
    <3> DEFINE s == f[k - 1]
    <3>1. k \in 1..m /\ k - 1 \in 0..m /\ Ordered(s, S, k - 1)
      BY <2>2, <2>4
    <3>2. f[k] = IF k \in S THEN Append(s, k) ELSE s
      BY <1>1, <3>1 DEF Upto
    <3> HIDE DEF s
    <3>3. s \in Seq(Nat) /\ Len(s) \in Nat /\ k \in Nat /\ \A i \in 1..Len(s) : s[i] \in Nat
      BY <3>1, LenProperties, ElementOfSeq DEF Ordered
    <3>4. CASE k \notin S
      <4>1. Ordered(s, S, k)
        BY <3>1, <3>3, <3>4 DEF Ordered
      <4>2. QED
        BY <2>2, <3>2, <3>4, <4>1
    <3>5. CASE k \in S
      <4> DEFINE u == Append(s, k)
      <4>1. /\ u \in Seq(Nat) /\ Len(u) = Len(s) + 1 /\ u[Len(s) + 1] = k
            /\ \A i \in 1..Len(s) : u[i] = s[i]
        BY <3>3, AppendKeeps
      <4> HIDE DEF u
      <4>2. \A i \in 1..Len(u) : i = Len(s) + 1 \/ i \in 1..Len(s)
        BY <3>3, <4>1
      <4>3. \A i \in 1..Len(s) : s[i] \in S /\ s[i] \in 1..(k - 1) /\ s[i] < k /\ s[i] \in 1..k
        BY <3>1, <3>3 DEF Ordered
      <4>4. ASSUME NEW i \in 1..Len(u), NEW j \in 1..Len(u), i < j
            PROVE  u[i] < u[j]
        <5>1. i \in 1..Len(s)
          BY <3>3, <4>1, <4>4
        <5>2. CASE j \in 1..Len(s)
          BY <3>1, <4>1, <4>4, <5>1, <5>2 DEF Ordered
        <5>3. CASE j = Len(s) + 1
          BY <4>1, <4>3, <5>1, <5>3
        <5>4. QED
          BY <4>2, <5>2, <5>3
      <4>5. ASSUME NEW i \in 1..Len(u)
            PROVE  u[i] \in S /\ u[i] \in 1..k
        <5>1. k \in 1..k
          BY <3>1
        <5>2. CASE i \in 1..Len(s)
          BY <4>1, <4>3, <5>2
        <5>3. CASE i = Len(s) + 1
          BY <3>5, <4>1, <5>1, <5>3
        <5>4. QED
          BY <4>2, <5>2, <5>3
      <4>6. ASSUME NEW q \in 1..k, q \in S
            PROVE  \E i \in 1..Len(u) : u[i] = q
        <5>1. CASE q = k
          BY <3>3, <4>1, <5>1
        <5>2. CASE q # k
          <6>1. q \in 1..(k - 1)
            BY <3>3, <5>2
          <6>2. PICK i \in 1..Len(s) : s[i] = q
            BY <3>1, <4>6, <6>1 DEF Ordered
          <6>3. i \in 1..Len(u) /\ u[i] = q
            BY <3>3, <4>1, <6>2
          <6>4. QED
            BY <6>3
        <5>3. QED
          BY <5>1, <5>2
      <4>7. Ordered(u, S, k)
        BY <4>1, <4>4, <4>5, <4>6 DEF Ordered
      <4>8. QED
        BY <2>2, <3>2, <3>5, <4>7 DEF u
    <3>6. QED
      BY <3>4, <3>5
  <2>5. QED
    BY <2>3, <2>4
<1>3. m \in 0..m
  OBVIOUS
<1>4. QED
  BY <1>1, <1>2, <1>3

\* There is one order only.
LEMMA OrderedPrefix ==
    ASSUME NEW S, NEW m \in Nat, NEW s, NEW u, Ordered(s, S, m), Ordered(u, S, m),
           NEW i \in 1..Len(s)
    PROVE  i \in 1..Len(u) /\ u[i] = s[i]
<1> DEFINE Bad == {j \in 1..Len(s) : ~(j \in 1..Len(u) /\ u[j] = s[j])}
<1>0. /\ Len(s) \in Nat /\ Len(u) \in Nat
      /\ \A j \in 1..Len(s) : s[j] \in Nat
      /\ \A j \in 1..Len(u) : u[j] \in Nat
  BY LenProperties, ElementOfSeq DEF Ordered
<1>1. SUFFICES ASSUME Bad # {}
               PROVE  FALSE
  OBVIOUS
<1>2. PICK k \in Bad : \A j \in Bad : k <= j
  <2>1. Bad \in SUBSET Nat
    OBVIOUS
  <2> HIDE DEF Bad
  <2>2. QED
    BY <1>1, <2>1, LeastElement
<1>3. k \in 1..Len(s) /\ \A j \in 1..Len(s) : j < k => j \in 1..Len(u) /\ u[j] = s[j]
  <2>1. \A j \in 1..Len(s) : j < k => j \notin Bad
    BY <1>0, <1>2
  <2>2. QED
    BY <1>2, <2>1
<1>4. PICK q \in 1..Len(u) : u[q] = s[k]
  BY <1>3 DEF Ordered
<1>5. ~(q < k)
  <2>1. SUFFICES ASSUME q < k
                 PROVE  FALSE
    OBVIOUS
  <2>2. q \in 1..Len(s)
    BY <1>0, <1>3, <2>1
  <2>3. u[q] = s[q] /\ s[q] < s[k]
    BY <1>3, <2>1, <2>2 DEF Ordered
  <2>4. QED
    BY <1>0, <1>3, <1>4, <2>2, <2>3
<1>6. q # k
  BY <1>2, <1>4
<1>7. k \in 1..Len(u) /\ u[k] < s[k]
  BY <1>0, <1>3, <1>4, <1>5, <1>6, SMTT(30) DEF Ordered
<1>8. PICK r \in 1..Len(s) : s[r] = u[k]
  BY <1>7 DEF Ordered
<1>9. r < k
  <2>1. s[r] < s[k]
    BY <1>7, <1>8
  <2>2. k < r => s[k] < s[r]
    BY <1>3 DEF Ordered
  <2>3. s[r] \in Nat /\ s[k] \in Nat /\ r \in Nat /\ k \in Nat
    BY <1>0, <1>3
  <2>4. QED
    BY <2>1, <2>2, <2>3
<1>10. u[r] = u[k] /\ r \in 1..Len(u)
  BY <1>3, <1>8, <1>9
<1>11. QED
  BY <1>0, <1>7, <1>9, <1>10 DEF Ordered

LEMMA OrderedUnique ==
    ASSUME NEW S, NEW m \in Nat, NEW s, NEW u, Ordered(s, S, m), Ordered(u, S, m)
    PROVE  s = u
<1>1. s \in Seq(Nat) /\ u \in Seq(Nat) /\ Len(s) \in Nat /\ Len(u) \in Nat
  BY LenProperties DEF Ordered
<1>2. \A i \in 1..Len(s) : i \in 1..Len(u) /\ u[i] = s[i]
  BY OrderedPrefix
<1>3. \A i \in 1..Len(u) : i \in 1..Len(s)
  BY OrderedPrefix
<1>4. Len(s) = Len(u)
  <2>1. Len(s) # 0 => Len(s) \in 1..Len(u)
    BY <1>1, <1>2
  <2>2. Len(u) # 0 => Len(u) \in 1..Len(s)
    BY <1>1, <1>3
  <2>3. QED
    BY <1>1, <2>1, <2>2
<1>5. QED
  BY <1>1, <1>2, <1>4, SeqEqual

\* What is in order is InOrder.
LEMMA InOrderIs ==
    ASSUME NEW S, NEW m \in Nat, NEW s, Ordered(s, S, m)
    PROVE  InOrder(S, m) = s
BY InOrderOrdered, OrderedUnique

LEMMA InOrderSeq ==
    ASSUME NEW S, NEW m \in Nat, NEW s, s = InOrder(S, m)
    PROVE  /\ s \in Seq(Nat) /\ Len(s) \in Nat /\ DOMAIN s = 1..Len(s)
           /\ \A i \in 1..Len(s) : s[i] \in S /\ s[i] \in 1..m
           /\ \A i, j \in 1..Len(s) : i < j => s[i] < s[j]
           /\ \A k \in 1..m : k \in S => \E i \in 1..Len(s) : s[i] = k
           /\ \A i, j \in 1..Len(s) : s[i] = s[j] => i = j
<1>1. Ordered(s, S, m)
  BY InOrderOrdered
<1>2. /\ s \in Seq(Nat) /\ Len(s) \in Nat /\ DOMAIN s = 1..Len(s)
      /\ \A i \in 1..Len(s) : s[i] \in Nat
  BY <1>1, LenProperties, ElementOfSeq DEF Ordered
<1>3. ASSUME NEW i \in 1..Len(s), NEW j \in 1..Len(s), s[i] = s[j]
      PROVE  i = j
  <2>1. /\ i < j => s[i] < s[j]
        /\ j < i => s[j] < s[i]
    BY <1>1 DEF Ordered
  <2>2. s[i] \in Nat /\ s[j] \in Nat /\ i \in Nat /\ j \in Nat
    BY <1>2
  <2>3. QED
    BY <1>3, <2>1, <2>2
<1>4. QED
  BY <1>1, <1>2, <1>3 DEF Ordered

\* Only the numbers up to the bound matter.
LEMMA InOrderSame ==
    ASSUME NEW S, NEW m \in Nat, NEW T, NEW n \in Nat,
           \A k \in Nat \ {0} : k \in S /\ k <= m <=> k \in T /\ k <= n
    PROVE  InOrder(T, n) = InOrder(S, m)
<1> DEFINE s == InOrder(S, m)
<1>1. /\ s \in Seq(Nat) /\ Len(s) \in Nat
      /\ \A i \in 1..Len(s) : s[i] \in S /\ s[i] \in 1..m
      /\ \A i, j \in 1..Len(s) : i < j => s[i] < s[j]
      /\ \A k \in 1..m : k \in S => \E i \in 1..Len(s) : s[i] = k
  BY InOrderSeq
<1> HIDE DEF s
<1>2. \A i \in 1..Len(s) : s[i] \in T /\ s[i] \in 1..n
  BY <1>1
<1>3. \A k \in 1..n : k \in T => k \in 1..m /\ k \in S
  OBVIOUS
<1>4. Ordered(s, T, n)
  BY <1>1, <1>2, <1>3 DEF Ordered
<1>5. QED
  BY <1>4, InOrderIs DEF s

\* A number beyond all of them comes last.
LEMMA InOrderMore ==
    ASSUME NEW S, NEW m \in Nat, NEW T, NEW n \in Nat, NEW x \in 1..n,
           \A k \in 1..n : k \in T <=> (k \in S /\ k <= m) \/ k = x,
           m <= n, \A k \in 1..m : k \in S => k < x
    PROVE  InOrder(T, n) = Append(InOrder(S, m), x)
<1> DEFINE s == InOrder(S, m)
           u == Append(s, x)
<1>1. /\ s \in Seq(Nat) /\ Len(s) \in Nat
      /\ \A i \in 1..Len(s) : s[i] \in S /\ s[i] \in 1..m
      /\ \A i, j \in 1..Len(s) : i < j => s[i] < s[j]
      /\ \A k \in 1..m : k \in S => \E i \in 1..Len(s) : s[i] = k
  BY InOrderSeq
<1> HIDE DEF s
<1>2. /\ u \in Seq(Nat) /\ Len(u) = Len(s) + 1 /\ u[Len(s) + 1] = x
      /\ \A i \in 1..Len(s) : u[i] = s[i]
  BY <1>1, AppendKeeps
<1> HIDE DEF u
<1>3. \A i \in 1..Len(u) : i = Len(s) + 1 \/ i \in 1..Len(s)
  BY <1>1, <1>2
<1>4. ASSUME NEW i \in 1..Len(u), NEW j \in 1..Len(u), i < j
      PROVE  u[i] < u[j]
  <2>1. i \in 1..Len(s)
    BY <1>1, <1>2, <1>4
  <2>2. CASE j \in 1..Len(s)
    BY <1>1, <1>2, <1>4, <2>1, <2>2
  <2>3. CASE j = Len(s) + 1
    BY <1>1, <1>2, <2>1, <2>3
  <2>4. QED
    BY <1>3, <2>2, <2>3
<1>5. ASSUME NEW i \in 1..Len(u)
      PROVE  u[i] \in T /\ u[i] \in 1..n
  <2>1. CASE i \in 1..Len(s)
    <3>1. u[i] \in S /\ u[i] \in 1..m
      BY <1>1, <1>2, <2>1
    <3>2. QED
      BY <3>1
  <2>2. CASE i = Len(s) + 1
    BY <1>2, <2>2
  <2>3. QED
    BY <1>3, <2>1, <2>2
<1>6. ASSUME NEW k \in 1..n, k \in T
      PROVE  \E i \in 1..Len(u) : u[i] = k
  <2>1. CASE k = x
    BY <1>1, <1>2, <2>1
  <2>2. CASE k # x
    <3>1. k \in 1..m /\ k \in S
      BY <1>6, <2>2
    <3>2. PICK i \in 1..Len(s) : s[i] = k
      BY <1>1, <3>1
    <3>3. i \in 1..Len(u) /\ u[i] = k
      BY <1>1, <1>2, <3>2
    <3>4. QED
      BY <3>3
  <2>3. QED
    BY <2>1, <2>2
<1>7. Ordered(u, T, n)
  BY <1>2, <1>4, <1>5, <1>6 DEF Ordered
<1>8. QED
  BY <1>7, InOrderIs DEF u, s

\* One of them goes.
LEMMA InOrderLess ==
    ASSUME NEW S, NEW m \in Nat, NEW T, NEW i \in 1..Len(InOrder(S, m)),
           \A k \in 1..m : k \in T <=> k \in S /\ k # InOrder(S, m)[i]
    PROVE  InOrder(T, m) = RemoveAt(InOrder(S, m), i)
<1> DEFINE s == InOrder(S, m)
           u == RemoveAt(s, i)
<1>1. /\ s \in Seq(Nat) /\ Len(s) \in Nat
      /\ \A j \in 1..Len(s) : s[j] \in S /\ s[j] \in 1..m
      /\ \A j, q \in 1..Len(s) : j < q => s[j] < s[q]
      /\ \A k \in 1..m : k \in S => \E j \in 1..Len(s) : s[j] = k
      /\ \A j, q \in 1..Len(s) : s[j] = s[q] => j = q
  BY InOrderSeq
<1>0. i \in 1..Len(s) /\ \A k \in 1..m : k \in T <=> k \in S /\ k # s[i]
  OBVIOUS
<1> HIDE DEF s
<1>2. /\ u \in Seq(Nat) /\ Len(u) = Len(s) - 1
      /\ \A j \in 1..(Len(s) - 1) : u[j] = IF j < i THEN s[j] ELSE s[j + 1]
  BY <1>0, <1>1, RemoveAtIsErase
<1> HIDE DEF u
<1> DEFINE up(j) == IF j < i THEN j ELSE j + 1
<1>3. ASSUME NEW j \in 1..Len(u)
      PROVE  up(j) \in 1..Len(s) /\ up(j) # i /\ u[j] = s[up(j)]
  <2>1. j \in 1..(Len(s) - 1) /\ j \in Nat /\ i \in Nat
    BY <1>0, <1>1, <1>2
  <2>2. up(j) \in 1..Len(s) /\ up(j) # i
    BY <1>1, <2>1
  <2>3. u[j] = s[up(j)]
    BY <1>2, <2>1
  <2>4. QED
    BY <2>2, <2>3
<1>4. ASSUME NEW j \in 1..Len(u), NEW q \in 1..Len(u), j < q
      PROVE  up(j) < up(q)
  <2>1. j \in Nat /\ q \in Nat /\ i \in Nat
    BY <1>0, <1>1, <1>2
  <2>2. QED
    BY <1>4, <2>1
<1> HIDE DEF up
<1>5. \A j, q \in 1..Len(u) : j < q => u[j] < u[q]
  BY <1>1, <1>3, <1>4, ZenonT(30)
<1>6. ASSUME NEW j \in 1..Len(u)
      PROVE  u[j] \in T /\ u[j] \in 1..m
  <2>1. u[j] \in S /\ u[j] \in 1..m /\ u[j] # s[i]
    BY <1>0, <1>1, <1>3
  <2>2. QED
    BY <1>0, <2>1
<1>7. ASSUME NEW k \in 1..m, k \in T
      PROVE  \E j \in 1..Len(u) : u[j] = k
  <2>1. k \in S /\ k # s[i]
    BY <1>0, <1>7
  <2>2. PICK q \in 1..Len(s) : s[q] = k
    BY <1>1, <2>1
  <2>3. q # i
    BY <2>1, <2>2
  <2>4. CASE q < i
    <3>1. q \in 1..(Len(s) - 1) /\ q \in 1..Len(u)
      BY <1>0, <1>1, <1>2, <2>4
    <3>2. u[q] = k
      BY <1>2, <2>2, <2>4, <3>1
    <3>3. QED
      BY <3>1, <3>2
  <2>5. CASE q > i
    <3> DEFINE j == q - 1
    <3>1. j \in 1..(Len(s) - 1) /\ ~(j < i) /\ j + 1 = q /\ j \in 1..Len(u)
      BY <1>0, <1>1, <1>2, <2>5
    <3> HIDE DEF j
    <3>2. u[j] = s[j + 1]
      BY <1>2, <3>1
    <3>3. u[j] = s[q]
      BY <3>1, <3>2
    <3>4. QED
      BY <2>2, <3>1, <3>3
  <2>6. QED
    BY <1>0, <1>1, <2>3, <2>4, <2>5
<1>8. Ordered(u, T, m)
  BY <1>2, <1>5, <1>6, <1>7 DEF Ordered
<1>9. QED
  BY <1>8, InOrderIs DEF u, s

\* All of them.
LEMMA InOrderAll ==
    ASSUME NEW S, NEW m \in Nat, \A k \in 1..m : k \in S
    PROVE  InOrder(S, m) = [k \in 1..m |-> k]
<1> DEFINE s == [k \in 1..m |-> k]
<1>1. s \in Seq(Nat) /\ Len(s) = m /\ \A k \in 1..m : s[k] = k
  OBVIOUS
<1> HIDE DEF s
<1>2. Ordered(s, S, m)
  BY <1>1 DEF Ordered
<1>3. QED
  BY <1>2, InOrderIs DEF s

-----------------------------------------------------------------------------
(* The tree of an item *)

\* The trees of all items, from the trees that are a level shallower.
Row(h, n, f) ==
    [x \in Ids |->
       Node(h[x].kind, h[x].name, h[x].val, h[x].policy,
            IF n = 0 THEN <<>> ELSE [k \in DOMAIN h[x].kids |-> f[n - 1][h[x].kids[k]]])]

Rows(h, m, f) == f = [n \in 0..m |-> Row(h, n, f)]

LEMMA RowsExist ==
    ASSUME NEW h, NEW m \in Nat
    PROVE  \E f : Rows(h, m, f)
<1> DEFINE Bad == {j \in 0..m : ~\E f : Rows(h, j, f)}
<1>1. Bad = {}
  <2>1. SUFFICES ASSUME Bad # {}
                 PROVE  FALSE
    OBVIOUS
  <2>2. PICK j \in Bad : \A i \in Bad : j <= i
    <3>1. Bad \in SUBSET Nat
      OBVIOUS
    <3> HIDE DEF Bad
    <3>2. QED
      BY <2>1, <3>1, LeastElement
  <2>3. j \in 0..m /\ ~\E f : Rows(h, j, f)
    OBVIOUS
  <2>4. CASE j = 0
    <3> DEFINE f == [n \in 0..0 |-> Row(h, 0, h)]
    <3>1. Row(h, 0, h) = Row(h, 0, f)
      BY DEF Row
    <3>2. \A n \in 0..0 : n = 0
      OBVIOUS
    <3>3. f = [n \in 0..0 |-> Row(h, n, f)]
      <4> DEFINE a == Row(h, 0, h)
      <4>1. \A n \in 0..0 : Row(h, n, f) = Row(h, 0, h)
        BY <3>1, <3>2
      <4> HIDE DEF f
      <4>2. [n \in 0..0 |-> Row(h, n, f)] = [n \in 0..0 |-> Row(h, 0, h)]
        BY <4>1
      <4>3. QED
        BY <4>2 DEF f
    <3>4. QED
      BY <2>3, <2>4, <3>3 DEF Rows
  <2>5. CASE j # 0
    <3>1. j \in 1..m /\ j - 1 \in 0..m /\ j - 1 \notin Bad
      BY <2>2, <2>5
    <3>2. PICK f : Rows(h, j - 1, f)
      BY <3>1
    <3> DEFINE g == [n \in 0..j |-> IF n = j THEN Row(h, j, f) ELSE f[n]]
    <3>a. /\ j \in 0..j /\ j \in Nat /\ \A n \in 0..(j - 1) : n \in 0..j /\ n # j
      BY <3>1
    <3>b. \A n \in 0..(j - 1) : f[n] = Row(h, n, f)
      BY <3>2 DEF Rows
    <3>3. /\ DOMAIN g = 0..j /\ g[j] = Row(h, j, f)
          /\ \A n \in 0..(j - 1) : g[n] = f[n] /\ f[n] = Row(h, n, f)
      BY <3>a, <3>b
    <3>4. g = [n \in 0..j |-> g[n]]
      OBVIOUS
    <3> HIDE DEF g
    <3>5. ASSUME NEW n \in 0..j
          PROVE  g[n] = Row(h, n, g)
      <4>1. n # 0 => g[n - 1] = f[n - 1]
        BY <3>1, <3>3
      <4>2. Row(h, n, g) = Row(h, n, f)
        BY <4>1 DEF Row
      <4>3. n = j \/ n \in 0..(j - 1)
        BY <3>1
      <4>4. QED
        BY <3>3, <4>2, <4>3
    <3>6. Rows(h, j, g)
      BY <3>4, <3>5 DEF Rows
    <3>7. QED
      BY <2>3, <3>6
  <2>6. QED
    BY <2>4, <2>5
<1>2. m \in 0..m
  OBVIOUS
<1>3. QED
  BY <1>1, <1>2

LEMMA IdsCounted == Cardinality(Ids) \in Nat
BY AddressesAssumption, FS_CardinalityType

LEMMA TreesToIs ==
    ASSUME NEW h, NEW n \in 0..Cardinality(Ids), NEW x \in Ids
    PROVE  TreesTo(h)[n][x] =
             Node(h[x].kind, h[x].name, h[x].val, h[x].policy,
                  IF n = 0 THEN <<>>
                  ELSE [k \in DOMAIN h[x].kids |-> TreesTo(h)[n - 1][h[x].kids[k]]])
<1> DEFINE m == Cardinality(Ids)
           t == TreesTo(h)
<1>1. m \in Nat
  BY IdsCounted
<1>2. t = CHOOSE f : Rows(h, m, f)
  BY DEF TreesTo, Rows, Row
<1>3. Rows(h, m, t)
  <2> HIDE DEF t, m
  <2>1. QED
    BY <1>1, <1>2, RowsExist
<1> HIDE DEF t, m
<1>4. n \in 0..m
  BY DEF m
<1>5. t[n] = Row(h, n, t)
  BY <1>3, <1>4 DEF Rows
<1>6. t[n][x] = Node(h[x].kind, h[x].name, h[x].val, h[x].policy,
                  IF n = 0 THEN <<>>
                  ELSE [k \in DOMAIN h[x].kids |-> t[n - 1][h[x].kids[k]]])
  BY <1>5 DEF Row
<1>7. QED
  BY <1>6 DEF t

-----------------------------------------------------------------------------

\* r goes down from every item in S to those it holds, which are in S too.
Down(h, S, r) ==
    /\ S \subseteq Ids /\ r \in [Ids -> Nat]
    /\ \A x \in S : /\ h[x].kids \in Seq(Ids)
                    /\ r[x] < Cardinality(Ids)
                    /\ \A k \in 1..Len(h[x].kids) : /\ h[x].kids[k] \in S
                                                    /\ r[h[x].kids[k]] < r[x]

\* T gives every item in S the tree made of its own fields and the trees T gives
\* the items it holds.
Fixes(h, S, T) ==
    \A x \in S : T[x] = Node(h[x].kind, h[x].name, h[x].val, h[x].policy,
                             [k \in DOMAIN h[x].kids |-> T[h[x].kids[k]]])

\* Deep enough, going deeper changes nothing.
LEMMA TreesSettle ==
    ASSUME NEW h, NEW S, NEW r, Down(h, S, r), NEW n \in 0..Cardinality(Ids),
           NEW x \in S, r[x] <= n
    PROVE  TreesTo(h)[n][x] = TreesTo(h)[Cardinality(Ids)][x]
<1> DEFINE N   == Cardinality(Ids)
           t   == TreesTo(h)
           Bad == {j \in 0..N : \E y \in S, i \in j..N : r[y] <= j /\ t[i][y] # t[j][y]}
<1>1. N \in Nat
  BY IdsCounted
<1>2. ASSUME NEW y \in S
      PROVE  /\ y \in Ids /\ h[y].kids \in Seq(Ids) /\ Len(h[y].kids) \in Nat
             /\ DOMAIN h[y].kids = 1..Len(h[y].kids)
             /\ r[y] \in Nat
             /\ \A k \in 1..Len(h[y].kids) : /\ h[y].kids[k] \in S
                                             /\ r[h[y].kids[k]] \in Nat
                                             /\ r[h[y].kids[k]] < r[y]
  <2>1. h[y].kids \in Seq(Ids)
    BY DEF Down
  <2>2. Len(h[y].kids) \in Nat /\ DOMAIN h[y].kids = 1..Len(h[y].kids)
    BY <2>1, LenProperties
  <2>3. QED
    BY <2>1, <2>2 DEF Down
<1>3. ASSUME NEW j \in 0..N, NEW y \in S
      PROVE  t[j][y] = Node(h[y].kind, h[y].name, h[y].val, h[y].policy,
                            IF j = 0 THEN <<>>
                            ELSE [k \in DOMAIN h[y].kids |-> t[j - 1][h[y].kids[k]]])
  BY <1>2, TreesToIs
<1> HIDE DEF t, N
<1>4. Bad = {}
  <2>1. SUFFICES ASSUME Bad # {}
                 PROVE  FALSE
    OBVIOUS
  <2>2. PICK j \in Bad : \A i \in Bad : j <= i
    <3>1. Bad \in SUBSET Nat
      OBVIOUS
    <3> HIDE DEF Bad
    <3>2. QED
      BY <2>1, <3>1, LeastElement
  <2>3. PICK y \in S, i \in j..N : j \in 0..N /\ r[y] <= j /\ t[i][y] # t[j][y]
    OBVIOUS
  <2>4. i \in 0..N /\ i # j
    BY <1>1, <2>3
  <2>5. i # 0
    BY <1>1, <2>3, <2>4
  <2>6. CASE j = 0
    <3>1. DOMAIN h[y].kids = {}
      <4>1. /\ Len(h[y].kids) \in Nat /\ DOMAIN h[y].kids = 1..Len(h[y].kids)
            /\ r[y] \in Nat
            /\ \A k \in 1..Len(h[y].kids) : /\ r[h[y].kids[k]] \in Nat
                                            /\ r[h[y].kids[k]] < r[y]
        BY <1>2
      <4> HIDE DEF Bad
      <4>2. r[y] = 0
        BY <2>3, <2>6, <4>1
      <4>3. 1..Len(h[y].kids) = {}
        BY <4>1, <4>2
      <4>4. QED
        BY <4>1, <4>3
    <3>2. [k \in DOMAIN h[y].kids |-> t[i - 1][h[y].kids[k]]] = <<>>
      BY <3>1
    <3>3. t[i][y] = Node(h[y].kind, h[y].name, h[y].val, h[y].policy, <<>>)
      BY <1>3, <2>4, <2>5, <3>2, ZenonT(30)
    <3>4. t[j][y] = Node(h[y].kind, h[y].name, h[y].val, h[y].policy, <<>>)
      BY <1>3, <2>3, <2>6
    <3>5. QED
      BY <2>3, <3>3, <3>4
  <2>7. CASE j # 0
    <3>1. j - 1 \in 0..N /\ j - 1 \notin Bad /\ i - 1 \in (j - 1)..N
      BY <1>1, <2>2, <2>3, <2>4, <2>7
    <3>2. \A k \in 1..Len(h[y].kids) : /\ h[y].kids[k] \in S
                                       /\ r[h[y].kids[k]] <= j - 1
      BY <1>2, <2>3
    <3>3. \A k \in 1..Len(h[y].kids) : t[i - 1][h[y].kids[k]] = t[j - 1][h[y].kids[k]]
      BY <3>1, <3>2
    <3>4. [k \in DOMAIN h[y].kids |-> t[i - 1][h[y].kids[k]]] =
          [k \in DOMAIN h[y].kids |-> t[j - 1][h[y].kids[k]]]
      BY <1>2, <3>3
    <3> DEFINE a == [k \in DOMAIN h[y].kids |-> t[i - 1][h[y].kids[k]]]
               b == [k \in DOMAIN h[y].kids |-> t[j - 1][h[y].kids[k]]]
    <3>5. t[i][y] = t[j][y]
      <4>1. t[i][y] = Node(h[y].kind, h[y].name, h[y].val, h[y].policy, a)
        BY <1>3, <2>4, <2>5
      <4>2. t[j][y] = Node(h[y].kind, h[y].name, h[y].val, h[y].policy, b)
        BY <1>3, <2>3, <2>7
      <4>3. a = b
        BY <3>4
      <4>4. QED
        BY <4>1, <4>2, <4>3
    <3>6. QED
      BY <2>3, <3>5
  <2>8. QED
    BY <2>6, <2>7
<1>5. n \in 0..N /\ n \notin Bad /\ N \in n..N
  BY <1>1, <1>4 DEF N
<1>6. t[N][x] = t[n][x]
  BY <1>5
<1>7. QED
  BY <1>6 DEF t, N

\* The tree of an item is made of its fields and the trees of its items.
LEMMA TreesGrown ==
    ASSUME NEW h, NEW S, NEW r, Down(h, S, r)
    PROVE  Fixes(h, S, [x \in Ids |-> TreeAt(h, x)])
<1> DEFINE N == Cardinality(Ids)
           t == TreesTo(h)
           T == [x \in Ids |-> TreeAt(h, x)]
<1>1. SUFFICES ASSUME NEW x \in S
               PROVE  T[x] = Node(h[x].kind, h[x].name, h[x].val, h[x].policy,
                                  [k \in DOMAIN h[x].kids |-> T[h[x].kids[k]]])
  BY DEF Fixes
<1>2. /\ x \in Ids /\ h[x].kids \in Seq(Ids) /\ r[x] \in Nat /\ r[x] < N
      /\ DOMAIN h[x].kids = 1..Len(h[x].kids)
  BY LenProperties DEF Down
<1>3. N \in Nat /\ N \in 0..N
  BY IdsCounted
<1>4. \A y \in Ids : T[y] = t[N][y]
  BY DEF TreeAt
<1>5. \A k \in 1..Len(h[x].kids) : /\ h[x].kids[k] \in S /\ h[x].kids[k] \in Ids
                                   /\ r[h[x].kids[k]] \in Nat
                                   /\ r[h[x].kids[k]] < r[x]
  BY DEF Down
<1>6. t[N][x] = Node(h[x].kind, h[x].name, h[x].val, h[x].policy,
                     IF N = 0 THEN <<>>
                     ELSE [k \in DOMAIN h[x].kids |-> t[N - 1][h[x].kids[k]]])
  BY <1>2, <1>3, TreesToIs
<1>7. N # 0
  <2>1. N = 0 => Ids = {}
    BY AddressesAssumption, FS_EmptySet
  <2>2. QED
    BY <1>2, <2>1
<1>8. ASSUME NEW k \in 1..Len(h[x].kids)
      PROVE  t[N - 1][h[x].kids[k]] = T[h[x].kids[k]]
  <2>1. N - 1 \in 0..N /\ r[h[x].kids[k]] <= N - 1
    BY <1>2, <1>3, <1>5, <1>7
  <2>2. t[N - 1][h[x].kids[k]] = t[N][h[x].kids[k]]
    BY <1>5, <2>1, TreesSettle
  <2>3. QED
    BY <1>4, <1>5, <2>2
<1> DEFINE a == [k \in DOMAIN h[x].kids |-> t[N - 1][h[x].kids[k]]]
           b == [k \in DOMAIN h[x].kids |-> T[h[x].kids[k]]]
<1>9. a = b
  <2> HIDE DEF t, N, T
  <2>1. QED
    BY <1>2, <1>8
<1>10. t[N][x] = Node(h[x].kind, h[x].name, h[x].val, h[x].policy, a)
  BY <1>6, <1>7
<1>11. T[x] = Node(h[x].kind, h[x].name, h[x].val, h[x].policy, b)
  <2> HIDE DEF t, N, T, a, b
  <2>1. QED
    BY <1>2, <1>4, <1>9, <1>10
<1>12. QED
  BY <1>11

\* There are no other trees.
LEMMA TreesUnique ==
    ASSUME NEW h, NEW S, NEW r, Down(h, S, r), NEW T, Fixes(h, S, T), NEW x \in S
    PROVE  TreeAt(h, x) = T[x]
<1> DEFINE U   == [y \in Ids |-> TreeAt(h, y)]
           Bad == {n \in Nat : \E y \in S : r[y] = n /\ U[y] # T[y]}
<1>1. Fixes(h, S, U)
  BY TreesGrown
<1>2. S \subseteq Ids /\ \A y \in S : r[y] \in Nat
  BY DEF Down
<1>3. U[x] = TreeAt(h, x)
  BY <1>2
<1> HIDE DEF U
<1>4. Bad = {}
  <2>1. SUFFICES ASSUME Bad # {}
                 PROVE  FALSE
    OBVIOUS
  <2>2. PICK n \in Bad : \A i \in Bad : n <= i
    <3>1. Bad \in SUBSET Nat
      OBVIOUS
    <3> HIDE DEF Bad
    <3>2. QED
      BY <2>1, <3>1, LeastElement
  <2>3. PICK y \in S : n \in Nat /\ r[y] = n /\ U[y] # T[y]
    OBVIOUS
  <2>4. /\ h[y].kids \in Seq(Ids) /\ DOMAIN h[y].kids = 1..Len(h[y].kids)
        /\ \A k \in 1..Len(h[y].kids) : /\ h[y].kids[k] \in S
                                        /\ r[h[y].kids[k]] \in Nat
                                        /\ r[h[y].kids[k]] < n
    BY <2>3, LenProperties DEF Down
  <2>5. ASSUME NEW k \in 1..Len(h[y].kids)
        PROVE  U[h[y].kids[k]] = T[h[y].kids[k]]
    <3> DEFINE z == h[y].kids[k]
    <3>1. z \in S /\ r[z] \in Nat /\ ~(n <= r[z])
      BY <2>3, <2>4
    <3>2. r[z] \notin Bad
      BY <2>2, <3>1
    <3>3. QED
      BY <3>1, <3>2
  <2> DEFINE a == [k \in DOMAIN h[y].kids |-> U[h[y].kids[k]]]
             b == [k \in DOMAIN h[y].kids |-> T[h[y].kids[k]]]
  <2>6. a = b
    BY <2>4, <2>5
  <2>7. U[y] = Node(h[y].kind, h[y].name, h[y].val, h[y].policy, a)
    BY <1>1 DEF Fixes
  <2>8. T[y] = Node(h[y].kind, h[y].name, h[y].val, h[y].policy, b)
    BY DEF Fixes
  <2>9. U[y] = T[y]
    <3> HIDE DEF a, b
    <3>1. QED
      BY <2>6, <2>7, <2>8
  <2>10. QED
    BY <2>3, <2>9
<1>5. r[x] \in Nat /\ r[x] \notin Bad
  BY <1>2, <1>4
<1>6. U[x] = T[x]
  BY <1>5
<1>7. QED
  BY <1>3, <1>6

-----------------------------------------------------------------------------
(* Heaps without cycles *)

Descends(h, r) ==
    /\ r \in [Ids -> Nat]
    /\ \A x \in Ids : h[x] # Null => \A y \in Kids(h, x) : r[y] < r[x]

\* No item holds itself, at any depth.
Acyclic(h) == \E r : Descends(h, r)

Used(h) == {x \in Ids : h[x] # Null}

\* Counting what is lower bounds the ranks.
LEMMA RanksBounded ==
    ASSUME NEW h, WellTyped(h), Closed(h), Acyclic(h)
    PROVE  \E r : Down(h, Used(h), r)
<1>1. PICK s : Descends(h, s)
  BY DEF Acyclic
<1> DEFINE Lower(x) == {y \in Ids : s[y] < s[x]}
           r == [x \in Ids |-> Cardinality(Lower(x))]
           N == Cardinality(Ids)
<1>2. s \in [Ids -> Nat]
  BY <1>1 DEF Descends
<1>3. ASSUME NEW x \in Ids
      PROVE  /\ IsFiniteSet(Lower(x)) /\ Cardinality(Lower(x)) \in Nat
             /\ Cardinality(Lower(x)) < N
  <2>1. Lower(x) \subseteq Ids \ {x} /\ IsFiniteSet(Ids) /\ x \in Ids
    BY <1>2, AddressesAssumption
  <2>2. IsFiniteSet(Ids \ {x}) /\ Cardinality(Ids \ {x}) = N - 1
    BY <2>1, FS_RemoveElement
  <2> HIDE DEF Lower
  <2>3. /\ IsFiniteSet(Lower(x)) /\ Cardinality(Lower(x)) \in Nat
        /\ Cardinality(Lower(x)) <= Cardinality(Ids \ {x})
    BY <2>1, <2>2, FS_Subset, FS_CardinalityType
  <2>4. N \in Nat
    BY IdsCounted
  <2> HIDE DEF N
  <2>5. QED
    BY <2>2, <2>3, <2>4
<1>4. ASSUME NEW x \in Ids, NEW y \in Ids, s[y] < s[x]
      PROVE  Cardinality(Lower(y)) < Cardinality(Lower(x))
  <2>1. Lower(y) \subseteq Lower(x) /\ y \in Lower(x) /\ y \notin Lower(y)
    BY <1>2, <1>4
  <2>2. IsFiniteSet(Lower(x)) /\ IsFiniteSet(Lower(y))
    BY <1>3
  <2> HIDE DEF Lower
  <2>3. Lower(y) \cup {y} \subseteq Lower(x)
    BY <2>1
  <2>4. /\ Cardinality(Lower(y) \cup {y}) = Cardinality(Lower(y)) + 1
        /\ Cardinality(Lower(y) \cup {y}) <= Cardinality(Lower(x))
    BY <2>1, <2>2, <2>3, FS_AddElement, FS_Subset
  <2>5. Cardinality(Lower(y)) \in Nat /\ Cardinality(Lower(x)) \in Nat
    BY <1>3
  <2>6. QED
    BY <2>4, <2>5
<1>5. r \in [Ids -> Nat] /\ \A x \in Ids : r[x] < N
  <2> HIDE DEF Lower, N
  <2>1. QED
    BY <1>3
<1>6. \A x, y \in Ids : s[y] < s[x] => r[y] < r[x]
  <2> HIDE DEF Lower, N
  <2>1. QED
    BY <1>4
<1> HIDE DEF r, N
<1>7. ASSUME NEW x \in Used(h)
      PROVE  /\ x \in Ids /\ h[x].kids \in Seq(Ids)
             /\ \A k \in 1..Len(h[x].kids) : /\ h[x].kids[k] \in Used(h)
                                             /\ r[h[x].kids[k]] < r[x]
  <2>1. x \in Ids /\ x \in Addresses /\ h[x] # Null
    BY DEF Used, Addresses
  <2>2. /\ h[x].kids \in Seq(Ids) /\ Kids(h, x) \subseteq Ids
        /\ Kids(h, x) = {h[x].kids[k] : k \in 1..Len(h[x].kids)}
    BY <2>1, ItemFields
  <2>3. ASSUME NEW y \in Kids(h, x)
        PROVE  y \in Used(h) /\ r[y] < r[x]
    <3>1. y \in Ids /\ y \in Addresses
      BY <2>2 DEF Addresses
    <3>2. h[y] # Null
      BY <2>1, <3>1 DEF Closed
    <3>3. s[y] < s[x]
      BY <1>1, <2>1 DEF Descends
    <3>4. QED
      BY <1>6, <2>1, <3>1, <3>2, <3>3 DEF Used
  <2>4. \A k \in 1..Len(h[x].kids) : h[x].kids[k] \in Kids(h, x)
    BY <2>2
  <2>5. QED
    BY <2>1, <2>2, <2>3, <2>4
<1>8. Used(h) \subseteq Ids
  BY DEF Used
<1>9. Down(h, Used(h), r)
  BY <1>5, <1>7, <1>8 DEF Down, N
<1>10. QED
  BY <1>9

\* What a heap and its items have to be for the trees to be what they are said
\* to be.
Sound(h) == WellTyped(h) /\ Closed(h) /\ Acyclic(h)

LEMMA TreeAtIs ==
    ASSUME NEW h, Sound(h), NEW x \in Ids, h[x] # Null
    PROVE  TreeAt(h, x) = Node(h[x].kind, h[x].name, h[x].val, h[x].policy, TreesIn(h, x))
<1> DEFINE T == [y \in Ids |-> TreeAt(h, y)]
<1>1. PICK r : Down(h, Used(h), r)
  BY RanksBounded DEF Sound
<1>2. Fixes(h, Used(h), T)
  BY <1>1, TreesGrown
<1>3. x \in Used(h)
  BY DEF Used
<1>4. \A k \in DOMAIN h[x].kids : h[x].kids[k] \in Ids
  BY <1>1, <1>3, LenProperties DEF Down
<1> DEFINE a == [k \in DOMAIN h[x].kids |-> T[h[x].kids[k]]]
<1>5. a = TreesIn(h, x)
  BY <1>4 DEF TreesIn
<1>6. T[x] = Node(h[x].kind, h[x].name, h[x].val, h[x].policy, a)
  <2> HIDE DEF T
  <2>1. QED
    BY <1>2, <1>3 DEF Fixes
<1>7. T[x] = TreeAt(h, x)
  OBVIOUS
<1> HIDE DEF T, a
<1>8. QED
  BY <1>5, <1>6, <1>7

\* Items that are as they were, down to the last one below them, have the tree
\* they had.
LEMMA TreeAtSame ==
    ASSUME NEW h, Sound(h), NEW g, NEW S \in SUBSET Ids,
           \A x \in S : h[x] # Null /\ g[x] = h[x] /\ Kids(h, x) \subseteq S,
           NEW x \in S
    PROVE  TreeAt(g, x) = TreeAt(h, x)
<1> DEFINE T == [y \in Ids |-> TreeAt(h, y)]
<1>1. PICK r : Down(h, Used(h), r)
  BY RanksBounded DEF Sound
<1>2. Fixes(h, Used(h), T)
  BY <1>1, TreesGrown
<1>3. S \subseteq Used(h)
  BY DEF Used
<1> HIDE DEF T
<1>4. Fixes(g, S, T)
  BY <1>2, <1>3 DEF Fixes
<1>5. Down(g, S, r)
  <2>1. ASSUME NEW y \in S
        PROVE  /\ g[y].kids \in Seq(Ids)
               /\ r[y] < Cardinality(Ids)
               /\ \A k \in 1..Len(g[y].kids) : /\ g[y].kids[k] \in S
                                               /\ r[g[y].kids[k]] < r[y]
    <3>1. /\ g[y] = h[y] /\ y \in Used(h) /\ Kids(h, y) \subseteq S /\ h[y] # Null
          /\ y \in Addresses
      BY <1>3 DEF Addresses
    <3>2. Kids(h, y) = {h[y].kids[k] : k \in 1..Len(h[y].kids)}
      BY <3>1, ItemFields DEF Sound
    <3>3. QED
      BY <1>1, <3>1, <3>2 DEF Down
  <2>2. QED
    BY <1>1, <2>1 DEF Down
<1>6. TreeAt(g, x) = T[x]
  BY <1>4, <1>5, TreesUnique
<1>7. T[x] = TreeAt(h, x)
  BY DEF T
<1>8. QED
  BY <1>6, <1>7

-----------------------------------------------------------------------------
(* When two items are equal *)

EqualRow(h, n, f) ==
    {q \in Ids \X Ids :
        /\ SameShape(h, q[1], q[2])
        /\ \A k \in DOMAIN h[q[1]].kids :
              n > 0 /\ <<h[q[1]].kids[k], h[q[2]].kids[k]>> \in f[n - 1]}

EqualTo(h, m, f) == f = [n \in 0..m |-> EqualRow(h, n, f)]

LEMMA EqualExist ==
    ASSUME NEW h, NEW m \in Nat
    PROVE  \E f : EqualTo(h, m, f)
<1> DEFINE Bad == {j \in 0..m : ~\E f : EqualTo(h, j, f)}
<1>1. Bad = {}
  <2>1. SUFFICES ASSUME Bad # {}
                 PROVE  FALSE
    OBVIOUS
  <2>2. PICK j \in Bad : \A i \in Bad : j <= i
    <3>1. Bad \in SUBSET Nat
      OBVIOUS
    <3> HIDE DEF Bad
    <3>2. QED
      BY <2>1, <3>1, LeastElement
  <2>3. j \in 0..m /\ ~\E f : EqualTo(h, j, f)
    OBVIOUS
  <2>4. CASE j = 0
    <3> DEFINE f == [n \in 0..0 |-> EqualRow(h, 0, h)]
    <3>1. EqualRow(h, 0, h) = EqualRow(h, 0, f)
      <4> HIDE DEF f
      <4>1. \A g, q : /\ \A k \in DOMAIN h[q[1]].kids :
                            0 > 0 /\ <<h[q[1]].kids[k], h[q[2]].kids[k]>> \in g[0 - 1]
                      <=> DOMAIN h[q[1]].kids = {}
        OBVIOUS
      <4>2. \A g : EqualRow(h, 0, g) = {q \in Ids \X Ids : SameShape(h, q[1], q[2])
                                                        /\ DOMAIN h[q[1]].kids = {}}
        BY <4>1 DEF EqualRow
      <4>3. QED
        BY <4>2
    <3>2. \A n \in 0..0 : n = 0
      OBVIOUS
    <3>3. f = [n \in 0..0 |-> EqualRow(h, n, f)]
      <4>1. \A n \in 0..0 : EqualRow(h, n, f) = EqualRow(h, 0, h)
        BY <3>1, <3>2
      <4> HIDE DEF f
      <4>2. [n \in 0..0 |-> EqualRow(h, n, f)] = [n \in 0..0 |-> EqualRow(h, 0, h)]
        BY <4>1
      <4>3. QED
        BY <4>2 DEF f
    <3>4. QED
      BY <2>3, <2>4, <3>3 DEF EqualTo
  <2>5. CASE j # 0
    <3>1. j \in 1..m /\ j - 1 \in 0..m /\ j - 1 \notin Bad
      BY <2>2, <2>5
    <3>2. PICK f : EqualTo(h, j - 1, f)
      BY <3>1
    <3> DEFINE g == [n \in 0..j |-> IF n = j THEN EqualRow(h, j, f) ELSE f[n]]
    <3>a. /\ j \in 0..j /\ j \in Nat /\ \A n \in 0..(j - 1) : n \in 0..j /\ n # j
      BY <3>1
    <3>b. \A n \in 0..(j - 1) : f[n] = EqualRow(h, n, f)
      BY <3>2 DEF EqualTo
    <3>3. /\ DOMAIN g = 0..j /\ g[j] = EqualRow(h, j, f)
          /\ \A n \in 0..(j - 1) : g[n] = f[n] /\ f[n] = EqualRow(h, n, f)
      BY <3>a, <3>b
    <3>4. g = [n \in 0..j |-> g[n]]
      OBVIOUS
    <3> HIDE DEF g
    <3>5. ASSUME NEW n \in 0..j
          PROVE  g[n] = EqualRow(h, n, g)
      <4>1. n > 0 => g[n - 1] = f[n - 1]
        BY <3>1, <3>3
      <4>2. EqualRow(h, n, g) = EqualRow(h, n, f)
        BY <4>1 DEF EqualRow
      <4>3. n = j \/ n \in 0..(j - 1)
        BY <3>1
      <4>4. QED
        BY <3>3, <4>2, <4>3
    <3>6. EqualTo(h, j, g)
      BY <3>4, <3>5 DEF EqualTo
    <3>7. QED
      BY <2>3, <3>6
  <2>6. QED
    BY <2>4, <2>5
<1>2. m \in 0..m
  OBVIOUS
<1>3. QED
  BY <1>1, <1>2

\* Items are equal when they look alike and their items are equal.
LEMMA SameItemsIs ==
    ASSUME NEW h
    PROVE  \E f : /\ \A x, y : SameItems(h, x, y) <=>
                        \A k \in DOMAIN h[x].kids :
                           <<h[x].kids[k], h[y].kids[k]>> \in f[Cardinality(Ids)]
                  /\ \A n \in 0..Cardinality(Ids), x, y \in Ids :
                        <<x, y>> \in f[n] <=>
                           /\ SameShape(h, x, y)
                           /\ \A k \in DOMAIN h[x].kids :
                                 n > 0 /\ <<h[x].kids[k], h[y].kids[k]>> \in f[n - 1]
<1> DEFINE N == Cardinality(Ids)
           f == CHOOSE e : EqualTo(h, N, e)
<1>1. EqualTo(h, N, f)
  <2>1. \E e : EqualTo(h, N, e)
    BY IdsCounted, EqualExist
  <2> HIDE DEF N
  <2>2. QED
    BY <2>1
<1>2. ASSUME NEW x, NEW y
      PROVE  SameItems(h, x, y) <=>
                \A k \in DOMAIN h[x].kids : <<h[x].kids[k], h[y].kids[k]>> \in f[N]
  BY DEF SameItems, EqualTo, EqualRow
<1> HIDE DEF f, N
<1>3. ASSUME NEW n \in 0..N, NEW x \in Ids, NEW y \in Ids
      PROVE  <<x, y>> \in f[n] <=>
                /\ SameShape(h, x, y)
                /\ \A k \in DOMAIN h[x].kids :
                      n > 0 /\ <<h[x].kids[k], h[y].kids[k]>> \in f[n - 1]
  <2>1. f[n] = EqualRow(h, n, f)
    BY <1>1 DEF EqualTo
  <2>2. QED
    BY <2>1 DEF EqualRow
<1>4. QED
  BY <1>2, <1>3 DEF N

\* What a node is made of.
LEMMA NodeIs ==
    ASSUME NEW kind, NEW name, NEW val, NEW p, NEW items,
           NEW T, T = Node(kind, name, val, p, items)
    PROVE  /\ T.kind = kind /\ T.name = name /\ T.val = val /\ T.policy = p
           /\ T.items = items
           /\ T.looks.kind = kind /\ T.looks.name = name /\ T.looks.val = val
           /\ T.looks.items = [k \in DOMAIN items |-> items[k].looks]
           /\ T.looks.self <=> /\ kind = "Value" => val # NaN
                               /\ \A k \in DOMAIN items : items[k].looks.self
BY DEF Node

LEMMA LooksEqual ==
    ASSUME NEW kind1, NEW name1, NEW val1, NEW p1, NEW items1,
           NEW kind2, NEW name2, NEW val2, NEW p2, NEW items2,
           NEW T, T = Node(kind1, name1, val1, p1, items1),
           NEW U, U = Node(kind2, name2, val2, p2, items2)
    PROVE  T.looks = U.looks /\ T.looks.self <=>
              /\ kind1 = kind2 /\ name1 = name2 /\ val1 = val2
              /\ kind1 = "Value" => val1 # NaN
              /\ DOMAIN items1 = DOMAIN items2
              /\ \A k \in DOMAIN items1 : /\ items1[k].looks = items2[k].looks
                                          /\ items1[k].looks.self
<1> DEFINE looks1 == [k \in DOMAIN items1 |-> items1[k].looks]
           looks2 == [k \in DOMAIN items2 |-> items2[k].looks]
           self1  == /\ kind1 = "Value" => val1 # NaN
                     /\ \A k \in DOMAIN items1 : items1[k].looks.self
           self2  == /\ kind2 = "Value" => val2 # NaN
                     /\ \A k \in DOMAIN items2 : items2[k].looks.self
<1>1. /\ T.looks = [kind |-> kind1, name |-> name1, val |-> val1, items |-> looks1,
                    self |-> self1]
      /\ U.looks = [kind |-> kind2, name |-> name2, val |-> val2, items |-> looks2,
                    self |-> self2]
  BY DEF Node
<1>2. looks1 = looks2 <=> /\ DOMAIN items1 = DOMAIN items2
                          /\ \A k \in DOMAIN items1 : items1[k].looks = items2[k].looks
  <2>1. ASSUME looks1 = looks2
        PROVE  /\ DOMAIN items1 = DOMAIN items2
               /\ \A k \in DOMAIN items1 : items1[k].looks = items2[k].looks
    <3>1. DOMAIN looks1 = DOMAIN looks2
      BY <2>1
    <3>2. DOMAIN items1 = DOMAIN items2
      BY <3>1
    <3>3. ASSUME NEW k \in DOMAIN items1
          PROVE  items1[k].looks = items2[k].looks
      <4>1. looks1[k] = looks2[k]
        BY <2>1
      <4>2. QED
        BY <3>2, <4>1
    <3>4. QED
      BY <3>2, <3>3
  <2>2. QED
    BY <2>1
<1>3. DOMAIN items1 = DOMAIN items2 /\ kind1 = kind2 /\ val1 = val2
      /\ (\A k \in DOMAIN items1 : items1[k].looks = items2[k].looks)
      => (self1 <=> self2)
  OBVIOUS
<1>4. T.looks.self <=> self1
  BY <1>1
<1>5. T.looks = U.looks <=> /\ kind1 = kind2 /\ name1 = name2 /\ val1 = val2
                            /\ looks1 = looks2 /\ (self1 <=> self2)
  <2> HIDE DEF looks1, looks2
  <2>1. self1 \in BOOLEAN /\ self2 \in BOOLEAN
    OBVIOUS
  <2> HIDE DEF self1, self2
  <2>2. QED
    BY <1>1, <2>1
<1>6. QED
  BY <1>2, <1>3, <1>4, <1>5

\* The trees in a container, as many as its items.
LEMMA TreesInIs ==
    ASSUME NEW h, WellTyped(h), NEW x \in Addresses, h[x] # Null
    PROVE  /\ h[x].kids \in Seq(Ids) /\ Len(h[x].kids) \in Nat
           /\ DOMAIN h[x].kids = 1..Len(h[x].kids)
           /\ DOMAIN TreesIn(h, x) = 1..Len(h[x].kids)
           /\ \A k \in 1..Len(h[x].kids) : /\ h[x].kids[k] \in Ids
                                           /\ h[x].kids[k] \in Kids(h, x)
                                           /\ TreesIn(h, x)[k] = TreeAt(h, h[x].kids[k])
<1>1. h[x].kids \in Seq(Ids) /\ Kids(h, x) = {h[x].kids[k] : k \in 1..Len(h[x].kids)}
  BY ItemFields
<1>2. /\ Len(h[x].kids) \in Nat /\ DOMAIN h[x].kids = 1..Len(h[x].kids)
      /\ \A k \in 1..Len(h[x].kids) : h[x].kids[k] \in Ids
  BY <1>1, LenProperties, ElementOfSeq
<1>3. QED
  BY <1>1, <1>2 DEF TreesIn

SameLooks(a, b) == a.looks = b.looks /\ a.looks.self

\* Two items are equal when their trees look the same and are equal to themselves.
LEMMA SameMeans ==
    ASSUME NEW h, Sound(h), NEW x \in Ids, h[x] # Null, NEW y \in Ids, h[y] # Null
    PROVE  Same(h, y, x) <=> SameLooks(TreeAt(h, y), TreeAt(h, x))
<1> DEFINE N == Cardinality(Ids)
<1>0. WellTyped(h) /\ Closed(h) /\ N \in Nat
  BY IdsCounted DEF Sound
<1>1. PICK r : Down(h, Used(h), r)
  BY RanksBounded DEF Sound
<1>2. PICK f : /\ \A u, v : SameItems(h, u, v) <=>
                     \A k \in DOMAIN h[u].kids : <<h[u].kids[k], h[v].kids[k]>> \in f[N]
               /\ \A n \in 0..N, u, v \in Ids :
                     <<u, v>> \in f[n] <=>
                        /\ SameShape(h, u, v)
                        /\ \A k \in DOMAIN h[u].kids :
                              n > 0 /\ <<h[u].kids[k], h[v].kids[k]>> \in f[n - 1]
  BY SameItemsIs
<1> HIDE DEF N
<1>3. ASSUME NEW u \in Used(h)
      PROVE  /\ u \in Ids /\ h[u].kids \in Seq(Ids) /\ Len(h[u].kids) \in Nat
             /\ DOMAIN h[u].kids = 1..Len(h[u].kids)
             /\ DOMAIN TreesIn(h, u) = 1..Len(h[u].kids)
             /\ r[u] \in Nat /\ r[u] < N
             /\ \A k \in 1..Len(h[u].kids) :
                   /\ h[u].kids[k] \in Used(h)
                   /\ r[h[u].kids[k]] \in Nat /\ r[h[u].kids[k]] < r[u]
                   /\ TreesIn(h, u)[k] = TreeAt(h, h[u].kids[k])
  <2>1. u \in Ids /\ u \in Addresses /\ h[u] # Null
    BY DEF Used, Addresses
  <2>2. /\ h[u].kids \in Seq(Ids) /\ Len(h[u].kids) \in Nat
        /\ DOMAIN h[u].kids = 1..Len(h[u].kids)
        /\ DOMAIN TreesIn(h, u) = 1..Len(h[u].kids)
        /\ \A k \in 1..Len(h[u].kids) : TreesIn(h, u)[k] = TreeAt(h, h[u].kids[k])
    BY <1>0, <2>1, TreesInIs
  <2>3. r[u] \in Nat /\ r[u] < N
    BY <1>1, <2>1 DEF Down, N
  <2>4. \A k \in 1..Len(h[u].kids) : /\ h[u].kids[k] \in Used(h)
                                     /\ r[h[u].kids[k]] < r[u]
    BY <1>1 DEF Down
  <2>5. \A v \in Used(h) : r[v] \in Nat
    BY <1>1 DEF Down
  <2>6. QED
    BY <2>1, <2>2, <2>3, <2>4, <2>5
<1>4. ASSUME NEW u \in Used(h), NEW v \in Used(h)
      PROVE  SameLooks(TreeAt(h, u), TreeAt(h, v)) <=>
                /\ SameShape(h, u, v)
                /\ \A k \in DOMAIN h[u].kids :
                      SameLooks(TreeAt(h, h[u].kids[k]), TreeAt(h, h[v].kids[k]))
  <2>1. /\ TreeAt(h, u) = Node(h[u].kind, h[u].name, h[u].val, h[u].policy, TreesIn(h, u))
        /\ TreeAt(h, v) = Node(h[v].kind, h[v].name, h[v].val, h[v].policy, TreesIn(h, v))
    BY TreeAtIs DEF Used
  <2> DEFINE a == TreesIn(h, u)
             b == TreesIn(h, v)
  <2>2. SameLooks(TreeAt(h, u), TreeAt(h, v)) <=>
           /\ h[u].kind = h[v].kind /\ h[u].name = h[v].name /\ h[u].val = h[v].val
           /\ h[u].kind = "Value" => h[u].val # NaN
           /\ DOMAIN a = DOMAIN b
           /\ \A k \in DOMAIN a : a[k].looks = b[k].looks /\ a[k].looks.self
    <3> HIDE DEF a, b
    <3>1. /\ TreeAt(h, u) = Node(h[u].kind, h[u].name, h[u].val, h[u].policy, a)
          /\ TreeAt(h, v) = Node(h[v].kind, h[v].name, h[v].val, h[v].policy, b)
      BY <2>1 DEF a, b
    <3>2. QED
      BY <3>1, LooksEqual DEF SameLooks
  <2>3. /\ DOMAIN a = DOMAIN h[u].kids /\ DOMAIN b = DOMAIN h[v].kids
        /\ DOMAIN a = DOMAIN b <=> Len(h[u].kids) = Len(h[v].kids)
    BY <1>3
  <2>4. DOMAIN a = DOMAIN b =>
          \A k \in DOMAIN a : a[k] = TreeAt(h, h[u].kids[k]) /\ b[k] = TreeAt(h, h[v].kids[k])
    BY <1>3
  <2> HIDE DEF a, b
  <2>5. QED
    BY <2>2, <2>3, <2>4 DEF SameShape, SameLooks
<1> DEFINE Bad == {n \in 0..N : \E u, v \in Used(h) :
                      r[u] <= n /\ ~(<<u, v>> \in f[n] <=>
                                        SameLooks(TreeAt(h, u), TreeAt(h, v)))}
<1>5. Bad = {}
  <2>1. SUFFICES ASSUME Bad # {}
                 PROVE  FALSE
    OBVIOUS
  <2>2. PICK n \in Bad : \A i \in Bad : n <= i
    <3>1. Bad \in SUBSET Nat
      OBVIOUS
    <3> HIDE DEF Bad
    <3>2. QED
      BY <2>1, <3>1, LeastElement
  <2>3. PICK u \in Used(h), v \in Used(h) :
           /\ n \in 0..N /\ r[u] <= n
           /\ ~(<<u, v>> \in f[n] <=> SameLooks(TreeAt(h, u), TreeAt(h, v)))
    OBVIOUS
  <2>4. <<u, v>> \in f[n] <=>
           /\ SameShape(h, u, v)
           /\ \A k \in DOMAIN h[u].kids :
                 n > 0 /\ <<h[u].kids[k], h[v].kids[k]>> \in f[n - 1]
    BY <1>2, <1>3, <2>3
  <2>5. ASSUME SameShape(h, u, v), NEW k \in DOMAIN h[u].kids
        PROVE  n > 0 /\ (<<h[u].kids[k], h[v].kids[k]>> \in f[n - 1]
                            <=> SameLooks(TreeAt(h, h[u].kids[k]), TreeAt(h, h[v].kids[k])))
    <3>1. Len(h[u].kids) = Len(h[v].kids)
      BY <2>5 DEF SameShape
    <3>2. k \in 1..Len(h[u].kids) /\ k \in 1..Len(h[v].kids)
      BY <1>3, <2>5, <3>1
    <3>3. /\ h[u].kids[k] \in Used(h) /\ h[v].kids[k] \in Used(h)
          /\ r[h[u].kids[k]] \in Nat /\ r[h[u].kids[k]] < r[u] /\ r[u] \in Nat
      BY <1>3, <3>2
    <3>4. n > 0 /\ n - 1 \in 0..N /\ r[h[u].kids[k]] <= n - 1 /\ ~(n <= n - 1)
      BY <1>0, <2>3, <3>3
    <3>5. n - 1 \notin Bad
      BY <2>2, <3>4
    <3>6. QED
      BY <3>3, <3>4, <3>5
  <2>6. QED
    BY <1>4, <2>3, <2>4, <2>5
<1>6. x \in Used(h) /\ y \in Used(h)
  BY DEF Used
<1>7. ASSUME SameShape(h, y, x), NEW k \in DOMAIN h[y].kids
      PROVE  <<h[y].kids[k], h[x].kids[k]>> \in f[N]
                <=> SameLooks(TreeAt(h, h[y].kids[k]), TreeAt(h, h[x].kids[k]))
  <2>1. Len(h[y].kids) = Len(h[x].kids)
    BY <1>7 DEF SameShape
  <2>2. k \in 1..Len(h[y].kids) /\ k \in 1..Len(h[x].kids)
    BY <1>3, <1>6, <1>7, <2>1
  <2>3. h[y].kids[k] \in Used(h) /\ h[x].kids[k] \in Used(h)
    BY <1>3, <1>6, <2>2
  <2>4. r[h[y].kids[k]] <= N
    BY <1>0, <1>3, <2>3
  <2>5. N \in 0..N /\ N \notin Bad
    BY <1>0, <1>5
  <2>6. QED
    BY <2>3, <2>4, <2>5
<1>8. QED
  BY <1>2, <1>4, <1>6, <1>7 DEF Same

LEMMA SameLooksPer ==
    ASSUME NEW a, NEW b, NEW c
    PROVE  /\ SameLooks(a, b) => SameLooks(b, a)
           /\ SameLooks(a, b) /\ SameLooks(b, c) => SameLooks(a, c)
BY DEF SameLooks

\* Trees that collide do so either way, and those that collide with one of them
\* collide with the other.
LEMMA CollidePer ==
    ASSUME NEW kind, NEW a, NEW b, NEW c
    PROVE  /\ Collide(kind, a, b) => Collide(kind, b, a)
           /\ Collide(kind, a, b) /\ Collide(kind, b, c) => Collide(kind, a, c)
BY DEF Collide

\* Add finds that items clash when their trees collide.
LEMMA ClashMeans ==
    ASSUME NEW h, Sound(h), NEW t, NEW x \in Ids, h[x] # Null, h[x].kind # "Comment",
           NEW y \in Ids, h[y] # Null
    PROVE  Clashes(h, t, x, y) <=> Collide(h[t].kind, TreeAt(h, y), TreeAt(h, x))
<1> DEFINE T == TreeAt(h, y)
           U == TreeAt(h, x)
<1>1. /\ T = Node(h[y].kind, h[y].name, h[y].val, h[y].policy, TreesIn(h, y))
      /\ U = Node(h[x].kind, h[x].name, h[x].val, h[x].policy, TreesIn(h, x))
  BY TreeAtIs
<1>2. Same(h, y, x) <=> SameLooks(T, U)
  BY SameMeans
<1> HIDE DEF T, U
<1>3. /\ T.kind = h[y].kind /\ T.name = h[y].name /\ T.looks.kind = h[y].kind
      /\ U.kind = h[x].kind /\ U.name = h[x].name /\ U.looks.kind = h[x].kind
  <2>1. T.kind = h[y].kind /\ T.name = h[y].name /\ T.looks.kind = h[y].kind
    BY <1>1 DEF Node
  <2>2. U.kind = h[x].kind /\ U.name = h[x].name /\ U.looks.kind = h[x].kind
    BY <1>1 DEF Node
  <2>3. QED
    BY <2>1, <2>2
<1>4. SameLooks(T, U) => T.kind # "Comment"
  BY <1>3 DEF SameLooks
<1>5. Clashes(h, t, x, y) <=> Collide(h[t].kind, T, U)
  BY <1>2, <1>3, <1>4 DEF Clashes, Collide, SameLooks
<1>6. QED
  BY <1>5 DEF T, U

-----------------------------------------------------------------------------
(* What keeps a heap without cycles *)

\* Less is held.
LEMMA AcyclicLess ==
    ASSUME NEW h, Acyclic(h), NEW g,
           \A x \in Ids : g[x] # Null /\ Kids(g, x) # {} =>
              h[x] # Null /\ Kids(g, x) \subseteq Kids(h, x)
    PROVE  Acyclic(g)
<1>1. PICK r : Descends(h, r)
  BY DEF Acyclic
<1>2. Descends(g, r)
  BY <1>1 DEF Descends
<1>3. QED
  BY <1>2 DEF Acyclic

\* A container that no item holds comes to hold another item.
LEMMA AcyclicMore ==
    ASSUME NEW h, WellTyped(h), Acyclic(h), NEW t \in Addresses, Holding(h, t) = {},
           NEW x \in Ids, x # t, NEW g, WellTyped(g),
           \A y \in Addresses : g[y] # Null =>
              h[y] # Null /\ Kids(g, y) \subseteq Kids(h, y) \cup (IF y = t THEN {x} ELSE {})
    PROVE  Acyclic(g)
<1>1. PICK r : Descends(h, r)
  BY DEF Acyclic
<1>2. r \in [Ids -> Nat]
  BY <1>1 DEF Descends
<1> DEFINE s == [y \in Ids |-> IF y = t THEN r[t] + r[x] + 1 ELSE r[y]]
<1>3. s \in [Ids -> Nat]
  BY <1>2
<1>4. ASSUME NEW y \in Ids, g[y] # Null, NEW z \in Kids(g, y)
      PROVE  s[z] < s[y]
  <2>1. y \in Addresses /\ h[y] # Null /\ z \in Ids
    <3>1. y \in Addresses
      BY DEF Addresses
    <3>2. Kids(g, y) \subseteq Ids
      BY <3>1, KidsAreIds
    <3>3. QED
      BY <1>4, <3>1, <3>2
  <2>2. z \in Kids(h, y) \/ (y = t /\ z = x)
    BY <1>4, <2>1
  <2>3. CASE z \in Kids(h, y)
    <3>1. r[z] < r[y] /\ z # t
      BY <1>1, <2>1, <2>3 DEF Descends, Holding
    <3>2. r[y] \in Nat /\ r[z] \in Nat /\ r[x] \in Nat
      BY <1>2, <2>1
    <3>3. s[z] = r[z] /\ s[y] = IF y = t THEN r[y] + r[x] + 1 ELSE r[y]
      BY <2>1, <3>1
    <3> HIDE DEF s
    <3>4. QED
      BY <3>1, <3>2, <3>3
  <2>4. CASE y = t /\ z = x
    <3>1. r[t] \in Nat /\ r[x] \in Nat
      BY <1>2, <2>4
    <3>2. s[z] = r[x] /\ s[y] = r[t] + r[x] + 1
      BY <2>4
    <3> HIDE DEF s
    <3>3. QED
      BY <3>1, <3>2
  <2>5. QED
    BY <2>2, <2>3, <2>4
<1> HIDE DEF s
<1>5. Descends(g, s)
  BY <1>3, <1>4 DEF Descends
<1>6. QED
  BY <1>5 DEF Acyclic

\* What is destroyed changes nothing below what stays.
LEMMA SettledTrees ==
    ASSUME NEW h, Sound(h), NEW held \in SUBSET Ids, \A p \in held : h[p] # Null,
           NEW g, g = Settled(h, held)
    PROVE  /\ Sound(g)
           /\ \A p \in held : g[p] # Null
           /\ \A x \in Addresses : g[x] # Null =>
                 g[x] = h[x] /\ TreesIn(g, x) = TreesIn(h, x)
           /\ \A x \in Ids : g[x] # Null => TreeAt(g, x) = TreeAt(h, x)
<1>1. /\ WellTyped(g) /\ Closed(g) /\ \A p \in held : g[p] # Null
      /\ \A x \in Addresses : g[x] # Null => g[x] = h[x]
  BY SettledKeeps DEF Sound
<1>2. \A x \in Addresses : g[x] # Null => h[x] # Null /\ Kids(g, x) = Kids(h, x)
  BY <1>1 DEF Kids
<1>3. Acyclic(g)
  <2>1. \A x \in Ids : g[x] # Null => h[x] # Null /\ Kids(g, x) \subseteq Kids(h, x)
    BY <1>2 DEF Addresses
  <2>2. QED
    BY <2>1, AcyclicLess DEF Sound
<1>4. \A x \in Used(g) : h[x] # Null /\ g[x] = h[x] /\ Kids(h, x) \subseteq Used(g)
  <2>1. SUFFICES ASSUME NEW x \in Used(g), NEW y \in Kids(h, x)
                 PROVE  y \in Used(g)
    BY <1>1 DEF Used, Addresses
  <2>2. x \in Addresses /\ g[x] # Null /\ y \in Kids(g, x)
    BY <1>2, <2>1 DEF Used, Addresses
  <2>3. y \in Ids /\ y \in Addresses
    BY <1>1, <2>2, KidsAreIds DEF Addresses
  <2>4. QED
    BY <1>1, <2>2, <2>3 DEF Closed, Used
<1>5. ASSUME NEW x \in Ids, g[x] # Null
      PROVE  TreeAt(g, x) = TreeAt(h, x)
  <2>1. x \in Used(g) /\ Used(g) \in SUBSET Ids
    BY <1>5 DEF Used
  <2>2. QED
    BY <1>4, <2>1, TreeAtSame
<1>6. ASSUME NEW x \in Addresses, g[x] # Null
      PROVE  TreesIn(g, x) = TreesIn(h, x)
  <2>1. g[x] = h[x] /\ h[x] # Null
    BY <1>1, <1>6
  <2>2. \A k \in DOMAIN h[x].kids : h[x].kids[k] \in Ids /\ h[x].kids[k] \in Kids(g, x)
    BY <1>1, <1>6, <2>1, TreesInIs
  <2>3. \A k \in DOMAIN h[x].kids : g[h[x].kids[k]] # Null
    BY <1>1, <1>6, <2>2 DEF Closed, Addresses
  <2>4. \A k \in DOMAIN h[x].kids : TreeAt(g, h[x].kids[k]) = TreeAt(h, h[x].kids[k])
    BY <1>5, <2>2, <2>3
  <2>5. QED
    BY <2>1, <2>4 DEF TreesIn
<1>7. QED
  BY <1>1, <1>3, <1>5, <1>6 DEF Sound

-----------------------------------------------------------------------------
(* What a container keeps *)

\* The positions of the trees that stay.
Stayers(kind, trees, n, p) == {k \in DOMAIN trees : Stays(kind, trees, n, p, k)}
Places(kind, trees, n, p)  == InOrder(Stayers(kind, trees, n, p), Len(trees))

AllStay(kind, trees, n, p) == \A k \in 1..Len(trees) : Stays(kind, trees, n, p, k)

LEMMA KeptIs ==
    ASSUME NEW S, NEW trees \in Seq(S), NEW kind, NEW n, NEW p,
           NEW s, s = Places(kind, trees, n, p)
    PROVE  /\ s \in Seq(Nat) /\ Len(s) \in Nat /\ Len(trees) \in Nat
           /\ DOMAIN Kept(kind, trees, n, p) = 1..Len(s)
           /\ \A i \in 1..Len(s) : /\ s[i] \in 1..Len(trees)
                                   /\ Stays(kind, trees, n, p, s[i])
                                   /\ Kept(kind, trees, n, p)[i] = trees[s[i]]
           /\ \A k \in 1..Len(trees) : Stays(kind, trees, n, p, k)
                                          => \E i \in 1..Len(s) : s[i] = k
           /\ \A i, j \in 1..Len(s) : s[i] = s[j] => i = j
<1> DEFINE T == Stayers(kind, trees, n, p)
           L == Len(trees)
<1>1. L \in Nat /\ DOMAIN trees = 1..L
  BY LenProperties
<1>2. s = InOrder(T, L)
  BY DEF Places
<1> HIDE DEF T, L
<1>3. /\ s \in Seq(Nat) /\ Len(s) \in Nat /\ DOMAIN s = 1..Len(s)
      /\ \A i \in 1..Len(s) : s[i] \in T /\ s[i] \in 1..L
      /\ \A k \in 1..L : k \in T => \E i \in 1..Len(s) : s[i] = k
      /\ \A i, j \in 1..Len(s) : s[i] = s[j] => i = j
  BY <1>1, <1>2, InOrderSeq, SMTT(30)
<1>4. \A k \in 1..L : k \in T <=> Stays(kind, trees, n, p, k)
  BY <1>1 DEF T, Stayers
<1>5. Kept(kind, trees, n, p) = [i \in DOMAIN s |-> trees[s[i]]]
  BY <1>2 DEF Kept, T, L, Stayers
<1>6. /\ DOMAIN Kept(kind, trees, n, p) = 1..Len(s)
      /\ \A i \in 1..Len(s) : Kept(kind, trees, n, p)[i] = trees[s[i]]
  BY <1>3, <1>5
<1>7. QED
  BY <1>1, <1>3, <1>4, <1>6 DEF L

\* Under ThrowException, all or none: if all stay the container holds them all.
LEMMA AllKept ==
    ASSUME NEW S, NEW trees \in Seq(S), NEW kind, NEW n, NEW p,
           AllStay(kind, trees, n, p)
    PROVE  Kept(kind, trees, n, p) = trees
<1> DEFINE T == Stayers(kind, trees, n, p)
           L == Len(trees)
           K == Kept(kind, trees, n, p)
           s == InOrder(T, L)
<1>1. L \in Nat /\ DOMAIN trees = 1..L
  BY LenProperties
<1>2. K = [i \in DOMAIN s |-> trees[s[i]]]
  BY DEF Kept, Stayers
<1>3. \A k \in 1..L : k \in T
  BY <1>1 DEF AllStay, Stayers
<1> HIDE DEF T, K, L
<1>4. s = [k \in 1..L |-> k]
  BY <1>1, <1>3, InOrderAll
<1>5. DOMAIN s = 1..L /\ \A k \in 1..L : s[k] = k
  BY <1>4
<1> HIDE DEF s
<1>6. K = [i \in 1..L |-> trees[i]]
  BY <1>2, <1>5
<1>7. trees = [i \in 1..L |-> trees[i]]
  BY <1>1
<1>8. QED
  BY <1>6, <1>7 DEF K

\* What collides with any of the trees collides with one that was kept.
LEMMA KeptCollides ==
    ASSUME NEW S, NEW trees \in Seq(S), NEW kind, NEW n \in Nat, NEW p \in Policies,
           p = "ThrowException" => AllStay(kind, trees, n, p),
           NEW t, NEW j \in 1..Len(trees), Collide(kind, trees[j], t)
    PROVE  \E k \in 1..Len(trees) : Stays(kind, trees, n, p, k) /\ Collide(kind, trees[k], t)
<1> DEFINE L   == Len(trees)
           Hit == {k \in 1..L : Collide(kind, trees[k], t)}
<1>1. L \in Nat /\ j \in Hit /\ Hit \subseteq 1..L
  BY LenProperties
<1>2. CASE p = "ThrowException"
  BY <1>2 DEF AllStay
<1>3. CASE p = "Keep"
  <2>1. PICK k \in Hit : \A i \in Hit : k <= i
    <3>1. Hit \in SUBSET Nat /\ Hit # {}
      BY <1>1
    <3> HIDE DEF Hit
    <3>2. QED
      BY <3>1, LeastElement
  <2>2. \A i \in 1..(k - 1) : ~Collide(kind, trees[i], trees[k])
    <3>1. SUFFICES ASSUME NEW i \in 1..(k - 1), Collide(kind, trees[i], trees[k])
                   PROVE  FALSE
      OBVIOUS
    <3>2. i \in 1..L /\ ~(k <= i)
      BY <1>1, <2>1
    <3>3. Collide(kind, trees[k], t)
      BY <2>1
    <3>4. Collide(kind, trees[i], t)
      BY <3>1, <3>3, CollidePer
    <3>5. QED
      BY <2>1, <3>2, <3>4
  <2>3. Stays(kind, trees, n, p, k)
    BY <1>3, <2>2 DEF Stays
  <2>4. QED
    BY <2>1, <2>3
<1>4. CASE p = "Overwrite"
  <2> DEFINE Gap == {L - i : i \in Hit}
  <2>1. PICK g \in Gap : \A i \in Gap : g <= i
    <3>1. Gap \in SUBSET Nat /\ Gap # {}
      BY <1>1
    <3> HIDE DEF Gap
    <3>2. QED
      BY <3>1, LeastElement
  <2>2. PICK k \in Hit : g = L - k
    BY <2>1
  <2>3. \A i \in Hit : i <= k
    <3>1. ASSUME NEW i \in Hit
          PROVE  i <= k
      <4>1. L - i \in Gap /\ g <= L - i
        BY <2>1
      <4>2. i \in Nat /\ k \in Nat
        BY <1>1
      <4>3. QED
        BY <1>1, <2>2, <4>1, <4>2
    <3>2. QED
      BY <3>1
  <2>4. \A i \in (k + 1)..L : ~Collide(kind, trees[i], trees[k])
    <3>1. SUFFICES ASSUME NEW i \in (k + 1)..L, Collide(kind, trees[i], trees[k])
                   PROVE  FALSE
      OBVIOUS
    <3>2. i \in 1..L /\ ~(i <= k)
      BY <1>1
    <3>3. Collide(kind, trees[k], t)
      BY <2>2
    <3>4. Collide(kind, trees[i], t)
      BY <3>1, <3>3, CollidePer
    <3>5. QED
      BY <2>3, <3>2, <3>4
  <2>5. Stays(kind, trees, n, p, k)
    BY <1>4, <2>4 DEF Stays
  <2>6. QED
    BY <2>2, <2>5
<1>5. QED
  BY <1>2, <1>3, <1>4 DEF Policies

Appends(u, s, e) == u = Append(s, e)

\* What one more tree changes: who stays of those there were, and whether it
\* does itself.
LEMMA StaysMore ==
    ASSUME NEW S, NEW trees \in Seq(S), NEW t \in S, NEW kind,
           NEW n \in 0..Len(trees), NEW p \in Policies,
           NEW U, Appends(U, trees, t)
    PROVE  /\ \A k \in 1..Len(trees) :
                 Stays(kind, U, n, p, k) <=>
                    /\ Stays(kind, trees, n, p, k)
                    /\ p # "Keep" => ~Collide(kind, trees[k], t)
           /\ Stays(kind, U, n, p, Len(trees) + 1) <=>
                 (p # "Overwrite" => \A k \in 1..Len(trees) : ~Collide(kind, trees[k], t))
<1> USE DEF Appends
<1> DEFINE L == Len(trees)
<1>1. L \in Nat /\ Len(U) = L + 1 /\ U[L + 1] = t /\ \A k \in 1..L : U[k] = trees[k]
  BY LenProperties, AppendKeeps
<1> HIDE DEF L
<1>2. ASSUME NEW k \in 1..L
      PROVE  Stays(kind, U, n, p, k) <=>
                    /\ Stays(kind, trees, n, p, k)
                    /\ p # "Keep" => ~Collide(kind, trees[k], t)
  <2>1. U[k] = trees[k] /\ U[L + 1] = t /\ (Collide(kind, t, trees[k]) <=> Collide(kind, trees[k], t))
    BY <1>1, CollidePer
  <2>2. CASE p = "Keep"
    <3>1. \A j \in 1..(k - 1) : U[j] = trees[j]
      BY <1>1
    <3>2. QED
      BY <2>1, <2>2, <3>1 DEF Stays
  <2>3. CASE p = "Overwrite"
    <3>1. \A j \in (k + 1)..(L + 1) : j = L + 1 \/ j \in (k + 1)..L
      BY <1>1
    <3>2. \A j \in (k + 1)..L : U[j] = trees[j] /\ j \in (k + 1)..(L + 1)
      BY <1>1
    <3>3. L + 1 \in (k + 1)..(L + 1)
      BY <1>1
    <3>4. (\A j \in (k + 1)..(L + 1) : ~Collide(kind, U[j], U[k])) <=>
             /\ \A j \in (k + 1)..L : ~Collide(kind, trees[j], trees[k])
             /\ ~Collide(kind, trees[k], t)
      BY <2>1, <3>1, <3>2, <3>3
    <3>5. QED
      BY <1>1, <2>3, <3>4 DEF Stays, L
  <2>4. CASE p = "ThrowException"
    <3>1. \A j \in 1..(L + 1) : j = L + 1 \/ j \in 1..L
      BY <1>1
    <3>2. \A j \in 1..L : U[j] = trees[j] /\ j \in 1..(L + 1)
      BY <1>1
    <3>3. L + 1 \in 1..(L + 1) /\ L + 1 # k
      BY <1>1
    <3>4. (\A j \in 1..(L + 1) : j = k \/ ~Collide(kind, U[j], U[k])) <=>
             /\ \A j \in 1..L : j = k \/ ~Collide(kind, trees[j], trees[k])
             /\ ~Collide(kind, trees[k], t)
      BY <2>1, <3>1, <3>2, <3>3
    <3>5. QED
      BY <1>1, <2>4, <3>4 DEF Stays, L
  <2>5. QED
    BY <2>2, <2>3, <2>4 DEF Policies
<1>3. Stays(kind, U, n, p, L + 1) <=>
         (p # "Overwrite" => \A k \in 1..L : ~Collide(kind, trees[k], t))
  <2>1. CASE p = "Keep"
    <3>1. ~(L + 1 <= n) /\ L + 1 - 1 = L
      BY <1>1 DEF L
    <3>2. QED
      BY <1>1, <2>1, <3>1 DEF Stays
  <2>2. CASE p = "Overwrite"
    <3>1. \A j \in (L + 1 + 1)..(L + 1) : FALSE
      BY <1>1
    <3>2. QED
      BY <1>1, <2>2, <3>1 DEF Stays
  <2>3. CASE p = "ThrowException"
    <3>1. \A j \in 1..(L + 1) : j = L + 1 \/ j \in 1..L
      BY <1>1
    <3>2. \A j \in 1..L : U[j] = trees[j] /\ j \in 1..(L + 1) /\ j # L + 1
      BY <1>1
    <3>3. (\A j \in 1..(L + 1) : j = L + 1 \/ ~Collide(kind, U[j], U[L + 1])) <=>
             \A j \in 1..L : ~Collide(kind, trees[j], t)
      BY <1>1, <3>1, <3>2
    <3>4. QED
      BY <1>1, <2>3, <3>3 DEF Stays
  <2>4. QED
    BY <2>1, <2>2, <2>3 DEF Policies
<1>4. QED
  BY <1>2, <1>3 DEF L

\* A container that holds what it should takes one more tree.  If that collides
\* with none of those it holds, it comes last;
LEMMA KeptMore ==
    ASSUME NEW S, NEW trees \in Seq(S), NEW t \in S, NEW kind,
           NEW n \in 0..Len(trees), NEW p \in Policies,
           p = "ThrowException" => AllStay(kind, trees, n, p),
           NEW U, Appends(U, trees, t), NEW K, K = Kept(kind, trees, n, p),
           \A i \in DOMAIN K : ~Collide(kind, K[i], t)
    PROVE  /\ Appends(Places(kind, U, n, p), Places(kind, trees, n, p), Len(trees) + 1)
           /\ p = "ThrowException" => AllStay(kind, U, n, p)
<1> USE DEF Appends
<1> DEFINE L == Len(trees)
           s == Places(kind, trees, n, p)
           V == Stayers(kind, trees, n, p)
           W == Stayers(kind, U, n, p)
<1>1. /\ L \in Nat /\ Len(U) = L + 1 /\ DOMAIN trees = 1..L /\ DOMAIN U = 1..(L + 1)
      /\ n \in Nat
  BY LenProperties, AppendKeeps
<1>2. \A k \in 1..L : ~Collide(kind, trees[k], t)
  <2>1. SUFFICES ASSUME NEW j \in 1..L, Collide(kind, trees[j], t)
                 PROVE  FALSE
    OBVIOUS
  <2>2. PICK k \in 1..L : Stays(kind, trees, n, p, k) /\ Collide(kind, trees[k], t)
    BY <1>1, <2>1, KeptCollides
  <2>3. PICK i \in DOMAIN K : K[i] = trees[k]
    BY <2>2, KeptIs
  <2>4. QED
    BY <2>2, <2>3
<1>3. /\ \A k \in 1..L : Stays(kind, U, n, p, k) <=> Stays(kind, trees, n, p, k)
      /\ Stays(kind, U, n, p, L + 1)
  BY <1>2, StaysMore
<1> HIDE DEF L
<1>4. /\ \A k \in 1..(L + 1) : k \in W <=> (k \in V /\ k <= L) \/ k = L + 1
      /\ \A k \in 1..L : k \in V => k < L + 1
  BY <1>1, <1>3 DEF Stayers
<1>5. L + 1 \in Nat /\ L + 1 \in 1..(L + 1) /\ L <= L + 1
  BY <1>1
<1> HIDE DEF V, W
<1>6. InOrder(W, L + 1) = Append(InOrder(V, L), L + 1)
  BY <1>1, <1>4, <1>5, InOrderMore
<1>7. Places(kind, U, n, p) = Append(s, L + 1)
  BY <1>1, <1>6 DEF Places, V, W, L
<1>8. p = "ThrowException" => AllStay(kind, U, n, p)
  <2>1. \A k \in 1..(L + 1) : k = L + 1 \/ k \in 1..L
    BY <1>1
  <2>2. QED
    BY <1>1, <1>3, <2>1 DEF AllStay, L
<1>9. QED
  BY <1>7, <1>8 DEF L

\* if it collides with one, under Keep all is as it was,
LEMMA KeptKeep ==
    ASSUME NEW S, NEW trees \in Seq(S), NEW t \in S, NEW kind,
           NEW n \in 0..Len(trees), NEW p \in Policies, p = "Keep",
           NEW i \in 1..Len(trees), Collide(kind, trees[i], t),
           NEW U, Appends(U, trees, t)
    PROVE  Places(kind, U, n, p) = Places(kind, trees, n, p)
<1> USE DEF Appends
<1> DEFINE L == Len(trees)
           V == Stayers(kind, trees, n, p)
           W == Stayers(kind, U, n, p)
<1>1. /\ L \in Nat /\ Len(U) = L + 1 /\ DOMAIN trees = 1..L /\ DOMAIN U = 1..(L + 1)
      /\ n \in Nat
  BY LenProperties, AppendKeeps
<1>2. \E k \in 1..L : Collide(kind, trees[k], t)
  OBVIOUS
<1>3. /\ \A k \in 1..L : Stays(kind, U, n, p, k) <=> Stays(kind, trees, n, p, k)
      /\ ~Stays(kind, U, n, p, L + 1)
  BY <1>2, StaysMore DEF Policies
<1> HIDE DEF L
<1>4. \A k \in Nat \ {0} : k \in V /\ k <= L <=> k \in W /\ k <= L + 1
  BY <1>1, <1>3 DEF Stayers
<1>5. L + 1 \in Nat
  BY <1>1
<1> HIDE DEF V, W
<1>6. InOrder(W, L + 1) = InOrder(V, L)
  BY <1>1, <1>4, <1>5, InOrderSame
<1>7. QED
  BY <1>1, <1>6 DEF Places, V, W, L

\* and under Overwrite that one goes and the new one comes last.
LEMMA KeptOverwrite ==
    ASSUME NEW S, NEW trees \in Seq(S), NEW t \in S, NEW kind,
           NEW n \in 0..Len(trees), NEW p \in Policies, p = "Overwrite",
           NEW i \in 1..Len(Places(kind, trees, n, p)),
           Collide(kind, trees[Places(kind, trees, n, p)[i]], t),
           NEW U, Appends(U, trees, t)
    PROVE  Appends(Places(kind, U, n, p), RemoveAt(Places(kind, trees, n, p), i),
                   Len(trees) + 1)
<1> USE DEF Appends
<1> DEFINE L == Len(trees)
           s == Places(kind, trees, n, p)
           V == Stayers(kind, trees, n, p)
           R == {k \in V : ~Collide(kind, trees[k], t)}
           W == Stayers(kind, U, n, p)
<1>1. /\ L \in Nat /\ Len(U) = L + 1 /\ DOMAIN trees = 1..L /\ DOMAIN U = 1..(L + 1)
      /\ n \in Nat
  BY LenProperties, AppendKeeps
<1>2. /\ s \in Seq(Nat) /\ Len(s) \in Nat /\ i \in 1..Len(s)
      /\ \A j \in 1..Len(s) : s[j] \in 1..L /\ Stays(kind, trees, n, p, s[j])
  BY KeptIs
<1>3. /\ \A k \in 1..L : Stays(kind, U, n, p, k) <=>
                            Stays(kind, trees, n, p, k) /\ ~Collide(kind, trees[k], t)
      /\ Stays(kind, U, n, p, L + 1)
  BY StaysMore DEF Policies
<1>4. ASSUME NEW k \in 1..L, Stays(kind, trees, n, p, k)
      PROVE  Collide(kind, trees[k], t) <=> k = s[i]
  <2>1. Collide(kind, trees[s[i]], t) /\ s[i] \in 1..L /\ Stays(kind, trees, n, p, s[i])
    BY <1>2
  <2>2. ASSUME NEW a \in 1..L, NEW b \in 1..L, a < b,
               Collide(kind, trees[a], t), Collide(kind, trees[b], t)
        PROVE  ~Stays(kind, trees, n, p, a)
    <3>1. Collide(kind, trees[b], trees[a])
      BY <2>2, CollidePer
    <3>2. b \in (a + 1)..L
      BY <1>1, <2>2
    <3>3. QED
      BY <3>1, <3>2 DEF Stays
  <2>3. Collide(kind, trees[k], t) => k = s[i]
    BY <1>1, <1>4, <2>1, <2>2
  <2>4. QED
    BY <2>1, <2>3
<1> HIDE DEF L
<1>5. \A k \in 1..L : k \in V <=> Stays(kind, trees, n, p, k)
  BY <1>1 DEF Stayers
<1>6. \A k \in 1..L : k \in R <=> k \in V /\ k # s[i]
  BY <1>4, <1>5
<1>7. /\ \A k \in 1..(L + 1) : k \in W <=> (k \in R /\ k <= L) \/ k = L + 1
      /\ \A k \in 1..L : k \in R => k < L + 1
  <2>1. \A k \in 1..(L + 1) : k \in W <=> Stays(kind, U, n, p, k)
    BY <1>1 DEF Stayers
  <2>2. \A k \in 1..L : k \in W <=> k \in R
    <3>1. \A k \in 1..L : k \in 1..(L + 1)
      BY <1>1
    <3>2. QED
      BY <1>3, <1>5, <2>1, <3>1
  <2>3. L + 1 \in W
    BY <1>1, <1>3, <2>1
  <2>4. \A k \in R : k \in 1..L
    BY <1>1 DEF Stayers
  <2>5. \A k \in 1..(L + 1) : k \in 1..L \/ k = L + 1
    BY <1>1
  <2>6. ~(L + 1 <= L) /\ \A k \in 1..L : k <= L /\ k < L + 1
    BY <1>1
  <2> HIDE DEF R, W
  <2>7. QED
    BY <2>2, <2>3, <2>4, <2>5, <2>6
<1>8. L + 1 \in Nat /\ L + 1 \in 1..(L + 1) /\ L <= L + 1
  BY <1>1
<1>9. s = InOrder(V, L)
  BY DEF Places, V, L
<1> HIDE DEF V, W, R, s
<1>10. InOrder(R, L) = RemoveAt(s, i)
  <2>1. /\ i \in 1..Len(InOrder(V, L))
        /\ \A k \in 1..L : k \in R <=> k \in V /\ k # InOrder(V, L)[i]
    BY <1>2, <1>6, <1>9
  <2>2. InOrder(R, L) = RemoveAt(InOrder(V, L), i)
    BY <1>1, <2>1, InOrderLess
  <2>3. QED
    BY <1>9, <2>2
<1>11. InOrder(W, L + 1) = Append(RemoveAt(s, i), L + 1)
  BY <1>1, <1>7, <1>8, <1>10, InOrderMore, SMTT(30)
<1>12. QED
  BY <1>1, <1>11 DEF Places, W, L, s

-----------------------------------------------------------------------------
(* What Add does to the trees of a container *)

\* Items that no item outside of them holds may change: the others keep their
\* trees.
LEMMA TreesBeside ==
    ASSUME NEW h, Sound(h), NEW X, \A x \in X : Holding(h, x) = {},
           NEW g, \A y \in Addresses : h[y] # Null /\ y \notin X => g[y] = h[y]
    PROVE  /\ \A y \in Ids : h[y] # Null /\ y \notin X => TreeAt(g, y) = TreeAt(h, y)
           /\ \A y \in Addresses : h[y] # Null /\ g[y].kids = h[y].kids =>
                 TreesIn(g, y) = TreesIn(h, y)
<1> DEFINE S == Used(h) \ X
<1>1. S \in SUBSET Ids /\ S \subseteq Addresses
  BY DEF Used, Addresses
<1>2. ASSUME NEW y \in Addresses, h[y] # Null
      PROVE  Kids(h, y) \subseteq S
  <2>1. SUFFICES ASSUME NEW z \in Kids(h, y)
                 PROVE  z \in S
    OBVIOUS
  <2>2. z \in Ids /\ z \in Addresses
    BY <1>2, <2>1, KidsAreIds DEF Sound, Addresses
  <2>3. h[z] # Null /\ z \notin X
    BY <1>2, <2>1, <2>2 DEF Sound, Closed, Holding
  <2>4. QED
    BY <2>2, <2>3 DEF Used
<1>3. \A y \in S : h[y] # Null /\ g[y] = h[y] /\ Kids(h, y) \subseteq S
  BY <1>1, <1>2 DEF Used
<1> HIDE DEF S
<1>4. \A y \in S : TreeAt(g, y) = TreeAt(h, y)
  BY <1>1, <1>3, TreeAtSame
<1>5. ASSUME NEW y \in Addresses, h[y] # Null, g[y].kids = h[y].kids
      PROVE  TreesIn(g, y) = TreesIn(h, y)
  <2>1. /\ DOMAIN h[y].kids = 1..Len(h[y].kids)
        /\ \A k \in 1..Len(h[y].kids) : h[y].kids[k] \in Kids(h, y)
    BY <1>5, TreesInIs DEF Sound
  <2>2. \A k \in DOMAIN h[y].kids : TreeAt(g, h[y].kids[k]) = TreeAt(h, h[y].kids[k])
    BY <1>2, <1>4, <1>5, <2>1
  <2>3. QED
    BY <1>5, <2>2 DEF TreesIn
<1>6. QED
  BY <1>4, <1>5 DEF S, Used

\* The tree that x has once it has been offered to a container.
Offering(h, x, p) ==
    Node(h[x].kind, h[x].name, h[x].val,
         IF h[x].kind \in ContainerKinds THEN p ELSE h[x].policy, TreesIn(h, x))

LEMMA OfferedTrees ==
    ASSUME NEW h, Sound(h), NEW x \in Ids, h[x] # Null, Holding(h, x) = {},
           NEW p \in Policies, NEW g, g = Offered(h, x, p)
    PROVE  /\ Sound(g) /\ g[x] # Null /\ g[x].kind = h[x].kind /\ g[x].name = h[x].name
           /\ TreeAt(g, x) = Offering(h, x, p)
           /\ \A y \in Addresses : y # x => g[y] = h[y]
           /\ \A y \in Addresses : h[y] # Null => TreesIn(g, y) = TreesIn(h, y)
           /\ \A y \in Addresses : Holding(g, y) = Holding(h, y)
<1>1. /\ WellTyped(h) /\ Closed(h) /\ Acyclic(h) /\ x \in Addresses
  BY DEF Sound, Addresses
<1>2. /\ WellTyped(g) /\ Closed(g) /\ \A y \in Addresses \ {x} : g[y] = h[y]
      /\ g[x] # Null /\ g[x].kind = h[x].kind /\ g[x].name = h[x].name
      /\ g[x].val = h[x].val /\ g[x].kids = h[x].kids
  BY <1>1, OfferedKeeps DEF AnyPolicy
<1>3. g[x].policy = IF h[x].kind \in ContainerKinds THEN p ELSE h[x].policy
  <2>1. h \in [Addresses -> Item \cup {Null}] /\ h[x] \in Item
    BY <1>1 DEF WellTyped
  <2>2. QED
    BY <1>1, <2>1 DEF Offered, Item
<1>4. \A y \in Addresses : Kids(g, y) = Kids(h, y)
  BY <1>2 DEF Kids
<1>5. Sound(g)
  <2>1. \A y \in Ids : g[y] # Null => h[y] # Null /\ Kids(g, y) \subseteq Kids(h, y)
    BY <1>2, <1>4 DEF Addresses
  <2>2. QED
    BY <1>1, <1>2, <2>1, AcyclicLess DEF Sound
<1>6. \A y \in Addresses : h[y] # Null => TreesIn(g, y) = TreesIn(h, y)
  <2> DEFINE X == {x}
  <2>1. \A y \in X : Holding(h, y) = {}
    OBVIOUS
  <2>2. \A y \in Addresses : h[y] # Null /\ y \notin X => g[y] = h[y]
    BY <1>2
  <2>3. \A y \in Addresses : g[y].kids = h[y].kids
    BY <1>2
  <2> HIDE DEF X
  <2>4. QED
    BY <2>1, <2>2, <2>3, TreesBeside
<1>7. TreeAt(g, x) = Node(g[x].kind, g[x].name, g[x].val, g[x].policy, TreesIn(g, x))
  BY <1>2, <1>5, TreeAtIs
<1>8. TreeAt(g, x) = Offering(h, x, p)
  BY <1>1, <1>2, <1>3, <1>6, <1>7 DEF Offering
<1>9. \A y \in Addresses : Holding(g, y) = Holding(h, y)
  BY <1>4 DEF Holding
<1>10. QED
  BY <1>2, <1>5, <1>6, <1>8, <1>9

\* An item goes in at the end of a container.
LEMMA PlacedTrees ==
    ASSUME NEW h, Sound(h), NEW t \in Addresses, IsContainer(h, t), Holding(h, t) = {},
           NEW x \in Ids, h[x] # Null, x # t,
           NEW rest \in Seq(Ids), \A k \in 1..Len(rest) : rest[k] \in Kids(h, t),
           NEW g, PutsKids(h, t, Append(rest, x), g)
    PROVE  /\ Sound(g) /\ g[t] # Null /\ g[t].kind = h[t].kind
           /\ DOMAIN TreesIn(g, t) = 1..(Len(rest) + 1)
           /\ \A k \in 1..Len(rest) : TreesIn(g, t)[k] = TreeAt(h, rest[k])
           /\ TreesIn(g, t)[Len(rest) + 1] = TreeAt(h, x)
           /\ \A y \in Addresses : y # t => g[y] = h[y]
           /\ \A y \in Addresses : h[y] # Null /\ y # t => TreesIn(g, y) = TreesIn(h, y)
<1> DEFINE kids == Append(rest, x)
<1>1. WellTyped(h) /\ Closed(h) /\ Acyclic(h) /\ h[t] # Null
  BY DEF Sound, IsContainer
<1>2. /\ kids \in Seq(Ids) /\ Len(kids) = Len(rest) + 1 /\ kids[Len(rest) + 1] = x
      /\ Len(rest) \in Nat /\ \A k \in 1..Len(rest) : kids[k] = rest[k]
  BY LenProperties, AppendKeeps
<1> HIDE DEF kids
<1>a. PutsKids(h, t, kids, g)
  BY DEF kids
<1>3. \A k \in 1..Len(kids) : k \in 1..Len(rest) \/ k = Len(rest) + 1
  BY <1>2
<1>4. \A k \in 1..Len(rest) : rest[k] \in Ids /\ rest[k] \in Addresses /\ h[rest[k]] # Null
  <2>1. \A k \in 1..Len(rest) : rest[k] \in Ids /\ rest[k] \in Addresses
    BY ElementOfSeq DEF Addresses
  <2>2. QED
    BY <1>1, <2>1 DEF Closed
<1>5. \A k \in 1..Len(kids) : kids[k] \in Ids /\ h[kids[k]] # Null
  BY <1>2, <1>3, <1>4
<1>6. /\ WellTyped(g) /\ Closed(g) /\ g[t] # Null /\ g[t].kind = h[t].kind
      /\ g[t].kids = kids /\ \A y \in Addresses \ {t} : g[y] = h[y]
  BY <1>1, <1>2, <1>5, <1>a, PutKids
<1>7. Acyclic(g)
  <2>1. ASSUME NEW y \in Addresses, g[y] # Null
        PROVE  /\ h[y] # Null
               /\ Kids(g, y) \subseteq Kids(h, y) \cup (IF y = t THEN {x} ELSE {})
    <3>1. CASE y = t
      <4>1. Kids(g, t) = {kids[k] : k \in 1..Len(kids)}
        <5>1. DOMAIN kids = 1..Len(kids)
          BY <1>2, LenProperties
        <5>2. QED
          BY <1>6, <5>1 DEF Kids, ToSet
      <4>2. \A k \in 1..Len(kids) : kids[k] \in Kids(h, t) \cup {x}
        BY <1>2, <1>3
      <4>3. QED
        BY <1>1, <3>1, <4>1, <4>2
    <3>2. CASE y # t
      BY <1>6, <2>1, <3>2 DEF Kids
    <3>3. QED
      BY <3>1, <3>2
  <2>2. QED
    BY <1>1, <1>6, <2>1, AcyclicMore
<1>8. /\ \A y \in Ids : h[y] # Null /\ y # t => TreeAt(g, y) = TreeAt(h, y)
      /\ \A y \in Addresses : h[y] # Null /\ y # t => TreesIn(g, y) = TreesIn(h, y)
  <2> DEFINE X == {t}
  <2>1. \A y \in X : Holding(h, y) = {}
    OBVIOUS
  <2>2. \A y \in Addresses : h[y] # Null /\ y \notin X => g[y] = h[y]
    BY <1>6
  <2>a. \A y \in Addresses : y \in X <=> y = t
    OBVIOUS
  <2> HIDE DEF X
  <2>3. /\ \A y \in Ids : h[y] # Null /\ y \notin X => TreeAt(g, y) = TreeAt(h, y)
        /\ \A y \in Addresses : h[y] # Null /\ g[y].kids = h[y].kids =>
              TreesIn(g, y) = TreesIn(h, y)
    BY <2>1, <2>2, TreesBeside, SMTT(30)
  <2>4. \A y \in Ids : y \in Addresses
    BY DEF Addresses
  <2>5. QED
    BY <1>6, <2>a, <2>3, <2>4
<1>9. \A k \in 1..Len(rest) : rest[k] # t
  BY <1>1 DEF Holding
<1>10. /\ DOMAIN TreesIn(g, t) = 1..Len(kids)
       /\ \A k \in 1..Len(kids) : TreesIn(g, t)[k] = TreeAt(g, kids[k])
  BY <1>6, TreesInIs
<1>11. /\ \A k \in 1..Len(rest) : TreesIn(g, t)[k] = TreeAt(h, rest[k])
       /\ TreesIn(g, t)[Len(rest) + 1] = TreeAt(h, x)
  <2>1. ASSUME NEW k \in 1..Len(rest)
        PROVE  TreesIn(g, t)[k] = TreeAt(h, rest[k])
    <3>1. k \in 1..Len(kids) /\ kids[k] = rest[k]
      BY <1>2
    <3>2. TreeAt(g, rest[k]) = TreeAt(h, rest[k])
      BY <1>4, <1>8, <1>9
    <3>3. QED
      BY <1>10, <3>1, <3>2
  <2>2. Len(rest) + 1 \in 1..Len(kids)
    BY <1>2
  <2>3. QED
    BY <1>2, <1>8, <1>10, <2>1, <2>2
<1>12. QED
  BY <1>2, <1>6, <1>7, <1>8, <1>10, <1>11 DEF Sound

\* t holds what is left of the trees, of which it held the first n before.
Holds(h, t, trees, n, p) ==
    /\ \E S : trees \in Seq(S)
    /\ n \in 0..Len(trees)
    /\ TreesIn(h, t) = Kept(h[t].kind, trees, n, p)
    /\ p = "ThrowException" => AllStay(h[t].kind, trees, n, p)

\* F gives the trees at those places, and t last.
Picks(F, trees, places, t) ==
    /\ F = [k \in DOMAIN F |-> F[k]]
    /\ DOMAIN F = 1..(Len(places) + 1)
    /\ \A k \in 1..Len(places) : places[k] \in 1..Len(trees) /\ F[k] = trees[places[k]]
    /\ F[Len(places) + 1] = t

\* What is kept when one more tree comes last.
LEMMA KeptGrows ==
    ASSUME NEW S, NEW trees \in Seq(S), NEW t \in S, NEW kind, NEW n, NEW p,
           NEW U, Appends(U, trees, t), NEW rest \in Seq(Nat),
           Appends(Places(kind, U, n, p), rest, Len(trees) + 1),
           NEW F, Picks(F, trees, rest, t)
    PROVE  Kept(kind, U, n, p) = F
<1> DEFINE K == Kept(kind, U, n, p)
           s == Places(kind, U, n, p)
<1>1. /\ U \in Seq(S) /\ Len(U) = Len(trees) + 1 /\ U[Len(trees) + 1] = t
      /\ Len(trees) \in Nat /\ \A k \in 1..Len(trees) : U[k] = trees[k]
  BY LenProperties, AppendKeeps DEF Appends
<1>2. /\ Len(rest) \in Nat /\ Len(s) = Len(rest) + 1 /\ s[Len(rest) + 1] = Len(trees) + 1
      /\ \A k \in 1..Len(rest) : s[k] = rest[k]
  BY <1>1, LenProperties, AppendKeeps DEF Appends
<1>3. K = [k \in DOMAIN K |-> K[k]]
  BY DEF Kept
<1>4. /\ DOMAIN K = 1..Len(s) /\ \A k \in 1..Len(s) : K[k] = U[s[k]]
  <2>1. s = Places(kind, U, n, p) /\ K = Kept(kind, U, n, p)
    OBVIOUS
  <2> HIDE DEF s, K
  <2>2. /\ DOMAIN Kept(kind, U, n, p) = 1..Len(s)
        /\ \A k \in 1..Len(s) : Kept(kind, U, n, p)[k] = U[s[k]]
    BY ONLY <1>1, <2>1, KeptIs
  <2>3. QED
    BY ONLY <2>1, <2>2
<1> HIDE DEF K, s
<1>5. ASSUME NEW k \in 1..Len(s)
      PROVE  K[k] = F[k]
  <2>1. CASE k = Len(rest) + 1
    BY <1>1, <1>2, <1>4, <2>1 DEF Picks
  <2>2. CASE k # Len(rest) + 1
    <3>1. k \in 1..Len(rest)
      BY <1>2, <2>2
    <3>2. QED
      BY <1>1, <1>2, <1>4, <3>1 DEF Picks
  <2>3. QED
    BY <2>1, <2>2
<1>6. K = F
  BY <1>2, <1>3, <1>4, <1>5 DEF Picks
<1>7. QED
  BY <1>6 DEF K

\* Wherever the trees are from, one more can be added.
LEMMA OneMore ==
    ASSUME NEW trees, \E S : trees \in Seq(S), NEW t
    PROVE  \E S : trees \in Seq(S) /\ t \in S /\ Append(trees, t) \in Seq(S)
<1>1. PICK S : trees \in Seq(S)
  OBVIOUS
<1> DEFINE R == S \cup {t}
<1>2. trees \in Seq(R)
  <2>1. /\ Len(trees) \in Nat /\ trees = [k \in 1..Len(trees) |-> trees[k]]
        /\ \A k \in 1..Len(trees) : trees[k] \in R
    BY <1>1, LenProperties, ElementOfSeq
  <2> HIDE DEF R
  <2>2. trees \in [1..Len(trees) -> R]
    BY <2>1
  <2>3. QED
    BY <2>1, <2>2, SeqDef
<1>3. t \in R
  OBVIOUS
<1> HIDE DEF R
<1>4. QED
  BY <1>2, <1>3, AppendProperties

\* Add has found a place for an item: no tree collides with its own, or under
\* Overwrite the one that does has gone.
LEMMA PlaceGrows ==
    ASSUME NEW g, Sound(g), NEW t \in Addresses, IsContainer(g, t), Holding(g, t) = {},
           NEW x \in Ids, g[x] # Null, x # t, NEW p \in Policies,
           NEW trees, NEW n, Holds(g, t, trees, n, p), NEW T, T = TreeAt(g, x),
           NEW U, Appends(U, trees, T), NEW K, K = TreesIn(g, t), NEW rest,
           \/ rest = g[t].kids /\ \A i \in DOMAIN K : ~Collide(g[t].kind, K[i], T)
           \/ /\ p = "Overwrite"
              /\ \E i \in DOMAIN K : /\ Collide(g[t].kind, K[i], T)
                                     /\ rest = RemoveAt(g[t].kids, i),
           NEW f, PutsKids(g, t, Append(rest, x), f)
    PROVE  /\ Sound(f) /\ f[t] # Null /\ f[t].kind = g[t].kind
           /\ \A y \in Addresses : y # t => f[y] = g[y]
           /\ \A y \in Addresses : g[y] # Null /\ y # t => TreesIn(f, y) = TreesIn(g, y)
           /\ Holds(f, t, U, n, p)
<1> DEFINE kids == g[t].kids
           kind == g[t].kind
           L == Len(trees)
           s == Places(kind, trees, n, p)
           F == TreesIn(f, t)
<1>1. /\ WellTyped(g) /\ g[t] # Null /\ n \in 0..L /\ K = Kept(kind, trees, n, p)
      /\ p = "ThrowException" => AllStay(kind, trees, n, p)
      /\ \E S : trees \in Seq(S)
  BY DEF Sound, IsContainer, Holds
<1>2. PICK S : trees \in Seq(S) /\ T \in S /\ U \in Seq(S)
  BY <1>1, OneMore DEF Appends
<1>3. /\ kids \in Seq(Ids) /\ Len(kids) \in Nat /\ DOMAIN K = 1..Len(kids)
      /\ \A k \in 1..Len(kids) : kids[k] \in Kids(g, t) /\ K[k] = TreeAt(g, kids[k])
  BY <1>1, TreesInIs
<1>a. s = Places(kind, trees, n, p)
  OBVIOUS
<1> HIDE DEF s
<1>4. /\ s \in Seq(Nat) /\ Len(s) \in Nat /\ L \in Nat
      /\ DOMAIN Kept(kind, trees, n, p) = 1..Len(s)
      /\ \A i \in 1..Len(s) : s[i] \in 1..L /\ Kept(kind, trees, n, p)[i] = trees[s[i]]
  <2> HIDE DEF kind
  <2>1. QED
    BY ONLY <1>2, <1>a, KeptIs
<1>5. Len(s) = Len(kids) /\ \A i \in 1..Len(s) : s[i] \in 1..L /\ K[i] = trees[s[i]]
  <2>1. 1..Len(s) = 1..Len(kids)
    BY <1>1, <1>3, <1>4
  <2>2. Len(s) = Len(kids)
    BY <1>3, <1>4, <2>1
  <2>3. QED
    BY <1>1, <1>4, <2>2
<1> HIDE DEF L
\* The places that are left, of the trees there were and of the items.
<1>6. PICK gone :
        /\ gone \in Seq(Nat) /\ rest \in Seq(Ids) /\ Len(rest) = Len(gone)
        /\ Appends(Places(kind, U, n, p), gone, L + 1)
        /\ p = "ThrowException" => AllStay(kind, U, n, p)
        /\ \A k \in 1..Len(rest) : \E j \in 1..Len(kids) :
              rest[k] = kids[j] /\ gone[k] = s[j]
  <2>1. CASE rest = kids /\ \A i \in DOMAIN K : ~Collide(kind, K[i], T)
    <3>1. /\ Appends(Places(kind, U, n, p), s, L + 1)
          /\ p = "ThrowException" => AllStay(kind, U, n, p)
      <4> HIDE DEF kind, kids
      <4>1. Appends(U, trees, T)
        OBVIOUS
      <4>2. /\ Appends(Places(kind, U, n, p), Places(kind, trees, n, p), Len(trees) + 1)
            /\ p = "ThrowException" => AllStay(kind, U, n, p)
        <5>1. /\ p \in Policies /\ trees \in Seq(S) /\ T \in S /\ n \in 0..Len(trees)
              /\ p = "ThrowException" => AllStay(kind, trees, n, p)
              /\ K = Kept(kind, trees, n, p) /\ \A i \in DOMAIN K : ~Collide(kind, K[i], T)
          BY <1>1, <1>2, <2>1 DEF L
        <5>2. QED
          BY ONLY <4>1, <5>1, KeptMore
      <4>3. QED
        BY <4>2, <1>a DEF L
    <3>2. QED
      BY <1>3, <1>4, <1>5, <2>1, <3>1
  <2>2. CASE /\ p = "Overwrite"
             /\ \E i \in DOMAIN K : Collide(kind, K[i], T) /\ rest = RemoveAt(kids, i)
    <3>1. PICK i \in DOMAIN K : Collide(kind, K[i], T) /\ rest = RemoveAt(kids, i)
      BY <2>2
    <3>2. i \in 1..Len(kids) /\ i \in 1..Len(s)
      BY <1>3, <1>5
    <3> DEFINE gone == RemoveAt(s, i)
    <3>3. Appends(Places(kind, U, n, p), gone, L + 1)
      <4> HIDE DEF kind, kids
      <4>1. Appends(U, trees, T)
        OBVIOUS
      <4>2. Appends(Places(kind, U, n, p), RemoveAt(Places(kind, trees, n, p), i),
                    Len(trees) + 1)
        <5>1. /\ p = "Overwrite" /\ p \in Policies /\ trees \in Seq(S) /\ T \in S
              /\ n \in 0..Len(trees) /\ i \in 1..Len(Places(kind, trees, n, p))
              /\ Collide(kind, trees[Places(kind, trees, n, p)[i]], T)
          BY <1>1, <1>2, <1>5, <1>a, <2>2, <3>1, <3>2 DEF L
        <5>2. QED
          BY ONLY <4>1, <5>1, KeptOverwrite
      <4>3. QED
        BY <4>2, <1>a DEF L
    <3>4. /\ rest \in Seq(Ids) /\ Len(rest) = Len(kids) - 1
          /\ \A k \in 1..(Len(kids) - 1) : rest[k] = IF k < i THEN kids[k] ELSE kids[k + 1]
      BY <1>3, <3>1, <3>2, RemoveAtIsErase
    <3>5. /\ gone \in Seq(Nat) /\ Len(gone) = Len(s) - 1
          /\ \A k \in 1..(Len(s) - 1) : gone[k] = IF k < i THEN s[k] ELSE s[k + 1]
      <4> HIDE DEF kind, kids
      <4>1. QED
        BY <1>4, <3>2, RemoveAtIsErase
    <3> HIDE DEF gone
    <3>6. ASSUME NEW k \in 1..Len(rest)
          PROVE  \E j \in 1..Len(kids) : rest[k] = kids[j] /\ gone[k] = s[j]
      <4>1. k \in 1..Len(kids) /\ k + 1 \in 1..Len(kids) /\ k \in 1..(Len(kids) - 1)
        BY <1>3, <3>4
      <4>2. CASE k < i
        BY <1>5, <3>4, <3>5, <4>1, <4>2
      <4>3. CASE ~(k < i)
        BY <1>5, <3>4, <3>5, <4>1, <4>3
      <4>4. QED
        BY <4>2, <4>3
    <3>7. p # "ThrowException"
      BY <2>2
    <3>8. gone \in Seq(Nat) /\ rest \in Seq(Ids) /\ Len(rest) = Len(gone)
      BY <1>5, <3>4, <3>5
    <3>9. QED
      BY ONLY <3>3, <3>6, <3>7, <3>8
  <2>3. QED
    BY <2>1, <2>2
<1>7. rest \in Seq(Ids) /\ \A k \in 1..Len(rest) : rest[k] \in Kids(g, t)
  BY <1>3, <1>6
<1>8. /\ Sound(f) /\ f[t] # Null /\ f[t].kind = kind
      /\ DOMAIN F = 1..(Len(rest) + 1)
      /\ \A k \in 1..Len(rest) : F[k] = TreeAt(g, rest[k])
      /\ F[Len(rest) + 1] = T
      /\ \A y \in Addresses : y # t => f[y] = g[y]
      /\ \A y \in Addresses : g[y] # Null /\ y # t => TreesIn(f, y) = TreesIn(g, y)
  BY <1>7, PlacedTrees
<1>9. F = [k \in DOMAIN F |-> F[k]]
  BY DEF TreesIn
<1> HIDE DEF F, kind, kids
<1>10. \A k \in 1..Len(gone) : gone[k] \in 1..L /\ F[k] = trees[gone[k]]
  <2>1. ASSUME NEW k \in 1..Len(gone)
        PROVE  gone[k] \in 1..L /\ F[k] = trees[gone[k]]
    <3>1. PICK j \in 1..Len(kids) : rest[k] = kids[j] /\ gone[k] = s[j]
      BY <1>6
    <3>2. F[k] = K[j]
      BY <1>3, <1>6, <1>8, <3>1
    <3>3. QED
      BY <1>5, <3>1, <3>2
  <2>2. QED
    BY <2>1
<1>11. Kept(kind, U, n, p) = F
  <2>1. Appends(U, trees, T)
    OBVIOUS
  <2>2. DOMAIN F = 1..(Len(gone) + 1) /\ F[Len(gone) + 1] = T
    BY <1>6, <1>8
  <2>3. /\ Appends(Places(kind, U, n, p), gone, Len(trees) + 1) /\ gone \in Seq(Nat)
        /\ Picks(F, trees, gone, T)
    BY <1>6, <1>9, <1>10, <2>2 DEF L, Picks
  <2>4. QED
    BY ONLY <1>2, <2>1, <2>3, KeptGrows
<1>12. n \in 0..Len(U)
  <2>1. Len(U) = L + 1
    BY <1>2, LenProperties, AppendKeeps DEF Appends, L
  <2>2. QED
    BY <1>1, <1>4, <2>1
<1>13. Holds(f, t, U, n, p)
  BY <1>2, <1>6, <1>8, <1>11, <1>12 DEF Holds, F
<1>14. QED
  BY <1>8, <1>13 DEF kind

\* The names that a container of that kind accepts.
Fitting(kind, name) == IF kind = "Group" THEN name \in Names ELSE name = NoName

\* What an Add that refuses T does not change, and why it does.
Refusal(h, t, trees, p, T, r) ==
    /\ r.out \in AddErrors
    /\ TreesIn(r.heap, t) = TreesIn(h, t)
    /\ T.kind # "Comment"
    /\ r.out = "InvalidName" <=> ~Fitting(h[t].kind, T.name)
    /\ r.out # "InvalidName" =>
          /\ p = "ThrowException"
          /\ \E i \in 1..Len(trees) : Collide(h[t].kind, trees[i], T)

\* An Add to a container that holds what it should: it refuses the item, or the
\* container holds what it should of one tree more.  Nothing else changes.
LEMMA AddTrees ==
    ASSUME NEW h, Sound(h), NEW t \in Addresses, IsContainer(h, t), Holding(h, t) = {},
           NEW x \in Ids, h[x] # Null, x # t, Holding(h, x) = {}, NEW p \in Policies,
           NEW trees, NEW n, Holds(h, t, trees, n, p),
           NEW T, T = Offering(h, x, p), NEW U, Appends(U, trees, T),
           NEW r, r = AddTo(h, t, x, p)
    PROVE  /\ Sound(r.heap) /\ r.heap[t].kind = h[t].kind
           /\ \A y \in Addresses : y # t /\ y # x => r.heap[y] = h[y]
           /\ \A y \in Addresses : h[y] # Null => r.heap[y] # Null
           /\ \A y \in Addresses : h[y] # Null /\ y # t => TreesIn(r.heap, y) = TreesIn(h, y)
           /\ \/ Refusal(h, t, trees, p, T, r)
              \/ /\ r.out \notin AddErrors /\ Holds(r.heap, t, U, n, p)
                 /\ T.kind = "Comment" \/ Fitting(h[t].kind, T.name)
<1> DEFINE g == Offered(h, x, p)
           kind == g[t].kind
           kids == g[t].kids
           K == TreesIn(g, t)
           m == FirstClash(g, t, x)
<1>1. /\ WellTyped(h) /\ Closed(h) /\ h[t] # Null /\ h[t].kind \in {"Group", "List"}
      /\ x \in Addresses
  BY DEF Sound, IsContainer, Addresses, ContainerKinds
<1>2. g = Offered(h, x, p)
  OBVIOUS
<1> HIDE DEF g
<1>3. /\ Sound(g) /\ g[x] # Null /\ g[x].kind = h[x].kind /\ g[x].name = h[x].name
      /\ TreeAt(g, x) = T
      /\ \A y \in Addresses : y # x => g[y] = h[y]
      /\ \A y \in Addresses : h[y] # Null => TreesIn(g, y) = TreesIn(h, y)
      /\ \A y \in Addresses : Holding(g, y) = Holding(h, y)
  BY <1>2, OfferedTrees
<1>4. /\ g[t] = h[t] /\ IsContainer(g, t) /\ Holding(g, t) = {} /\ K = TreesIn(h, t)
      /\ kind = h[t].kind /\ WellTyped(g) /\ Closed(g) /\ g[t] # Null
  BY <1>1, <1>3 DEF IsContainer, Sound, WellTyped
<1>5. Holds(g, t, trees, n, p)
  BY <1>4 DEF Holds
<1>6. T.kind = h[x].kind /\ T.name = h[x].name
  BY DEF Offering, Node
<1>7. /\ kids \in Seq(Ids) /\ Len(kids) \in Nat /\ DOMAIN K = 1..Len(kids)
      /\ \A k \in 1..Len(kids) : /\ kids[k] \in Ids /\ kids[k] \in Kids(g, t)
                                 /\ K[k] = TreeAt(g, kids[k])
  BY <1>4, TreesInIs
<1>8. ASSUME NEW k \in 1..Len(kids), h[x].kind # "Comment"
      PROVE  Clashes(g, t, x, kids[k]) <=> Collide(kind, K[k], T)
  <2>1. kids[k] \in Ids /\ kids[k] \in Addresses /\ g[kids[k]] # Null
    BY <1>4, <1>7 DEF Closed, Addresses
  <2>2. g[x].kind # "Comment"
    BY <1>3, <1>8
  <2>3. Clashes(g, t, x, kids[k]) <=> Collide(g[t].kind, TreeAt(g, kids[k]), TreeAt(g, x))
    BY <1>3, <2>1, <2>2, ClashMeans
  <2>4. QED
    BY <1>3, <1>7, <2>3
<1>9. BadlyNamed(g, t, x) <=> ~Fitting(kind, T.name)
  BY <1>1, <1>3, <1>4, <1>6 DEF BadlyNamed, Fitting
<1>10. /\ m \in 0..Len(kids)
       /\ m = 0 => \A k \in 1..Len(kids) : ~Clashes(g, t, x, kids[k])
       /\ m # 0 => Clashes(g, t, x, kids[m])
  BY <1>7, FirstClashFound
<1>11. r = PlaceIn(g, t, x, p)
  BY <1>2 DEF AddTo
<1> HIDE DEF kids, kind, K, m
\* The item has gone in at the end of what is left of the others.
<1>12. ASSUME NEW rest, PutsKids(g, t, Append(rest, x), r.heap), r.out = "added",
              \/ rest = kids /\ \A i \in 1..Len(kids) : ~Collide(kind, K[i], T)
              \/ /\ p = "Overwrite"
                 /\ \E i \in 1..Len(kids) : Collide(kind, K[i], T) /\ rest = RemoveAt(kids, i)
       PROVE  /\ Sound(r.heap) /\ r.heap[t].kind = h[t].kind
              /\ \A y \in Addresses : y # t /\ y # x => r.heap[y] = h[y]
              /\ \A y \in Addresses : h[y] # Null => r.heap[y] # Null
              /\ \A y \in Addresses :
                    h[y] # Null /\ y # t => TreesIn(r.heap, y) = TreesIn(h, y)
              /\ r.out \notin AddErrors /\ Holds(r.heap, t, U, n, p)
  <2> DEFINE f == r.heap
  <2>1. \/ rest = g[t].kids /\ \A i \in DOMAIN K : ~Collide(g[t].kind, K[i], T)
        \/ /\ p = "Overwrite"
           /\ \E i \in DOMAIN K : /\ Collide(g[t].kind, K[i], T)
                                  /\ rest = RemoveAt(g[t].kids, i)
    BY <1>7, <1>12 DEF kids, kind
  <2>2. PutsKids(g, t, Append(rest, x), f)
    BY <1>12
  <2>3. K = TreesIn(g, t)
    BY DEF K
  <2> HIDE DEF f
  <2>4. /\ Sound(f) /\ f[t] # Null /\ f[t].kind = g[t].kind
        /\ \A y \in Addresses : y # t => f[y] = g[y]
        /\ \A y \in Addresses : g[y] # Null /\ y # t => TreesIn(f, y) = TreesIn(g, y)
        /\ Holds(f, t, U, n, p)
    BY <1>3, <1>4, <1>5, <2>1, <2>2, <2>3, PlaceGrows
  <2>5. Holds(f, t, U, n, p)
    BY <2>4
  <2>6. "added" \notin AddErrors
    BY DEF AddErrors
  <2>8. \A y \in Addresses : h[y] # Null => g[y] # Null /\ f[y] # Null
    BY <1>1, <1>3, <2>4
  <2>9. QED
    BY <1>3, <1>4, <1>12, <2>4, <2>5, <2>6, <2>8 DEF f
\* The heap is the one the item was offered in.
<1>13. ASSUME r.heap = g
       PROVE  /\ Sound(r.heap) /\ r.heap[t].kind = h[t].kind
              /\ \A y \in Addresses : y # t /\ y # x => r.heap[y] = h[y]
              /\ \A y \in Addresses : h[y] # Null => r.heap[y] # Null
              /\ \A y \in Addresses :
                    h[y] # Null /\ y # t => TreesIn(r.heap, y) = TreesIn(h, y)
              /\ TreesIn(r.heap, t) = TreesIn(h, t)
  BY <1>1, <1>3, <1>4, <1>13
<1>14. ASSUME h[x].kind # "Comment", m # 0
       PROVE  /\ m \in 1..Len(kids) /\ Collide(kind, K[m], T)
              /\ \E i \in 1..Len(trees) : trees[i] = K[m]
  <2>1. m \in 1..Len(kids)
    BY <1>7, <1>10, <1>14
  <2>2. \E S : trees \in Seq(S)
    BY <1>5 DEF Holds
  <2>3. PICK S : trees \in Seq(S)
    BY <2>2
  <2>4. K = Kept(kind, trees, n, p)
    BY <1>5 DEF Holds, K, kind
  <2> DEFINE s == Places(kind, trees, n, p)
  <2>5. s = Places(kind, trees, n, p)
    OBVIOUS
  <2> HIDE DEF s
  <2>6. DOMAIN K = 1..Len(s) /\ \A i \in 1..Len(s) : s[i] \in 1..Len(trees) /\ K[i] = trees[s[i]]
    BY ONLY <2>3, <2>4, <2>5, KeptIs
  <2>7. QED
    BY <1>8, <1>10, <1>14, <2>1, <2>6, <1>7
<1>15. CASE h[x].kind = "Comment"
  <2>1. r = Placed(g, t, kids, x)
    BY <1>3, <1>11, <1>15 DEF PlaceIn, kids
  <2>2. \A i \in 1..Len(kids) : ~Collide(kind, K[i], T)
    BY <1>6, <1>15 DEF Collide
  <2>3. PutsKids(g, t, Append(kids, x), r.heap) /\ r.out = "added"
    BY <2>1 DEF Placed, PutsKids
  <2>4. T.kind = "Comment"
    BY <1>6, <1>15
  <2>5. QED
    BY <1>12, <2>2, <2>3, <2>4
<1>16. CASE h[x].kind # "Comment" /\ BadlyNamed(g, t, x)
  <2>1. r = Refused(g, "InvalidName")
    BY <1>3, <1>11, <1>16 DEF PlaceIn
  <2>2. r.heap = g /\ r.out = "InvalidName"
    BY <2>1 DEF Refused
  <2>3. Refusal(h, t, trees, p, T, r)
    BY <1>4, <1>6, <1>9, <1>13, <1>16, <2>2 DEF Refusal, AddErrors, kind
  <2>4. QED
    BY <1>13, <2>2, <2>3
<1>17. CASE h[x].kind # "Comment" /\ ~BadlyNamed(g, t, x) /\ m = 0
  <2>1. r = Placed(g, t, kids, x)
    BY <1>3, <1>11, <1>17 DEF PlaceIn, kids, m
  <2>2. \A i \in 1..Len(kids) : ~Collide(kind, K[i], T)
    BY <1>8, <1>10, <1>17
  <2>3. PutsKids(g, t, Append(kids, x), r.heap) /\ r.out = "added"
    BY <2>1 DEF Placed, PutsKids
  <2>4. Fitting(h[t].kind, T.name)
    BY <1>4, <1>9, <1>17
  <2>5. QED
    BY <1>12, <2>2, <2>3, <2>4
<1>18. CASE h[x].kind # "Comment" /\ ~BadlyNamed(g, t, x) /\ m # 0 /\ p = "Keep"
  <2>1. r = [heap |-> g, out |-> "kept", item |-> kids[m]]
    BY <1>3, <1>11, <1>18 DEF PlaceIn, kids, m
  <2>2. r.heap = g /\ r.out = "kept" /\ "kept" \notin AddErrors
    BY <2>1 DEF AddErrors
  <2>3. PICK i \in 1..Len(trees) : Collide(kind, trees[i], T)
    BY <1>14, <1>18
  <2>4. PICK S : trees \in Seq(S) /\ T \in S /\ Append(trees, T) \in Seq(S)
    BY <1>5, OneMore DEF Holds
  <2>5. K = Kept(kind, trees, n, p) /\ n \in 0..Len(trees)
    BY <1>5 DEF Holds, K, kind
  <2>6. Places(kind, U, n, p) = Places(kind, trees, n, p)
    BY <1>18, <2>3, <2>4, <2>5, KeptKeep
  <2> DEFINE s == Places(kind, trees, n, p)
             V == Kept(kind, U, n, p)
  <2>7. /\ DOMAIN K = 1..Len(s)
        /\ \A j \in 1..Len(s) : s[j] \in 1..Len(trees) /\ K[j] = trees[s[j]]
    BY ONLY <2>4, <2>5, KeptIs
  <2>8. /\ U \in Seq(S) /\ Len(U) = Len(trees) + 1
        /\ Len(trees) \in Nat /\ \A j \in 1..Len(trees) : U[j] = trees[j]
    BY <2>4, LenProperties, AppendKeeps DEF Appends
  <2>9. DOMAIN V = 1..Len(s) /\ \A j \in 1..Len(s) : V[j] = U[s[j]]
    <3>1. s = Places(kind, U, n, p)
      BY <2>6
    <3> HIDE DEF s
    <3>2. QED
      BY ONLY <2>8, <3>1, KeptIs
  <2>10. V = [j \in DOMAIN V |-> V[j]] /\ K = [j \in DOMAIN K |-> K[j]]
    BY <2>5 DEF Kept
  <2> HIDE DEF V, s
  <2>11. \A j \in 1..Len(s) : V[j] = K[j]
    BY <2>7, <2>8, <2>9
  <2>12. V = K
    BY <2>7, <2>9, <2>10, <2>11
  <2>13. Holds(g, t, U, n, p)
    BY <1>18, <2>5, <2>8, <2>12 DEF Holds, V, K, kind
  <2>14. Fitting(h[t].kind, T.name)
    BY <1>4, <1>9, <1>18
  <2>15. QED
    BY <1>13, <2>2, <2>13, <2>14
<1>19. CASE h[x].kind # "Comment" /\ ~BadlyNamed(g, t, x) /\ m # 0 /\ p = "Overwrite"
  <2>1. r = Placed(g, t, RemoveAt(kids, m), x)
    BY <1>3, <1>11, <1>19 DEF PlaceIn, kids, m
  <2>2. m \in 1..Len(kids) /\ Collide(kind, K[m], T)
    BY <1>14, <1>19
  <2>3. PutsKids(g, t, Append(RemoveAt(kids, m), x), r.heap) /\ r.out = "added"
    BY <2>1 DEF Placed, PutsKids
  <2>4. Fitting(h[t].kind, T.name)
    BY <1>4, <1>9, <1>19
  <2>5. QED
    BY <1>12, <1>19, <2>2, <2>3, <2>4
<1>20. CASE h[x].kind # "Comment" /\ ~BadlyNamed(g, t, x) /\ m # 0 /\ p = "ThrowException"
  <2>1. r = Refused(g, IF kind = "Group" THEN "ItemNameAlreadyExists" ELSE "ItemAlreadyExists")
    BY <1>3, <1>11, <1>20 DEF PlaceIn, m, kind
  <2>2. r.heap = g /\ r.out \in AddErrors /\ r.out # "InvalidName"
    BY <2>1 DEF Refused, AddErrors
  <2>3. \E i \in 1..Len(trees) : Collide(kind, trees[i], T)
    BY <1>14, <1>20
  <2>4. Refusal(h, t, trees, p, T, r)
    BY <1>4, <1>6, <1>9, <1>13, <1>20, <2>2, <2>3 DEF Refusal, kind
  <2>5. QED
    BY <1>13, <2>2, <2>4
<1>21. QED
  BY <1>15, <1>16, <1>17, <1>18, <1>19, <1>20 DEF Policies

\* Add changes no name and no payload.
LEMMA AddKeepsLooks ==
    ASSUME NEW h, WellTyped(h), Closed(h), NEW t \in Addresses, IsContainer(h, t),
           NEW x \in Ids, h[x] # Null, NEW p \in Policies, NEW r, r = AddTo(h, t, x, p)
    PROVE  \A y \in Addresses : h[y] # Null =>
              /\ r.heap[y].name = h[y].name /\ r.heap[y].val = h[y].val
              /\ y # x => r.heap[y].policy = h[y].policy
<1> DEFINE g == Offered(h, x, p)
<1>1. x \in Addresses /\ h \in [Addresses -> Item \cup {Null}]
  BY DEF Addresses, WellTyped
<1>2. \A y \in Addresses : h[y] # Null => h[y] \in Item
  BY <1>1
<1>3. \A y \in Addresses : h[y] # Null =>
         /\ g[y] # Null /\ g[y].name = h[y].name /\ g[y].val = h[y].val
         /\ y # x => g[y].policy = h[y].policy
  <2>1. \A y \in Addresses \ {x} : g[y] = h[y]
    BY <1>1 DEF Offered
  <2>2. g[x] # Null
    BY <1>1, OfferedKeeps DEF AnyPolicy
  <2>3. g[x].name = h[x].name /\ g[x].val = h[x].val
    BY <1>1, <1>2 DEF Offered, Item
  <2>4. QED
    BY <2>1, <2>2, <2>3
<1>4. WellTyped(g)
  BY <1>1, OfferedKeeps DEF AnyPolicy
<1>5. r.heap = g \/ Grown(g, t, x, r.heap)
  BY AddToAnswer
<1> HIDE DEF g
<1>6. ASSUME NEW rest, NEW f, f = [g EXCEPT ![t].kids = rest], NEW y \in Addresses, g[y] # Null
      PROVE  f[y].name = g[y].name /\ f[y].val = g[y].val /\ f[y].policy = g[y].policy
  <2>1. g \in [Addresses -> Item \cup {Null}] /\ g[y] \in Item
    BY <1>4, <1>6 DEF WellTyped
  <2>2. CASE y = t
    BY <1>6, <2>1, <2>2 DEF Item
  <2>3. CASE y # t
    BY <1>6, <2>1, <2>3
  <2>4. QED
    BY <2>2, <2>3
<1>7. CASE r.heap = g
  BY <1>3, <1>7
<1>8. CASE Grown(g, t, x, r.heap)
  <2>1. PICK rest : r.heap = [g EXCEPT ![t].kids = Append(rest, x)]
    BY <1>8 DEF Grown
  <2>2. \A y \in Addresses : g[y] # Null =>
           /\ r.heap[y].name = g[y].name /\ r.heap[y].val = g[y].val
           /\ r.heap[y].policy = g[y].policy
    BY <1>6, <2>1
  <2>3. QED
    BY <1>3, <2>2
<1>9. QED
  BY <1>5, <1>7, <1>8

\* A new item, in no container and with nothing in it.
LEMMA FreshTrees ==
    ASSUME NEW h, Sound(h), NEW x \in Ids, h[x] = Null,
           NEW kind \in Kinds, NEW name \in AnyName, NEW val \in Vals \cup {NoVal},
           NEW g, Puts(h, x, NewItem(kind, name, val), g)
    PROVE  /\ Sound(g) /\ g[x] # Null /\ Holding(g, x) = {}
           /\ g[x].kind = kind /\ g[x].name = name /\ g[x].val = val
           /\ g[x].policy = "ThrowException" /\ TreesIn(g, x) = <<>>
           /\ \A y \in Addresses : h[y] # Null =>
                 y # x /\ g[y] = h[y] /\ TreesIn(g, y) = TreesIn(h, y)
<1> DEFINE item == NewItem(kind, name, val)
           none == <<>>
<1>1. /\ item.kids = none /\ item.kind = kind /\ item.name = name /\ item.val = val
      /\ item.policy = "ThrowException"
  BY DEF NewItem
<1>2. item \in Item
  BY EmptySeq DEF NewItem, Item, AnyPolicy, Policies
<1>3. WellTyped(h) /\ Closed(h) /\ Acyclic(h) /\ x \in Addresses /\ x \notin Configs
  BY AddressesAssumption DEF Sound, Addresses
<1>4. Len(none) = 0 /\ none = <<>> /\ DOMAIN none = {}
  BY EmptySeq
<1> HIDE DEF item, none
<1>5. Puts(h, x, item, g)
  BY DEF item
<1>6. /\ x \in Configs => item.kind = "Group"
      /\ item.kids # <<>> => item.kind \in ContainerKinds
      /\ \A k \in 1..Len(item.kids) : h[item.kids[k]] # Null
  BY <1>1, <1>3, <1>4
<1>7. /\ WellTyped(g) /\ Closed(g) /\ g[x] = item /\ g[x] # Null
      /\ \A y \in Addresses \ {x} : g[y] = h[y]
  BY <1>2, <1>3, <1>5, <1>6, PutItem
<1>8. Holding(h, x) = {}
  BY <1>3, HeldByNone
<1>9. Kids(g, x) = {}
  BY <1>1, <1>4, <1>7 DEF Kids, ToSet
<1>10. \A y \in Addresses : Kids(g, y) \subseteq Kids(h, y)
  BY <1>7, <1>9 DEF Kids
<1>11. Holding(g, x) = {}
  BY <1>8, <1>10 DEF Holding
<1>12. Acyclic(g)
  <2>1. \A y \in Ids : g[y] # Null /\ Kids(g, y) # {} =>
           h[y] # Null /\ Kids(g, y) \subseteq Kids(h, y)
    BY <1>7, <1>9, <1>10 DEF Addresses
  <2>2. QED
    BY <1>3, <2>1, AcyclicLess
<1>13. \A y \in Addresses : h[y] # Null =>
          y # x /\ g[y] = h[y] /\ TreesIn(g, y) = TreesIn(h, y)
  <2>1. \A y \in Addresses : h[y] # Null => y # x /\ g[y] = h[y]
    BY <1>7
  <2> DEFINE X == {x}
  <2>2. \A z \in X : Holding(h, z) = {}
    BY <1>8
  <2>3. \A y \in Addresses : h[y] # Null /\ y \notin X => g[y] = h[y]
    BY <2>1
  <2> HIDE DEF X
  <2>4. \A y \in Addresses : h[y] # Null /\ g[y].kids = h[y].kids =>
           TreesIn(g, y) = TreesIn(h, y)
    BY <2>2, <2>3, TreesBeside
  <2>5. QED
    BY <2>1, <2>4
<1>14. TreesIn(g, x) = <<>>
  <2>1. TreesIn(g, x) = [k \in DOMAIN none |-> TreeAt(g, none[k])]
    BY <1>1, <1>7 DEF TreesIn
  <2>2. TreesIn(g, x) = <<>>
    BY <1>4, <2>1
  <2>3. QED
    BY <2>2
<1>15. QED
  BY <1>1, <1>3, <1>7, <1>11, <1>12, <1>13, <1>14 DEF Sound
=============================================================================
