-------------------------- MODULE BinaryFileProofs --------------------------
(***************************************************************************)
(* Proofs about BinaryFile: what a Writer writes, type correctness of a    *)
(* load whatever the file is, that it keeps names and values unique, that  *)
(* it refuses a file that was cut short, and that it brings back from a    *)
(* whole one what was saved.                                               *)
(***************************************************************************)
EXTENDS BinaryRoundTrip, TreesProofs

-----------------------------------------------------------------------------
(* What a Writer writes *)

\* Sequences are laid end to end one after the other.
LEMMA FlattenSteps ==
    ASSUME NEW S, NEW ss \in Seq(Seq(S)), ss # <<>>
    PROVE  \E flat \in [1..Len(ss) -> Seq(S)] :
              /\ FlattenSeq(ss) = flat[Len(ss)] /\ flat[1] = ss[1]
              /\ \A i \in 2..Len(ss) : flat[i] = flat[i - 1] \o ss[i]
<1> DEFINE n == Len(ss)
           Is(f) == f = [i \in 1..n |-> IF i = 1 THEN ss[i] ELSE f[i - 1] \o ss[i]]
           flatten == CHOOSE f : Is(f)
           step == [k \in 1..(n - 1) |-> [s \in Seq(S) |-> s \o ss[k + 1]]]
<1>1. FlattenSeq(ss) = flatten[n]
  <2>1. n # 0
    BY LenProperties, EmptySeq
  <2>2. QED
    BY <2>1 DEF FlattenSeq
<1>2. n \in Nat /\ n - 1 \in Nat /\ n \in 1..n /\ \A k \in 1..n : ss[k] \in Seq(S)
  BY LenProperties, ElementOfSeq, EmptySeq
<1> HIDE DEF n
<1>3. step \in [1..(n - 1) -> [Seq(S) -> Seq(S)]]
  <2>1. \A k \in 1..(n - 1) : k + 1 \in 1..n
    BY <1>2
  <2>2. \A k \in 1..(n - 1) : \A s \in Seq(S) : s \o ss[k + 1] \in Seq(S)
    BY <1>2, <2>1
  <2>3. QED
    BY <2>2
<1>4. PICK f : Iterates(f, n - 1, Seq(S), ss[1], step)
  <2>1. ss[1] \in Seq(S)
    BY <1>2
  <2> HIDE DEF step
  <2>2. QED
    BY <1>2, <1>3, <2>1, RecursionExists
<1>5. \E g : Is(g)
  <2> DEFINE g == [i \in 1..n |-> f[i - 1]]
  <2>1. ASSUME NEW i \in 1..n
        PROVE  g[i] = IF i = 1 THEN ss[i] ELSE g[i - 1] \o ss[i]
    <3>1. CASE i = 1
      BY <1>2, <1>4, <3>1 DEF Iterates
    <3>2. CASE i # 1
      <4>1. i - 1 \in 1..(n - 1) /\ i - 1 \in 1..n /\ i - 1 - 1 \in 0..(n - 1)
            /\ i - 1 + 1 = i
        BY <1>2, <3>2
      <4>2. f[i - 1] = step[i - 1][f[i - 1 - 1]] /\ f[i - 1 - 1] \in Seq(S)
        BY <1>4, <4>1 DEF Iterates
      <4>3. step[i - 1][f[i - 1 - 1]] = f[i - 1 - 1] \o ss[i]
        BY <4>1, <4>2
      <4>4. QED
        BY <3>2, <4>1, <4>2, <4>3
    <3>3. QED
      BY <3>1, <3>2
  <2>2. Is(g)
    BY <2>1
  <2>3. QED
    BY <2>2
<1>6. Is(flatten)
  BY <1>5
<1>7. /\ flatten = [i \in 1..n |-> flatten[i]]
      /\ \A i \in 1..n : flatten[i] = IF i = 1 THEN ss[i] ELSE flatten[i - 1] \o ss[i]
  <2>1. flatten = [i \in 1..n |-> IF i = 1 THEN ss[i] ELSE flatten[i - 1] \o ss[i]]
    BY <1>6
  <2> HIDE DEF flatten
  <2>2. QED
    BY <2>1
<1> HIDE DEF flatten
<1> DEFINE Bad == {i \in 1..n : flatten[i] \notin Seq(S)}
<1>8. Bad = {}
  <2>1. SUFFICES ASSUME Bad # {}
                 PROVE  FALSE
    OBVIOUS
  <2>2. PICK m \in Bad : \A j \in Bad : m <= j
    <3>1. Bad \in SUBSET Nat
      OBVIOUS
    <3> HIDE DEF Bad
    <3>2. QED
      BY <2>1, <3>1, LeastElement
  <2>3. CASE m = 1
    BY <1>2, <1>7, <2>2, <2>3
  <2>4. CASE m # 1
    <3>1. m - 1 \in 1..n /\ m - 1 \notin Bad
      BY <1>2, <2>2, <2>4
    <3>2. flatten[m - 1] \in Seq(S) /\ ss[m] \in Seq(S)
      BY <1>2, <3>1
    <3>3. QED
      <4>1. flatten[m] = flatten[m - 1] \o ss[m]
        BY <1>7, <2>2, <2>4
      <4>2. flatten[m - 1] \o ss[m] \in Seq(S)
        BY <3>2, ConcatProperties
      <4>3. QED
        BY <2>2, <4>1, <4>2
  <2>5. QED
    BY <2>3, <2>4
<1>9. flatten \in [1..n -> Seq(S)]
  <2>1. \A i \in 1..n : flatten[i] \in Seq(S)
    BY <1>8
  <2>2. QED
    BY <1>7, <2>1
<1>10. 1 \in 1..n /\ \A i \in 2..n : i \in 1..n /\ i # 1
  BY <1>2
<1>11. flatten[1] = ss[1]
  BY <1>7, <1>10
<1>12. ASSUME NEW i \in 2..n
      PROVE  flatten[i] = flatten[i - 1] \o ss[i]
  <2>1. flatten[i] = IF i = 1 THEN ss[i] ELSE flatten[i - 1] \o ss[i]
    BY <1>7, <1>10
  <2>2. QED
    BY <1>10, <2>1
<1>13. QED
  BY <1>1, <1>9, <1>11, <1>12 DEF n

LEMMA FlattenTyped ==
    ASSUME NEW S, NEW ss \in Seq(Seq(S))
    PROVE  FlattenSeq(ss) \in Seq(S)
<1>1. CASE ss = <<>>
  <2>1. Len(ss) = 0
    BY <1>1, EmptySeq
  <2>2. QED
    BY <2>1, EmptySeq DEF FlattenSeq
<1>2. CASE ss # <<>>
  <2>1. Len(ss) \in Nat /\ Len(ss) \in 1..Len(ss)
    BY <1>2, FrontAndLast
  <2>2. PICK flat \in [1..Len(ss) -> Seq(S)] : FlattenSeq(ss) = flat[Len(ss)]
    BY <1>2, FlattenSteps
  <2>3. QED
    BY <2>1, <2>2
<1>3. QED
  BY <1>1, <1>2

\* What a field of a kind may hold.
Admits(of) ==
    CASE of = "magic" -> {"STBTCF", "other"}
      [] of = "version" -> Nat
      [] of = "policy" -> AnyPolicy \cup {"absent"}
      [] of = "type" -> {"Container", "Comment", "other"} \cup {KindOf[v] : v \in Vals \cup {NoVal}}
      [] of = "container" -> ContainerKinds \cup {"other"}
      [] of = "count" -> Nat
      [] of = "name" -> AnyName
      [] of = "payload" -> Vals \cup {NoVal}
      [] of \in {"part", "junk"} -> {0}

TypedField == UNION {[of: {of}, is: Admits(of)] : of \in Fields}

LEMMA FieldTyped ==
    ASSUME NEW of \in Fields, NEW is \in Admits(of)
    PROVE  Field(of, is) \in TypedField
BY DEF Field, TypedField

-----------------------------------------------------------------------------
(* What a Writer promises: the counts of a file are promises of items, which *)
(* the items redeem                                                         *)

\* How many more items are owed after a field than before it.
Weight(f) ==
    CASE f.of = "count" -> f.is - 1
      [] f.of = "payload" -> 0 - 1
      [] f.of \notin {"count", "payload"} -> 0

\* L keeps the account of s, from nothing.
Ledger(s, L) ==
    /\ L \in [0..Len(s) -> Int] /\ L[0] = 0
    /\ \A k \in 1..Len(s) : L[k] = L[k - 1] + Weight(s[k])

\* What is owed within s is at least low, and at its end at least end.
Owes(s, low, end) ==
    \E L : /\ Ledger(s, L) /\ L[Len(s)] >= end
           /\ \A k \in 0..(Len(s) - 1) : L[k] >= low

\* A whole item, or nothing: there is nothing owed before its last field.
Piece == {s \in Seq(TypedField) : Owes(s, 0, 0 - 1)}

LEMMA WeightIsInt ==
    ASSUME NEW f \in TypedField
    PROVE  Weight(f) \in Int
<1>1. PICK of \in Fields : f.of = of /\ f.is \in Admits(of)
  BY DEF TypedField
<1>2. CASE of = "count"
  <2>1. f.is \in Nat
    BY <1>1, <1>2 DEF Admits
  <2>2. QED
    BY <1>1, <1>2, <2>1 DEF Weight
<1>3. CASE of # "count"
  BY <1>1, <1>3 DEF Weight
<1>4. QED
  BY <1>2, <1>3

\* Fields that promise and redeem nothing before the last of them.
LEMMA OwesLast ==
    ASSUME NEW s \in Seq(TypedField), NEW w \in Int, NEW low \in Int,
           Len(s) = 0 => w = 0, Len(s) = 0 \/ low <= 0,
           \A k \in 1..Len(s) : Weight(s[k]) = IF k = Len(s) THEN w ELSE 0
    PROVE  Owes(s, low, w)
<1> DEFINE n == Len(s)
           L == [k \in 0..n |-> IF k = n THEN w ELSE 0]
<1>1. n \in Nat
  BY LenProperties
<1> HIDE DEF n
<1>2. /\ L \in [0..n -> Int] /\ L[0] = 0 /\ L[n] = w
      /\ \A k \in 1..n : L[k] = L[k - 1] + Weight(s[k])
      /\ \A k \in 0..(n - 1) : L[k] >= low
  <2>1. \A k \in 0..n : L[k] = IF k = n THEN w ELSE 0
    OBVIOUS
  <2>2. L[0] = 0 /\ L[n] = w
    BY <1>1, <2>1 DEF n
  <2>3. ASSUME NEW k \in 1..n
        PROVE  L[k] = L[k - 1] + Weight(s[k])
    <3>1. k \in 0..n /\ k - 1 \in 0..n /\ k - 1 # n
      BY <1>1
    <3>2. L[k - 1] = 0
      BY <2>1, <3>1
    <3>3. L[k] = Weight(s[k])
      BY <2>1, <3>1 DEF n
    <3>4. QED
      BY <2>1, <3>1, <3>2, <3>3
  <2>4. ASSUME NEW k \in 0..(n - 1)
        PROVE  L[k] >= low
    <3>1. k \in 0..n /\ k # n /\ n # 0
      BY <1>1
    <3>2. L[k] = 0 /\ low <= 0
      BY <2>1, <3>1 DEF n
    <3>3. QED
      BY <3>2
  <2>5. L \in [0..n -> Int]
    OBVIOUS
  <2>6. QED
    BY <2>2, <2>3, <2>4, <2>5
<1> HIDE DEF L
<1>3. QED
  BY <1>2 DEF Owes, Ledger, n

\* The account of one text goes on where that of the one before it ends.
LEMMA OwesConcat ==
    ASSUME NEW s \in Seq(TypedField), NEW t \in Seq(TypedField),
           NEW l1 \in Int, NEW e1 \in Int, Owes(s, l1, e1),
           NEW l2 \in Int, NEW e2 \in Int, Owes(t, l2, e2),
           NEW low \in Int, low <= l1, low <= e1 + l2
    PROVE  Owes(s \o t, low, e1 + e2)
<1> DEFINE m  == Len(s)
           n  == Len(t)
           st == s \o t
<1>1. /\ m \in Nat /\ n \in Nat /\ st \in Seq(TypedField) /\ Len(st) = m + n
      /\ \A i \in 1..(m + n) : st[i] = IF i <= m THEN s[i] ELSE t[i - m]
  BY ConcatProperties, LenProperties
<1>2. PICK L : /\ Ledger(s, L) /\ L[m] >= e1
               /\ \A k \in 0..(m - 1) : L[k] >= l1
  BY DEF Owes
<1>3. PICK M : /\ Ledger(t, M) /\ M[n] >= e2
               /\ \A k \in 0..(n - 1) : M[k] >= l2
  BY DEF Owes
<1>4. /\ \A k \in 0..m : L[k] \in Int
      /\ L[0] = 0 /\ \A k \in 1..m : L[k] = L[k - 1] + Weight(s[k])
  BY <1>2 DEF Ledger
<1>5. /\ \A k \in 0..n : M[k] \in Int
      /\ M[0] = 0 /\ \A k \in 1..n : M[k] = M[k - 1] + Weight(t[k])
  BY <1>3 DEF Ledger
<1> DEFINE K == [k \in 0..(m + n) |-> IF k <= m THEN L[k] ELSE L[m] + M[k - m]]
<1> HIDE DEF m, n, st
<1>6. \A k \in 0..m : k \in 0..(m + n) /\ K[k] = L[k]
  BY <1>1
<1>7. \A k \in 0..n : m + k \in 0..(m + n) /\ K[m + k] = L[m] + M[k]
  <2>1. SUFFICES ASSUME NEW k \in 0..n
                 PROVE  m + k \in 0..(m + n) /\ K[m + k] = L[m] + M[k]
    OBVIOUS
  <2>2. m + k \in 0..(m + n) /\ m + k - m = k /\ (m + k <= m => k = 0) /\ m \in 0..m
    BY <1>1
  <2>3. L[m] \in Int
    BY <1>4, <2>2
  <2>4. K[m + k] = IF m + k <= m THEN L[m + k] ELSE L[m] + M[m + k - m]
    BY <2>2
  <2>5. CASE m + k <= m
    <3>1. k = 0 /\ m + k = m /\ M[k] = 0
      BY <1>1, <1>5, <2>2, <2>5
    <3>2. K[m + k] = L[m]
      BY <2>4, <2>5, <3>1
    <3>3. QED
      BY <2>2, <2>3, <3>1, <3>2
  <2>6. CASE ~(m + k <= m)
    BY <2>2, <2>4, <2>6
  <2>7. QED
    BY <2>5, <2>6
<1>8. K \in [0..(m + n) -> Int]
  <2>1. SUFFICES ASSUME NEW k \in 0..(m + n)
                 PROVE  (IF k <= m THEN L[k] ELSE L[m] + M[k - m]) \in Int
    OBVIOUS
  <2>2. CASE k <= m
    <3>1. k \in 0..m
      BY <1>1, <2>2
    <3>2. QED
      BY <1>4, <2>2, <3>1
  <2>3. CASE ~(k <= m)
    <3>1. k - m \in 0..n /\ m \in 0..m
      BY <1>1, <2>3
    <3>2. L[m] \in Int /\ M[k - m] \in Int
      BY <1>4, <1>5, <3>1
    <3>3. QED
      BY <2>3, <3>2
  <2>4. QED
    BY <2>2, <2>3
<1> HIDE DEF K
<1>9. \A k \in 0..(m + n) : k \in 0..m \/ \E j \in 1..n : k = m + j
  <2>1. SUFFICES ASSUME NEW k \in 0..(m + n), k \notin 0..m
                 PROVE  \E j \in 1..n : k = m + j
    OBVIOUS
  <2>2. k - m \in 1..n /\ k = m + (k - m)
    BY <1>1, <2>1
  <2>3. QED
    BY <2>2
<1>10. ASSUME NEW k \in 1..(m + n)
       PROVE  K[k] = K[k - 1] + Weight(st[k])
  <2>1. k \in 0..(m + n)
    BY <1>1
  <2>2. CASE k \in 0..m
    <3>1. k \in 1..m /\ k - 1 \in 0..m /\ k <= m
      BY <1>1, <2>2
    <3>2. QED
      BY <1>1, <1>4, <1>6, <2>2, <3>1
  <2>3. ASSUME NEW j \in 1..n, k = m + j
        PROVE  K[k] = K[k - 1] + Weight(st[k])
    <3>1. /\ j \in 0..n /\ j - 1 \in 0..n /\ m + (j - 1) = k - 1
          /\ ~(k <= m) /\ k - m = j /\ m \in 0..m
      BY <1>1, <2>3
    <3>2. K[k] = L[m] + M[j] /\ K[k - 1] = L[m] + M[j - 1]
      BY <1>7, <2>3, <3>1
    <3>3. st[k] = t[j] /\ M[j] = M[j - 1] + Weight(t[j])
      BY <1>1, <1>5, <3>1
    <3>4. /\ L[m] \in Int /\ M[j - 1] \in Int /\ Weight(t[j]) \in Int
      <4>1. t[j] \in TypedField
        BY ElementOfSeq DEF n
      <4>2. QED
        BY <1>4, <1>5, <3>1, <4>1, WeightIsInt
    <3>5. QED
      BY <3>2, <3>3, <3>4
  <2>4. QED
    BY <1>9, <2>1, <2>2, <2>3
<1>11. ASSUME NEW k \in 0..(m + n - 1)
       PROVE  K[k] >= low
  <2>1. k \in 0..(m + n) /\ m \in 0..m /\ L[m] \in Int /\ L[m] >= e1
    BY <1>1, <1>2, <1>4
  <2>2. CASE k \in 0..(m - 1)
    <3>1. k \in 0..m /\ L[k] \in Int /\ L[k] >= l1
      BY <1>1, <1>2, <1>4, <2>2
    <3>2. QED
      BY <1>6, <3>1
  <2>3. CASE k \notin 0..(m - 1)
    <3>1. k - m \in 0..(n - 1) /\ k - m \in 0..n /\ m + (k - m) = k
      BY <1>1, <2>3
    <3>2. K[k] = L[m] + M[k - m] /\ M[k - m] \in Int /\ M[k - m] >= l2
      BY <1>3, <1>5, <1>7, <3>1
    <3>3. QED
      BY <2>1, <3>2
  <2>4. QED
    BY <2>2, <2>3
<1>12. K[0] = 0 /\ K[m + n] >= e1 + e2
  <2>1. /\ 0 \in 0..m /\ n \in 0..n /\ m \in 0..m
        /\ L[m] \in Int /\ M[n] \in Int /\ L[m] >= e1 /\ M[n] >= e2
    BY <1>1, <1>2, <1>3, <1>4, <1>5
  <2>2. K[0] = L[0] /\ K[m + n] = L[m] + M[n]
    BY <1>6, <1>7, <2>1
  <2>3. QED
    BY <1>4, <2>1, <2>2
<1>13. Ledger(st, K)
  BY <1>1, <1>8, <1>10, <1>12 DEF Ledger
<1>14. QED
  BY <1>1, <1>11, <1>12, <1>13 DEF Owes, st

\* The items of a container redeem one promise each at the most.
LEMMA FlattenOwes ==
    ASSUME NEW ss \in Seq(Piece)
    PROVE  /\ FlattenSeq(ss) \in Seq(TypedField)
           /\ Owes(FlattenSeq(ss), 1 - Len(ss), 0 - Len(ss))
<1> DEFINE n == Len(ss)
<1>1. n \in Nat /\ \A i \in 1..n : ss[i] \in Piece
  BY LenProperties, ElementOfSeq
<1>2. ss \in Seq(Seq(TypedField))
  <2>1. Piece \subseteq Seq(TypedField)
    BY DEF Piece
  <2>2. QED
    BY <2>1
<1>3. CASE ss = <<>>
  <2> DEFINE none == <<>>
  <2>1. FlattenSeq(ss) = none /\ Len(ss) = 0
    BY <1>3, EmptySeq DEF FlattenSeq
  <2>2. none \in Seq(TypedField) /\ Len(none) = 0
    BY EmptySeq
  <2> HIDE DEF none
  <2>3. /\ 0 \in Int /\ 1 \in Int
        /\ \A k \in 1..Len(none) : Weight(none[k]) = IF k = Len(none) THEN 0 ELSE 0
    BY <2>2
  <2>4. Owes(none, 1, 0)
    BY <2>2, <2>3, OwesLast
  <2>5. 1 - 0 = 1 /\ 0 - 0 = 0
    OBVIOUS
  <2>6. QED
    BY <2>1, <2>2, <2>4, <2>5
<1>4. CASE ss # <<>>
  <2>1. n \in 1..n
    BY <1>4, FrontAndLast
  <2>2. PICK flat \in [1..n -> Seq(TypedField)] :
           /\ FlattenSeq(ss) = flat[n] /\ flat[1] = ss[1]
           /\ \A i \in 2..n : flat[i] = flat[i - 1] \o ss[i]
    BY <1>2, <1>4, FlattenSteps
  <2> HIDE DEF n
  <2> DEFINE Bad == {i \in 1..n : ~Owes(flat[i], 1 - i, 0 - i)}
  <2>3. Bad = {}
    <3>1. SUFFICES ASSUME Bad # {}
                   PROVE  FALSE
      OBVIOUS
    <3>2. PICK m \in Bad : \A j \in Bad : m <= j
      <4>1. Bad \in SUBSET Nat
        OBVIOUS
      <4> HIDE DEF Bad
      <4>2. QED
        BY <3>1, <4>1, LeastElement
    <3>3. m \in 1..n /\ ~Owes(flat[m], 1 - m, 0 - m)
      OBVIOUS
    <3>4. CASE m = 1
      <4>1. ss[1] \in Piece /\ flat[1] = ss[1] /\ 1 - 1 = 0
        BY <1>1, <2>2, <3>3, <3>4
      <4>2. Owes(flat[1], 1 - 1, 0 - 1)
        BY <4>1 DEF Piece
      <4>3. QED
        BY <3>3, <3>4, <4>2
    <3>5. CASE m # 1
      <4>1. m - 1 \in 1..n /\ m - 1 \notin Bad /\ m \in 2..n
        BY <1>1, <3>2, <3>3, <3>5
      <4>2. Owes(flat[m - 1], 1 - (m - 1), 0 - (m - 1)) /\ flat[m - 1] \in Seq(TypedField)
        BY <2>2, <4>1
      <4>3. ss[m] \in Seq(TypedField) /\ Owes(ss[m], 0, 0 - 1)
        BY <1>1, <3>3 DEF Piece
      <4>4. /\ 1 - (m - 1) \in Int /\ 0 - (m - 1) \in Int /\ 1 - m \in Int
            /\ 1 - m <= 1 - (m - 1) /\ 1 - m <= 0 - (m - 1) + 0
            /\ 0 - (m - 1) + (0 - 1) = 0 - m /\ 0 \in Int /\ 0 - 1 \in Int
        BY <3>3
      <4>5. Owes(flat[m - 1] \o ss[m], 1 - m, 0 - (m - 1) + (0 - 1))
        BY <4>2, <4>3, <4>4, OwesConcat
      <4>6. QED
        BY <2>2, <3>3, <4>1, <4>4, <4>5
    <3>6. QED
      BY <3>4, <3>5
  <2>4. Owes(flat[n], 1 - n, 0 - n) /\ flat[n] \in Seq(TypedField)
    BY <2>1, <2>2, <2>3
  <2>5. QED
    BY <2>2, <2>4 DEF n
<1>5. QED
  BY <1>3, <1>4

\* What Writer makes of an item, given what it makes of its items.
Block(h, x, more) ==
    BaseOf(h[x]) \o
    IF h[x].kind \notin ContainerKinds THEN <<Field("payload", h[x].val)>>
    ELSE <<Field("container", h[x].kind), Field("count", Len(h[x].kids))>>
           \o FlattenSeq(more)

LEMMA BlockPiece ==
    ASSUME NEW h, WellTyped(h), NEW x \in Addresses, h[x] # Null,
           NEW more \in Seq(Piece), Len(more) = Len(h[x].kids)
    PROVE  Block(h, x, more) \in Piece
<1>1. /\ h[x].kind \in Kinds /\ h[x].name \in AnyName /\ h[x].val \in Vals \cup {NoVal}
      /\ h[x].kids \in Seq(Ids)
  BY ItemFields DEF Item
<1>2. TypeOf(h[x]) \in Admits("type")
  <2>1. CASE h[x].kind \in ContainerKinds
    BY <2>1 DEF TypeOf, Admits, ContainerKinds
  <2>2. CASE h[x].kind = "Comment"
    BY <2>2 DEF TypeOf, ContainerKinds, Admits
  <2>3. CASE h[x].kind = "Value"
    <3>1. TypeOf(h[x]) = KindOf[h[x].val]
      BY <2>3 DEF TypeOf, ContainerKinds
    <3>2. QED
      BY <1>1, <3>1 DEF Admits
  <2>4. QED
    BY <1>1, <2>1, <2>2, <2>3 DEF Kinds
<1>3. /\ Field("type", TypeOf(h[x])) \in TypedField /\ Field("name", h[x].name) \in TypedField
      /\ Field("payload", h[x].val) \in TypedField
      /\ Field("count", Len(h[x].kids)) \in TypedField
  <2>1. \A of \in Fields : \A is \in Admits(of) : Field(of, is) \in TypedField
    BY FieldTyped
  <2>2. /\ TypeOf(h[x]) \in Admits("type") /\ h[x].name \in Admits("name")
        /\ h[x].val \in Admits("payload") /\ Len(h[x].kids) \in Admits("count")
    BY <1>1, <1>2, LenProperties DEF Admits
  <2>3. QED
    BY <2>1, <2>2 DEF Fields
<1>4. h[x].kind \in ContainerKinds => Field("container", h[x].kind) \in TypedField
  <2>1. h[x].kind \in ContainerKinds => h[x].kind \in Admits("container")
    BY DEF Admits, ContainerKinds
  <2>2. QED
    BY <2>1, FieldTyped DEF Fields
<1> DEFINE base == BaseOf(h[x])
           leaf == <<Field("payload", h[x].val)>>
           head == <<Field("container", h[x].kind), Field("count", Len(h[x].kids))>>
           rest == FlattenSeq(more)
<1>5. /\ rest \in Seq(TypedField)
      /\ Owes(rest, 1 - Len(h[x].kids), 0 - Len(h[x].kids))
  BY FlattenOwes
<1>6. Len(h[x].kids) \in Nat
  BY <1>1, LenProperties
<1>7. /\ base \in Seq(TypedField) /\ leaf \in Seq(TypedField)
      /\ h[x].kind \in ContainerKinds => head \in Seq(TypedField)
  BY <1>3, <1>4 DEF BaseOf
<1>8. Owes(base, 0, 0)
  <2>1. Len(base) = 2 /\ \A k \in 1..2 : Weight(base[k]) = 0
    BY DEF BaseOf, Field, Weight
  <2> HIDE DEF base
  <2>2. /\ 0 \in Int /\ Len(base) # 0 /\ 0 <= 0
        /\ \A k \in 1..Len(base) : Weight(base[k]) = IF k = Len(base) THEN 0 ELSE 0
    BY <2>1
  <2>3. QED
    BY <1>7, <2>2, OwesLast
<1>9. Owes(leaf, 0, 0 - 1)
  <2>1. Len(leaf) = 1 /\ \A k \in 1..1 : Weight(leaf[k]) = 0 - 1
    BY DEF Field, Weight
  <2> HIDE DEF leaf
  <2>2. /\ 0 \in Int /\ 0 - 1 \in Int /\ Len(leaf) # 0 /\ 0 <= 0
        /\ \A k \in 1..Len(leaf) : Weight(leaf[k]) = IF k = Len(leaf) THEN 0 - 1 ELSE 0
    BY <2>1
  <2>3. QED
    BY <1>7, <2>2, OwesLast
<1>10. h[x].kind \in ContainerKinds => Owes(head, 0, Len(h[x].kids) - 1)
  <2>1. /\ Len(head) = 2 /\ Weight(head[1]) = 0 /\ Weight(head[2]) = Len(h[x].kids) - 1
    BY DEF Field, Weight
  <2>2. /\ 0 \in Int /\ Len(h[x].kids) - 1 \in Int /\ Len(head) # 0 /\ 0 <= 0
        /\ \A k \in 1..Len(head) : Weight(head[k]) = IF k = Len(head) THEN Len(h[x].kids) - 1 ELSE 0
    BY <1>6, <2>1
  <2> HIDE DEF head
  <2>3. QED
    BY <1>7, <2>1, <2>2, OwesLast
<1>11. Block(h, x, more) =
          base \o IF h[x].kind \notin ContainerKinds THEN leaf ELSE head \o rest
  BY DEF Block
<1> HIDE DEF base, leaf, head, rest
<1>12. h[x].kind \in ContainerKinds => head \o rest \in Seq(TypedField) /\ Owes(head \o rest, 0, 0 - 1)
  <2> DEFINE c == Len(h[x].kids)
  <2>1. /\ c - 1 \in Int /\ 1 - c \in Int /\ 0 - c \in Int /\ 0 <= c - 1 + (1 - c)
        /\ c - 1 + (0 - c) = 0 - 1
    BY <1>6
  <2>2. Owes(rest, 1 - c, 0 - c)
    BY <1>5
  <2>3. h[x].kind \in ContainerKinds => head \in Seq(TypedField) /\ Owes(head, 0, c - 1)
    BY <1>7, <1>10
  <2> HIDE DEF c
  <2>4. h[x].kind \in ContainerKinds => Owes(head \o rest, 0, c - 1 + (0 - c))
    BY <1>5, <2>1, <2>2, <2>3, OwesConcat
  <2>5. QED
    BY <1>5, <2>1, <2>3, <2>4, ConcatProperties
<1>13. \A t \in Seq(TypedField) : Owes(t, 0, 0 - 1) => base \o t \in Piece
  <2>1. SUFFICES ASSUME NEW t \in Seq(TypedField), Owes(t, 0, 0 - 1)
                 PROVE  base \o t \in Piece
    OBVIOUS
  <2>2. Owes(base \o t, 0, 0 + (0 - 1))
    BY <1>7, <1>8, <2>1, OwesConcat
  <2>3. base \o t \in Seq(TypedField) /\ 0 + (0 - 1) = 0 - 1
    BY <1>7, ConcatProperties
  <2>4. QED
    BY <2>2, <2>3 DEF Piece
<1>14. QED
  BY <1>7, <1>9, <1>11, <1>12, <1>13

\* f is what the recursion of Written yields at each depth.
WrittenTo(h, f) ==
    /\ \A c \in Addresses : Written(h, c) = f[Cardinality(Ids)][c]
    /\ \A n \in 0..Cardinality(Ids), x \in Addresses :
          h[x] # Null =>
             /\ f[n][x] \in Piece
             /\ f[n][x] = Block(h, x, [k \in DOMAIN h[x].kids |->
                                IF n = 0 THEN <<>> ELSE f[n - 1][h[x].kids[k]]])

\* What Writer makes of the items of a document at each depth: fields of their
\* types, and nothing is owed before the last of them.
LEMMA WrittenLevels ==
    ASSUME NEW h, WellTyped(h), Closed(h)
    PROVE  \E f : WrittenTo(h, f)
<1> DEFINE N     == Cardinality(Ids)
           items == {x \in Addresses : h[x] # Null}
           Is(f) == f = [n \in 0..N |-> [x \in items |->
                           BaseOf(h[x]) \o
                           IF h[x].kind \notin ContainerKinds THEN <<Field("payload", h[x].val)>>
                           ELSE <<Field("container", h[x].kind), Field("count", Len(h[x].kids))>>
                                  \o FlattenSeq([k \in DOMAIN h[x].kids |->
                                        IF n = 0 THEN <<>> ELSE f[n - 1][h[x].kids[k]]])]]
           written == CHOOSE f : Is(f)
<1>1. \A c \in Addresses : Written(h, c) = written[N][c]
  BY DEF Written
<1> DEFINE S        == [items -> Piece]
           level(g) == [x \in items |->
                          Block(h, x, [k \in DOMAIN h[x].kids |-> g[h[x].kids[k]]])]
           none     == [x \in items |-> <<>>]
           step     == [n \in 1..N |-> [g \in S |-> level(g)]]
<1>2. N \in Nat
  BY FS_CardinalityType, AddressesAssumption
<1>3. ASSUME NEW x \in items
      PROVE  /\ x \in Addresses /\ h[x] # Null
             /\ h[x].kids \in Seq(Ids) /\ DOMAIN h[x].kids = 1..Len(h[x].kids)
             /\ Len(h[x].kids) \in Nat
             /\ \A k \in DOMAIN h[x].kids : h[x].kids[k] \in items
  <2>1. h[x].kids \in Seq(Ids) /\ Kids(h, x) = {h[x].kids[k] : k \in 1..Len(h[x].kids)}
    BY ItemFields
  <2>2. DOMAIN h[x].kids = 1..Len(h[x].kids) /\ Len(h[x].kids) \in Nat
    BY <2>1, LenProperties
  <2>3. \A k \in 1..Len(h[x].kids) : h[x].kids[k] \in Ids
    BY <2>1, ElementOfSeq
  <2>4. QED
    BY <2>1, <2>2, <2>3 DEF Closed, Addresses
<1> HIDE DEF N, items
<1>4. ASSUME NEW x \in items, NEW more, DOMAIN more = DOMAIN h[x].kids,
             \A k \in DOMAIN more : more[k] \in Piece,
             more = [k \in DOMAIN more |-> more[k]]
      PROVE  Block(h, x, more) \in Piece
  <2>1. more \in Seq(Piece) /\ Len(more) = Len(h[x].kids)
    BY <1>3, <1>4
  <2>2. QED
    BY <1>3, <2>1, BlockPiece
<1>5. ASSUME NEW g \in S
      PROVE  level(g) \in S
  <2>1. ASSUME NEW x \in items
        PROVE  Block(h, x, [k \in DOMAIN h[x].kids |-> g[h[x].kids[k]]]) \in Piece
    <3> DEFINE more == [k \in DOMAIN h[x].kids |-> g[h[x].kids[k]]]
    <3>1. /\ DOMAIN more = DOMAIN h[x].kids
          /\ \A k \in DOMAIN more : more[k] \in Piece
          /\ more = [k \in DOMAIN more |-> more[k]]
      BY <1>3
    <3> HIDE DEF more
    <3>2. Block(h, x, more) \in Piece
      BY <1>4, <3>1
    <3>3. QED
      BY <3>2 DEF more
  <2>2. QED
    BY <2>1
<1>6. <<>> \in Piece
  <2> DEFINE empty == <<>>
  <2>1. empty \in Seq(TypedField) /\ Len(empty) = 0
    BY EmptySeq
  <2> HIDE DEF empty
  <2>2. Owes(empty, 0, 0)
    <3>1. /\ 0 \in Int
          /\ \A k \in 1..Len(empty) : Weight(empty[k]) = IF k = Len(empty) THEN 0 ELSE 0
      BY <2>1
    <3>2. QED
      BY <2>1, <3>1, OwesLast
  <2>3. Owes(empty, 0, 0 - 1)
    <3>1. PICK L : /\ Ledger(empty, L) /\ L[Len(empty)] >= 0
                   /\ \A k \in 0..(Len(empty) - 1) : L[k] >= 0
      BY <2>2 DEF Owes
    <3>2. L[Len(empty)] \in Int
      BY <2>1, <3>1 DEF Ledger
    <3>3. L[Len(empty)] >= 0 - 1
      BY <3>1, <3>2
    <3>4. QED
      BY <3>1, <3>3 DEF Owes
  <2>4. QED
    BY <2>1, <2>3 DEF Piece, empty
<1>7. none \in S
  BY <1>6
<1>8. PICK f : Iterates(f, N, S, level(none), step)
  <2>1. level(none) \in S /\ step \in [1..N -> [S -> S]]
    BY <1>5, <1>7
  <2> HIDE DEF level, none, step, S
  <2>2. QED
    BY <1>2, <2>1, RecursionExists
<1>9. \E F : Is(F)
  <2> DEFINE F == [n \in 0..N |-> [x \in items |-> f[n][x]]]
  <2>1. ASSUME NEW n \in 0..N, NEW x \in items
        PROVE  f[n][x] = Block(h, x, [k \in DOMAIN h[x].kids |->
                                        IF n = 0 THEN <<>> ELSE F[n - 1][h[x].kids[k]]])
    <3>1. CASE n = 0
      <4>1. f[0][x] = Block(h, x, [k \in DOMAIN h[x].kids |-> none[h[x].kids[k]]])
        BY <1>8 DEF Iterates
      <4>2. [k \in DOMAIN h[x].kids |-> none[h[x].kids[k]]]
              = [k \in DOMAIN h[x].kids |-> IF n = 0 THEN <<>> ELSE F[n - 1][h[x].kids[k]]]
        BY <1>3, <3>1
      <4>3. QED
        BY <3>1, <4>1, <4>2
    <3>2. CASE n # 0
      <4>1. n \in 1..N /\ n - 1 \in 0..N
        BY <1>2, <3>2
      <4>2. f[n] = level(f[n - 1])
        <5>1. f[n] = step[n][f[n - 1]] /\ f[n - 1] \in S
          BY <1>8, <4>1 DEF Iterates
        <5>2. QED
          BY <4>1, <5>1
      <4>3. f[n][x] = Block(h, x, [k \in DOMAIN h[x].kids |-> f[n - 1][h[x].kids[k]]])
        BY <4>2
      <4>4. \A y \in items : F[n - 1][y] = f[n - 1][y]
        BY <4>1
      <4>5. [k \in DOMAIN h[x].kids |-> f[n - 1][h[x].kids[k]]]
              = [k \in DOMAIN h[x].kids |-> IF n = 0 THEN <<>> ELSE F[n - 1][h[x].kids[k]]]
        BY <1>3, <3>2, <4>4
      <4>6. QED
        BY <4>3, <4>5
    <3>3. QED
      BY <3>1, <3>2
  <2>2. Is(F)
    BY <2>1 DEF Block
  <2>3. QED
    BY <2>2
<1>10. Is(written)
  BY <1>9
<1>11. ASSUME NEW n \in 0..N, NEW x \in items
       PROVE  written[n][x] = Block(h, x, [k \in DOMAIN h[x].kids |->
                                 IF n = 0 THEN <<>> ELSE written[n - 1][h[x].kids[k]]])
  <2> DEFINE row(m) ==
        [y \in items |->
           BaseOf(h[y]) \o
           IF h[y].kind \notin ContainerKinds THEN <<Field("payload", h[y].val)>>
           ELSE <<Field("container", h[y].kind), Field("count", Len(h[y].kids))>>
                  \o FlattenSeq([k \in DOMAIN h[y].kids |->
                                   IF m = 0 THEN <<>> ELSE written[m - 1][h[y].kids[k]]])]
  <2>1. written = [m \in 0..N |-> row(m)]
    <3> HIDE DEF written
    <3>1. QED
      BY <1>10
  <2> HIDE DEF written
  <2>2. row(n)[x] = Block(h, x, [k \in DOMAIN h[x].kids |->
                                   IF n = 0 THEN <<>> ELSE written[n - 1][h[x].kids[k]]])
    BY DEF Block
  <2> HIDE DEF row
  <2>3. written[n] = row(n)
    BY <2>1
  <2>4. QED
    BY <2>2, <2>3
<1> HIDE DEF written
<1> DEFINE Bad == {n \in 0..N : \E x \in items : written[n][x] \notin Piece}
<1>12. Bad = {}
  <2>1. SUFFICES ASSUME Bad # {}
                 PROVE  FALSE
    OBVIOUS
  <2>2. PICK n \in Bad : \A j \in Bad : n <= j
    <3>1. Bad \in SUBSET Nat
      BY <1>2
    <3> HIDE DEF Bad
    <3>2. QED
      BY <2>1, <3>1, LeastElement
  <2>3. PICK x \in items : written[n][x] \notin Piece
    OBVIOUS
  <2> DEFINE more == [k \in DOMAIN h[x].kids |->
                        IF n = 0 THEN <<>> ELSE written[n - 1][h[x].kids[k]]]
  <2>4. \A k \in DOMAIN h[x].kids : more[k] \in Piece
    <3>1. CASE n = 0
      BY <1>6, <3>1
    <3>2. CASE n # 0
      <4>1. n - 1 \in 0..N /\ n - 1 \notin Bad
        BY <1>2, <2>2, <3>2
      <4>2. \A y \in items : written[n - 1][y] \in Piece
        BY <4>1
      <4>3. QED
        BY <1>3, <3>2, <4>2
    <3>3. QED
      BY <3>1, <3>2
  <2>5. DOMAIN more = DOMAIN h[x].kids /\ more = [k \in DOMAIN more |-> more[k]]
    OBVIOUS
  <2>6. written[n][x] = Block(h, x, more)
    BY <1>11
  <2> HIDE DEF more
  <2>7. QED
    BY <1>4, <2>3, <2>4, <2>5, <2>6
<1>13. \A n \in 0..N, x \in items : written[n][x] \in Piece
  BY <1>12
<1>14. QED
  <2>1. \A x \in Addresses : h[x] # Null => x \in items
    BY DEF items
  <2>2. ASSUME NEW n \in 0..N, NEW x \in Addresses, h[x] # Null
        PROVE  /\ written[n][x] \in Piece
               /\ written[n][x] = Block(h, x, [k \in DOMAIN h[x].kids |->
                                     IF n = 0 THEN <<>> ELSE written[n - 1][h[x].kids[k]]])
    <3>1. x \in items
      BY <2>1, <2>2
    <3>2. written[n][x] \in Piece
      BY <1>13, <3>1
    <3>3. written[n][x] = Block(h, x, [k \in DOMAIN h[x].kids |->
                                 IF n = 0 THEN <<>> ELSE written[n - 1][h[x].kids[k]]])
      BY <1>11, <3>1
    <3>4. QED
      BY <3>2, <3>3
  <2>3. \A n \in 0..N, x \in Addresses :
           h[x] # Null =>
              /\ written[n][x] \in Piece
              /\ written[n][x] = Block(h, x, [k \in DOMAIN h[x].kids |->
                                    IF n = 0 THEN <<>> ELSE written[n - 1][h[x].kids[k]]])
    BY <2>2
  <2>4. \A c \in Addresses : Written(h, c) = written[N][c]
    BY <1>1
  <2>5. WrittenTo(h, written)
    BY <2>3, <2>4 DEF WrittenTo, N
  <2>6. QED
    BY <2>5

LEMMA WrittenPiece ==
    ASSUME NEW h, WellTyped(h), Closed(h), NEW c \in Addresses, h[c] # Null
    PROVE  Written(h, c) \in Piece
<1>1. Cardinality(Ids) \in 0..Cardinality(Ids)
  BY IdsCounted
<1>2. PICK f : WrittenTo(h, f)
  BY WrittenLevels
<1>3. QED
  BY <1>1, <1>2 DEF WrittenTo

-----------------------------------------------------------------------------
(* The inductive invariant *)

Opening == [at: Addresses, left: Nat]

\* What the activations in fs rely on: each fills a live container, no two the
\* same one, the outermost the root; those that wait for a nested container
\* have an item to come.
Stacked(h, fs) ==
    /\ fs \in Seq(Opening)
    /\ \A k \in 1..Len(fs) : IsContainer(h, fs[k].at)
    /\ \A k \in 1..Len(fs) : IF k = 1 THEN fs[k].at = Loaded ELSE fs[k].at \in Ids
    /\ \A j, k \in 1..Len(fs) : j # k => fs[j].at # fs[k].at
    /\ \A k \in 1..(Len(fs) - 1) : fs[k].left > 0
    /\ \A k \in 1..Len(fs) : k # 1 => h[fs[k].at].policy \in Policies

\* The containers that need not be tidy if the items in S belong to the Config:
\* the root is one of them if the file gave it a policy that is none.
Beyond(h, S) ==
    Addresses \ (S \cup (IF h[Loaded].policy \in Policies THEN {Loaded} ELSE {}))

\* The items in S are all that belongs to the Config being loaded, or loaded,
\* every container among them is tidy, and the root's items are named as they must.
Covers(h, fs, S) ==
    /\ Kids(h, Loaded) \subseteq S /\ Locals(fs) \subseteq S
    /\ \A y \in S : Kids(h, y) \subseteq S
    /\ Neat(h, Beyond(h, S))
    /\ NamedFit(h, h[Loaded].kind, h[Loaded].kids)

Good(h, fs) ==
    /\ WellTyped(h) /\ Closed(h) /\ Stacked(h, fs)
    /\ \E S \in SUBSET Ids : Covers(h, fs, S)

\* A load may bring a policy that is none; no client sets one.
PoliciesTyped(q) ==
    /\ q \in [Configs -> AnyPolicy]
    /\ \A c \in Configs \ {Loaded} : q[c] \in Policies

\* The rest of the state: there is nothing of a load before it begins, and
\* nothing ever of a third Config.
Control ==
    /\ \A c \in Configs \ {Source, Loaded} : Kids(heap, c) = {}
    /\ PoliciesTyped(policy)
    /\ file \in Seq(TypedField)
    /\ damage \in {"none", "cut", "longer", "altered"}
    /\ phase \in {"edit", "saved", "load", "over"}
    /\ pos \in 1..(Len(file) + 1)
    /\ ret \in {"none", "loaded", "DeserializeError"}
    /\ phase # "load" => frames = <<>>
    /\ phase \in {"edit", "saved"} => pos = 1 /\ Kids(heap, Loaded) = {}

FileSound == Good(heap, frames) /\ Control

-----------------------------------------------------------------------------
(* Activations *)

LEMMA StackedEmpty ==
    ASSUME NEW h
    PROVE  Stacked(h, <<>>) /\ Locals(<<>>) = {}
BY EmptySeq DEF Stacked, Locals, ToSet

\* The containers that are held, by position.
LEMMA LocalsAre ==
    ASSUME NEW fs \in Seq(Opening)
    PROVE  /\ Locals(fs) \subseteq Ids
           /\ \A k \in 1..Len(fs) : fs[k].at \in Ids => fs[k].at \in Locals(fs)
           /\ \A l \in Locals(fs) : \E k \in 1..Len(fs) : l = fs[k].at
<1>1. DOMAIN fs = 1..Len(fs)
  BY LenProperties
<1>2. /\ \A k \in 1..Len(fs) : fs[k] \in ToSet(fs)
      /\ \A f \in ToSet(fs) : \E k \in 1..Len(fs) : f = fs[k]
  BY <1>1 DEF ToSet
<1>3. QED
  BY <1>2 DEF Locals

\* Every activation fills the root or a container it holds, all of them alive.
LEMMA LocalsHeld ==
    ASSUME NEW h, NEW fs, Stacked(h, fs)
    PROVE  /\ Locals(fs) \in SUBSET Ids /\ \A p \in Locals(fs) : h[p] # Null
           /\ \A k \in 1..Len(fs) : /\ fs[k].at \in Locals(fs) \cup {Loaded}
                                    /\ fs[k].at \in Addresses /\ h[fs[k].at] # Null
<1>1. \A k \in 1..Len(fs) : fs[k].at = Loaded \/ fs[k].at \in Ids
  BY DEF Stacked
<1>2. \A k \in 1..Len(fs) : h[fs[k].at] # Null
  BY DEF Stacked, IsContainer
<1>3. fs \in Seq(Opening)
  BY DEF Stacked
<1>4. /\ Locals(fs) \subseteq Ids
      /\ \A k \in 1..Len(fs) : fs[k].at \in Ids => fs[k].at \in Locals(fs)
      /\ \A l \in Locals(fs) : \E k \in 1..Len(fs) : l = fs[k].at
  BY <1>3, LocalsAre
<1>5. Loaded \in Addresses /\ Ids \subseteq Addresses
  BY FileAssumption DEF Addresses
<1>6. QED
  BY <1>1, <1>2, <1>4, <1>5

\* Activations stay as they are when what they fill stays a container and keeps
\* its policy.
LEMMA StackedFrame ==
    ASSUME NEW h, NEW g, NEW fs, Stacked(h, fs),
           \A k \in 1..Len(fs) : IsContainer(g, fs[k].at),
           \A k \in 1..Len(fs) : g[fs[k].at].policy = h[fs[k].at].policy
    PROVE  Stacked(g, fs)
BY DEF Stacked

\* Dropping the innermost activation leaves one that has an item to come.
LEMMA StackedFront ==
    ASSUME NEW h, NEW fs, Stacked(h, fs), Len(fs) > 1
    PROVE  /\ Stacked(h, Front(fs)) /\ Front(fs) # <<>>
           /\ Last(Front(fs)).left > 0
           /\ Locals(Front(fs)) \subseteq Locals(fs)
           /\ Last(fs).at \in Locals(fs)
           /\ \A k \in 1..Len(Front(fs)) : Front(fs)[k].at # Last(fs).at
<1> DEFINE n == Len(fs)
           rest == Front(fs)
<1>1. fs \in Seq(Opening) /\ fs # <<>> /\ n > 1
  BY EmptySeq DEF Stacked
<1>2. /\ n \in Nat /\ n \in 1..n /\ Last(fs) = fs[n]
      /\ rest \in Seq(Opening) /\ Len(rest) = n - 1
      /\ \A k \in 1..(n - 1) : rest[k] = fs[k]
  BY <1>1, FrontAndLast
<1> HIDE DEF rest
<1>3. rest # <<>> /\ \A k \in 1..(n - 1) : k \in 1..n
  BY <1>1, <1>2, EmptySeq
<1>4. Last(rest) = fs[n - 1] /\ fs[n - 1].left > 0
  <2>1. n - 1 \in 1..(n - 1)
    BY <1>1, <1>2
  <2>2. Last(rest) = rest[n - 1]
    BY <1>2, <1>3, FrontAndLast
  <2>3. QED
    BY <1>2, <2>1, <2>2 DEF Stacked
<1>5. Stacked(h, rest)
  <2>1. \A k \in 1..(n - 1 - 1) : k \in 1..(n - 1)
    BY <1>2
  <2>2. QED
    BY <1>2, <1>3, <2>1 DEF Stacked
<1>6. Locals(rest) \subseteq Locals(fs) /\ fs[n].at \in Locals(fs)
  <2>1. n # 1
    BY <1>1, <1>2
  <2>2. fs[n].at \in Ids
    BY <1>2, <2>1 DEF Stacked
  <2>3. \A l \in Locals(rest) : l \in Ids /\ \E k \in 1..(n - 1) : l = fs[k].at
    BY <1>2, LocalsAre
  <2>4. \A k \in 1..n : fs[k].at \in Ids => fs[k].at \in Locals(fs)
    BY <1>1, LocalsAre
  <2> HIDE DEF n
  <2>5. QED
    BY <1>2, <1>3, <2>2, <2>3, <2>4
<1>7. \A k \in 1..(n - 1) : fs[k].at # fs[n].at
  <2>1. \A k \in 1..(n - 1) : k \in 1..n /\ k # n
    BY <1>2
  <2>2. QED
    BY <1>2, <2>1 DEF Stacked
<1> HIDE DEF n
<1>8. QED
  BY <1>2, <1>3, <1>4, <1>5, <1>6, <1>7 DEF rest

\* The innermost activation has taken an item.
LEMMA StackedLess ==
    ASSUME NEW h, NEW fs, Stacked(h, fs), fs # <<>>, Last(fs).left > 0,
           NEW f, f = [at |-> Last(fs).at, left |-> Last(fs).left - 1]
    PROVE  /\ Stacked(h, Append(Front(fs), f))
           /\ Locals(Append(Front(fs), f)) = Locals(fs)
<1> DEFINE n == Len(fs)
           new == Append(Front(fs), f)
<1>1. /\ fs \in Seq(Opening) /\ n \in Nat /\ n \in 1..n /\ Last(fs) = fs[n]
      /\ fs[n] \in Opening
      /\ Front(fs) \in Seq(Opening) /\ Len(Front(fs)) = n - 1
      /\ \A k \in 1..(n - 1) : Front(fs)[k] = fs[k]
  BY FrontAndLast DEF Stacked
<1>2. f \in Opening /\ f.at = fs[n].at
  BY <1>1 DEF Opening
<1>3. /\ new \in Seq(Opening) /\ Len(new) = n /\ new[n] = f
      /\ \A k \in 1..(n - 1) : new[k] = fs[k]
  <2>1. /\ new \in Seq(Opening) /\ Len(new) = (n - 1) + 1 /\ new[(n - 1) + 1] = f
        /\ \A k \in 1..(n - 1) : new[k] = Front(fs)[k]
    BY <1>1, <1>2, AppendKeeps
  <2>2. QED
    BY <1>1, <2>1
<1> HIDE DEF new
<1>4. \A k \in 1..n : new[k].at = fs[k].at
  <2>1. \A k \in 1..n : k = n \/ k \in 1..(n - 1)
    BY <1>1
  <2>2. QED
    BY <1>1, <1>2, <1>3, <2>1
<1>5. Stacked(h, new)
  <2>1. \A k \in 1..n : /\ IsContainer(h, new[k].at)
                        /\ IF k = 1 THEN new[k].at = Loaded ELSE new[k].at \in Ids
                        /\ k # 1 => h[new[k].at].policy \in Policies
    BY <1>4 DEF Stacked
  <2>2. \A j, k \in 1..n : j # k => new[j].at # new[k].at
    BY <1>4 DEF Stacked
  <2>3. \A k \in 1..(n - 1) : new[k].left > 0
    BY <1>3 DEF Stacked
  <2>4. QED
    BY <1>3, <2>1, <2>2, <2>3 DEF Stacked
<1>6. Locals(new) = Locals(fs)
  <2>1. /\ Locals(fs) \subseteq Ids
        /\ \A k \in 1..n : fs[k].at \in Ids => fs[k].at \in Locals(fs)
        /\ \A l \in Locals(fs) : \E k \in 1..n : l = fs[k].at
    BY <1>1, LocalsAre
  <2>2. /\ Locals(new) \subseteq Ids
        /\ \A k \in 1..n : new[k].at \in Ids => new[k].at \in Locals(new)
        /\ \A l \in Locals(new) : \E k \in 1..n : l = new[k].at
    BY <1>3, LocalsAre
  <2> HIDE DEF n
  <2>3. Locals(new) \subseteq Locals(fs)
    BY <1>4, <2>1, <2>2
  <2>4. Locals(fs) \subseteq Locals(new)
    BY <1>4, <2>1, <2>2
  <2>5. QED
    BY <2>3, <2>4
<1>7. QED
  BY <1>5, <1>6 DEF new

\* A new activation for a container that no other fills.
LEMMA StackedMore ==
    ASSUME NEW h, NEW fs, Stacked(h, fs), fs # <<>>, Last(fs).left > 0,
           NEW f \in Opening, f.at \in Ids, IsContainer(h, f.at),
           h[f.at].policy \in Policies,
           \A k \in 1..Len(fs) : fs[k].at # f.at
    PROVE  Stacked(h, Append(fs, f)) /\ Locals(Append(fs, f)) \subseteq Locals(fs) \cup {f.at}
<1> DEFINE n == Len(fs)
           new == Append(fs, f)
<1>1. fs \in Seq(Opening) /\ n \in Nat /\ n \in 1..n /\ Last(fs) = fs[n]
  BY FrontAndLast DEF Stacked
<1>2. /\ new \in Seq(Opening) /\ Len(new) = n + 1 /\ new[n + 1] = f
      /\ \A k \in 1..n : new[k] = fs[k]
  BY <1>1, AppendKeeps
<1> HIDE DEF new
<1>3. /\ \A k \in 1..(n + 1) : k = n + 1 \/ k \in 1..n
      /\ n + 1 # 1 /\ n + 1 - 1 = n /\ \A k \in 1..n : k # n + 1
      /\ \A k \in 1..n : k = n \/ k \in 1..(n - 1)
  BY <1>1
<1>4. ASSUME NEW k \in 1..(n + 1)
      PROVE  /\ IsContainer(h, new[k].at)
             /\ IF k = 1 THEN new[k].at = Loaded ELSE new[k].at \in Ids
             /\ k # 1 => h[new[k].at].policy \in Policies
  <2>1. CASE k \in 1..n
    BY <1>2, <2>1 DEF Stacked
  <2>2. CASE k = n + 1
    BY <1>2, <1>3, <2>2
  <2>3. QED
    BY <1>3, <2>1, <2>2
<1>5. ASSUME NEW j \in 1..(n + 1), NEW k \in 1..(n + 1), j # k
      PROVE  new[j].at # new[k].at
  <2>1. CASE j \in 1..n /\ k \in 1..n
    BY <1>2, <1>5, <2>1 DEF Stacked
  <2>2. CASE j = n + 1 /\ k \in 1..n
    BY <1>2, <2>2
  <2>3. CASE j \in 1..n /\ k = n + 1
    BY <1>2, <2>3
  <2>4. QED
    BY <1>3, <1>5, <2>1, <2>2, <2>3
<1>6. \A k \in 1..(n + 1 - 1) : new[k].left > 0
  <2>1. \A k \in 1..n : fs[k].left > 0
    BY <1>1, <1>3 DEF Stacked
  <2>2. QED
    BY <1>2, <1>3, <2>1
<1>7. Stacked(h, new)
  <2>1. /\ \A k \in 1..(n + 1) : IsContainer(h, new[k].at)
        /\ \A k \in 1..(n + 1) : IF k = 1 THEN new[k].at = Loaded ELSE new[k].at \in Ids
        /\ \A k \in 1..(n + 1) : k # 1 => h[new[k].at].policy \in Policies
        /\ \A j, k \in 1..(n + 1) : j # k => new[j].at # new[k].at
    BY <1>4, <1>5
  <2>2. new \in Seq(Opening) /\ Len(new) = n + 1
    BY <1>2
  <2> DEFINE m == n + 1
  <2>3. m = Len(new) /\ m - 1 = n + 1 - 1
    BY <2>2
  <2> HIDE DEF m, n
  <2>4. QED
    BY <1>6, <2>1, <2>2, <2>3 DEF Stacked, m
<1>8. Locals(new) \subseteq Locals(fs) \cup {f.at}
  <2>1. \A l \in Locals(new) : l \in Ids /\ \E k \in 1..(n + 1) : l = new[k].at
    BY <1>2, LocalsAre
  <2>2. \A k \in 1..n : fs[k].at \in Ids => fs[k].at \in Locals(fs)
    BY <1>1, LocalsAre
  <2> HIDE DEF n
  <2>3. ASSUME NEW l \in Locals(new)
        PROVE  l \in Locals(fs) \cup {f.at}
    <3>1. PICK k \in 1..(n + 1) : l = new[k].at
      BY <2>1
    <3>2. CASE k \in 1..n
      BY <1>2, <2>1, <2>2, <3>1, <3>2
    <3>3. CASE k = n + 1
      BY <1>2, <3>1, <3>3
    <3>4. QED
      BY <1>3, <3>2, <3>3
  <2>4. QED
    BY <2>3
<1>9. QED
  BY <1>7, <1>8 DEF new

-----------------------------------------------------------------------------
(* What the steps do to the heap *)

\* The items of a Config's root are live items.
LEMMA RootItems ==
    ASSUME NEW h, WellTyped(h), Closed(h)
    PROVE  /\ Loaded \in Addresses /\ h[Loaded] # Null /\ IsContainer(h, Loaded)
           /\ \A k \in 1..Len(h[Loaded].kids) :
                 h[Loaded].kids[k] \in Ids /\ h[h[Loaded].kids[k]] # Null
<1>1. Loaded \in Addresses /\ h[Loaded] # Null /\ IsContainer(h, Loaded)
  BY FileAssumption DEF Addresses, WellTyped, IsContainer, ContainerKinds
<1>2. /\ Kids(h, Loaded) \subseteq Ids
      /\ Kids(h, Loaded) = {h[Loaded].kids[k] : k \in 1..Len(h[Loaded].kids)}
  BY <1>1, ItemFields
<1>3. QED
  BY <1>1, <1>2 DEF Closed, Addresses

\* With nothing in it and nothing being read, the Config needs no items.
LEMMA EmptyGood ==
    ASSUME NEW h, WellTyped(h), Closed(h), Kids(h, Loaded) = {}
    PROVE  Good(h, <<>>)
<1> DEFINE none == <<>>
<1>1. Stacked(h, none) /\ Locals(none) = {}
  BY StackedEmpty
<1> HIDE DEF none
<1>2. Loaded \in Addresses /\ h[Loaded] # Null
  BY FileAssumption DEF Addresses, WellTyped
<1>3. Len(h[Loaded].kids) = 0
  <2>1. /\ h[Loaded].kids \in Seq(Ids)
        /\ Kids(h, Loaded) = {h[Loaded].kids[k] : k \in 1..Len(h[Loaded].kids)}
    BY <1>2, ItemFields
  <2>2. Len(h[Loaded].kids) \in Nat
    BY <2>1, LenProperties
  <2>3. Len(h[Loaded].kids) # 0 => 1 \in 1..Len(h[Loaded].kids)
    BY <2>2
  <2>4. QED
    BY <2>1, <2>3
<1>4. Neat(h, Beyond(h, {})) /\ NamedFit(h, h[Loaded].kind, h[Loaded].kids)
  BY <1>3 DEF Neat, Tidy, Beyond, NamedFit
<1>5. Covers(h, none, {})
  BY <1>1, <1>4 DEF Covers
<1>6. QED
  BY <1>1, <1>5 DEF Good, none

\* Releasing what nothing refers to leaves the activations their containers.
LEMMA SettledGood ==
    ASSUME NEW h, NEW fs, Good(h, fs)
    PROVE  Good(Settled(h, Locals(fs)), fs)
<1> DEFINE held == Locals(fs)
           g    == Settled(h, held)
<1>1. WellTyped(h) /\ Closed(h) /\ Stacked(h, fs)
  BY DEF Good
<1>2. PICK S \in SUBSET Ids : Covers(h, fs, S)
  BY DEF Good
<1>3. held \in SUBSET Ids /\ \A p \in held : h[p] # Null
  BY <1>1, LocalsHeld
<1>4. \A k \in 1..Len(fs) : fs[k].at \in held \cup {Loaded} /\ fs[k].at \in Addresses
  BY <1>1, LocalsHeld
<1> DEFINE marks == Beyond(h, S)
<1>5. /\ Neat(h, marks) /\ held \subseteq S
      /\ NamedFit(h, h[Loaded].kind, h[Loaded].kids)
  BY <1>2 DEF Covers
<1> HIDE DEF held
<1>6. /\ WellTyped(g) /\ Closed(g) /\ \A p \in held : g[p] # Null
      /\ \A c \in Configs : g[c] = h[c]
      /\ \A x \in Addresses : g[x] # Null => g[x] = h[x]
  BY <1>1, <1>3, SettledKeeps
<1>7. Neat(g, marks)
  <2> HIDE DEF marks
  <2>1. Neat(g, {t \in marks : g[t] # Null})
    BY <1>1, <1>3, <1>5, SettledNeat
  <2> HIDE DEF g
  <2>2. QED
    BY <2>1 DEF Neat
<1> HIDE DEF g
<1>8. \A y \in Addresses : Kids(g, y) \subseteq Kids(h, y)
  BY <1>6 DEF Kids
<1>9. Covers(g, fs, S)
  <2>1. /\ Loaded \in Addresses /\ S \subseteq Addresses /\ g[Loaded] = h[Loaded]
        /\ Beyond(g, S) = marks
    BY <1>6, FileAssumption DEF Addresses, Beyond
  <2>2. NamedFit(g, g[Loaded].kind, g[Loaded].kids)
    <3>1. \A k \in 1..Len(h[Loaded].kids) : g[h[Loaded].kids[k]] = h[h[Loaded].kids[k]]
      BY <1>6, <2>1, RootItems DEF Addresses
    <3>2. QED
      BY <1>5, <2>1, <3>1, NamedFitFrame
  <2> HIDE DEF marks
  <2>3. QED
    BY <1>2, <1>7, <1>8, <2>1, <2>2 DEF Covers
<1>10. \A k \in 1..Len(fs) : /\ IsContainer(g, fs[k].at)
                              /\ g[fs[k].at].policy = h[fs[k].at].policy
  <2>1. \A k \in 1..Len(fs) : g[fs[k].at] # Null
    BY <1>4, <1>6, FileAssumption DEF WellTyped
  <2>2. QED
    BY <1>1, <1>4, <1>6, <2>1 DEF Stacked, IsContainer, WellTyped
<1>11. Stacked(g, fs)
  BY <1>1, <1>10, StackedFrame
<1>12. QED
  BY <1>6, <1>9, <1>11 DEF Good, g, held

\* A new item belongs to the Config that is being loaded.
LEMMA FreshGood ==
    ASSUME NEW h, NEW fs, Good(h, fs), NEW x \in Ids, h[x] = Null,
           NEW kind \in Kinds, NEW name \in AnyName, NEW val \in Vals \cup {NoVal},
           NEW g, Puts(h, x, NewItem(kind, name, val), g)
    PROVE  /\ WellTyped(g) /\ Closed(g) /\ Stacked(g, fs)
           /\ g[x] # Null /\ g[x].kind = kind /\ g[x].policy \in Policies
           /\ \A k \in 1..Len(fs) : fs[k].at # x
           /\ \E S \in SUBSET Ids : x \in S /\ Covers(g, fs, S)
           /\ \A c \in Configs : g[c] = h[c]
<1> DEFINE item == NewItem(kind, name, val)
           none == <<>>
<1>1. PICK S \in SUBSET Ids : Covers(h, fs, S)
  BY DEF Good
<1>2. /\ WellTyped(h) /\ Closed(h) /\ Stacked(h, fs)
      /\ x \in Addresses /\ x \notin Configs
  BY AddressesAssumption DEF Good, Addresses
<1>3. item.kids = none /\ item.kind = kind /\ item.policy \in Policies
  BY DEF NewItem, Policies
<1>4. item \in Item
  BY EmptySeq DEF NewItem, Item, AnyPolicy, Policies
<1>5. Len(none) = 0 /\ none = <<>> /\ Tidy(h, kind, none)
  BY EmptySeq, TidyEmpty
<1> HIDE DEF item, none
<1>6. Puts(h, x, item, g)
  BY DEF item
<1>7. /\ x \in Configs => item.kind = "Group"
      /\ item.kids # <<>> => item.kind \in ContainerKinds
      /\ \A k \in 1..Len(item.kids) : h[item.kids[k]] # Null
      /\ Tidy(h, item.kind, item.kids)
      /\ \A k \in 1..Len(item.kids) : item.kids[k] # x
  BY <1>2, <1>3, <1>5
<1>8. /\ WellTyped(g) /\ Closed(g) /\ g[x] = item /\ g[x] # Null
      /\ \A y \in Addresses \ {x} : g[y] = h[y]
  BY <1>2, <1>4, <1>6, <1>7, PutItem
<1>9. \A k \in 1..Len(fs) : fs[k].at \in Addresses /\ fs[k].at # x
  BY <1>2, LocalsHeld
<1>10. Stacked(g, fs)
  <2>1. \A k \in 1..Len(fs) : /\ IsContainer(g, fs[k].at)
                               /\ g[fs[k].at].policy = h[fs[k].at].policy
    BY <1>2, <1>8, <1>9 DEF IsContainer, WellTyped, Stacked
  <2>2. QED
    BY <1>2, <2>1, StackedFrame
<1>11. Kids(g, x) = {} /\ \A y \in Addresses : Kids(g, y) \subseteq Kids(h, y)
  <2>1. Kids(g, x) = {}
    <3>1. Kids(g, x) = {g[x].kids[k] : k \in 1..Len(g[x].kids)}
      BY <1>2, <1>8, ItemFields
    <3>2. QED
      BY <1>3, <1>5, <1>8, <3>1
  <2>2. QED
    BY <1>8, <2>1 DEF Kids
<1> DEFINE marks   == Beyond(h, S)
           touched == Beyond(h, S \cup {x})
<1>12. Neat(g, touched)
  <2>1. Neat(h, marks)
    BY <1>1 DEF Covers
  <2>2. Holding(h, x) = {}
    BY <1>2, HeldByNone
  <2>3. \A s \in Addresses \ touched : s # x => s \notin marks /\ x \notin Kids(h, s)
    BY <2>2 DEF Holding, Beyond
  <2> HIDE DEF marks, touched
  <2>4. QED
    BY <1>2, <1>4, <1>6, <1>7, <2>1, <2>3, NeatWrite
<1>13. Covers(g, fs, S \cup {x})
  <2>1. /\ Loaded \in Addresses /\ S \subseteq Addresses /\ g[Loaded] = h[Loaded]
        /\ Beyond(g, S \cup {x}) = touched
    BY <1>2, <1>8, FileAssumption DEF Addresses, Beyond
  <2>2. NamedFit(g, g[Loaded].kind, g[Loaded].kids)
    <3>1. NamedFit(h, h[Loaded].kind, h[Loaded].kids)
      BY <1>1 DEF Covers
    <3>2. \A k \in 1..Len(h[Loaded].kids) : g[h[Loaded].kids[k]] = h[h[Loaded].kids[k]]
      BY <1>2, <1>8, RootItems DEF Addresses
    <3>3. QED
      BY <2>1, <3>1, <3>2, NamedFitFrame
  <2> HIDE DEF touched
  <2>3. QED
    BY <1>1, <1>11, <1>12, <2>1, <2>2 DEF Covers
<1>14. S \cup {x} \in SUBSET Ids
  OBVIOUS
<1>15. \A c \in Configs : g[c] = h[c]
  BY <1>2, <1>8 DEF Addresses
<1>16. QED
  BY <1>3, <1>8, <1>9, <1>10, <1>13, <1>14, <1>15

\* An item of the Config that is being loaded is added to the innermost container.
LEMMA AddGood ==
    ASSUME NEW h, WellTyped(h), Closed(h), NEW fs, Stacked(h, fs), fs # <<>>,
           NEW S \in SUBSET Ids, Covers(h, fs, S), NEW x \in S, h[x] # Null,
           \A k \in 1..Len(fs) : fs[k].at # x,
           NEW p, p = h[Last(fs).at].policy, NEW r, r = AddTo(h, Last(fs).at, x, p)
    PROVE  Good(r.heap, fs) /\ r.out \in AddOutcomes
<1> DEFINE t == Last(fs).at
           g == r.heap
           marks == Beyond(h, S)
<1>1. /\ t \in Addresses /\ IsContainer(h, t) /\ x \in Ids /\ Neat(h, marks)
      /\ NamedFit(h, h[Loaded].kind, h[Loaded].kids)
      /\ \A k \in 1..Len(fs) : fs[k].at \in Addresses /\ h[fs[k].at] # Null
      /\ p \in AnyPolicy /\ (p \in Policies \/ t \in marks)
  <2>1. \A k \in 1..Len(fs) : fs[k].at \in Addresses /\ h[fs[k].at] # Null
    BY LocalsHeld
  <2>2. Len(fs) \in 1..Len(fs) /\ Last(fs) = fs[Len(fs)]
    BY FrontAndLast DEF Stacked
  <2>3. p \in AnyPolicy
    BY <2>1, <2>2, ItemFields
  <2>4. p \in Policies \/ t = Loaded
    BY <2>2 DEF Stacked
  <2>5. Loaded \in Addresses /\ Loaded \notin S
    BY FileAssumption, AddressesAssumption DEF Addresses
  <2>6. p \in Policies \/ t \in marks
    BY <2>4, <2>5 DEF Beyond
  <2>7. QED
    BY <2>1, <2>2, <2>3, <2>6 DEF Stacked, Covers
<1>2. r = AddTo(h, t, x, p)
  OBVIOUS
<1> HIDE DEF t, marks
<1>3. /\ WellTyped(g) /\ Closed(g) /\ r.out \in AddOutcomes
      /\ \A y \in Addresses : h[y] # Null => g[y] # Null
  BY <1>1, <1>2, AddToSound
<1>4. Neat(g, marks)
  BY <1>1, <1>2, NeatAdd
<1>5. \A y \in Addresses :
         /\ h[y] # Null => g[y].kind = h[y].kind
         /\ y # x => Holding(g, y) \subseteq Holding(h, y)
  BY <1>1, <1>2, AddToKeeps
<1>6. \A y \in Addresses : h[y] # Null => (y # x => g[y].policy = h[y].policy)
  BY <1>1, <1>2, AddTouches
<1>7. NamedFit(g, g[Loaded].kind, g[Loaded].kids)
  BY <1>1, <1>2, NamedFitAdd, RootItems
<1> HIDE DEF g
<1>8. Stacked(g, fs)
  <2>1. \A k \in 1..Len(fs) : /\ IsContainer(g, fs[k].at)
                               /\ g[fs[k].at].policy = h[fs[k].at].policy
    BY <1>1, <1>3, <1>5, <1>6 DEF IsContainer, WellTyped, Stacked
  <2>2. QED
    BY <2>1, StackedFrame
<1>9. ASSUME NEW y \in S \cup {Loaded}
      PROVE  Kids(g, y) \subseteq S
  <2>1. y \in Addresses /\ Kids(h, y) \subseteq S
    BY FileAssumption DEF Addresses, Covers
  <2>2. Kids(g, y) \subseteq Addresses
    BY <1>3, <2>1, KidsAreIds DEF Addresses
  <2>3. \A z \in Kids(g, y) : z = x \/ z \in Kids(h, y)
    BY <1>5, <2>1, <2>2 DEF Holding
  <2>4. QED
    BY <2>1, <2>3
<1>10. Covers(g, fs, S)
  <2>1. Loaded # x /\ g[Loaded].policy = h[Loaded].policy
    BY <1>1, <1>6, RootItems, FileAssumption, AddressesAssumption
  <2>2. Beyond(g, S) = marks
    BY <2>1 DEF Beyond, marks
  <2>3. QED
    BY <1>4, <1>9, <1>7, <2>2 DEF Covers
<1>11. QED
  BY <1>3, <1>8, <1>10 DEF Good, g

-----------------------------------------------------------------------------
(* The steps of a load *)

\* What Load had built goes, whatever there was of it.
LEMMA ClearedGood ==
    ASSUME NEW h, WellTyped(h), Closed(h),
           NEW g, g = Settled([h EXCEPT ![Loaded] = EmptyRoot], {})
    PROVE  /\ Good(g, <<>>) /\ Kids(g, Loaded) = {}
           /\ \A c \in Configs \ {Loaded} : Kids(g, c) = Kids(h, c)
<1> DEFINE f    == [h EXCEPT ![Loaded] = EmptyRoot]
           none == {}
           empty == <<>>
<1>1. /\ EmptyRoot \in Item /\ EmptyRoot.kind = "Group" /\ EmptyRoot.kids = empty
      /\ EmptyRoot.kind \in ContainerKinds
  BY EmptySeq DEF EmptyRoot, NewItem, Item, Kinds, ContainerKinds, AnyPolicy, Policies, AnyName
<1>2. Len(empty) = 0 /\ ToSet(empty) = {}
  BY EmptySeq DEF ToSet
<1>3. Puts(h, Loaded, EmptyRoot, f)
  BY DEF Puts
<1> HIDE DEF empty, f, none
<1>4. Loaded \in Addresses /\ Loaded \in Configs
  BY FileAssumption DEF Addresses
<1>5. \A k \in 1..Len(EmptyRoot.kids) : h[EmptyRoot.kids[k]] # Null
  BY <1>1, <1>2
<1>6. /\ WellTyped(f) /\ Closed(f) /\ f[Loaded] = EmptyRoot
      /\ \A y \in Addresses \ {Loaded} : f[y] = h[y]
  BY <1>1, <1>3, <1>4, <1>5, PutItem
<1>7. g = Settled(f, none)
  BY DEF f, none
<1>8. none \in SUBSET Ids /\ \A q \in none : f[q] # Null
  BY DEF none
<1>9. /\ WellTyped(g) /\ Closed(g) /\ g[Loaded] = EmptyRoot
      /\ \A c \in Configs : g[c] = f[c]
  BY <1>4, <1>6, <1>7, <1>8, SettledKeeps, ZenonT(30)
<1>10. /\ Kids(g, Loaded) = {}
       /\ \A c \in Configs \ {Loaded} : Kids(g, c) = Kids(h, c)
  BY <1>1, <1>2, <1>6, <1>9 DEF Kids, Addresses
<1>11. QED
  BY <1>9, <1>10, EmptyGood

\* Load has failed.
LEMMA RefusedSound ==
    ASSUME FileSound, Refuse, pos' \in 1..(Len(file) + 1)
    PROVE  FileSound'
<1>1. /\ WellTyped(heap) /\ Closed(heap)
      /\ heap' = Settled([heap EXCEPT ![Loaded] = EmptyRoot], {})
      /\ phase' = "over" /\ frames' = <<>> /\ ret' = "DeserializeError"
      /\ UNCHANGED <<policy, file, damage>>
  BY DEF FileSound, Good, Refuse
<1>2. Good(heap', <<>>) /\ \A c \in Configs \ {Loaded} : Kids(heap', c) = Kids(heap, c)
  BY <1>1, ClearedGood
<1>3. QED
  BY <1>1, <1>2 DEF FileSound, Control

\* The fields that are read are there and hold what fields of their kinds hold.
LEMMA ReadyTyped ==
    ASSUME file \in Seq(TypedField), pos \in 1..(Len(file) + 1),
           NEW n \in Nat \ {0}, NEW kinds, DOMAIN kinds = 1..n, Ready(kinds)
    PROVE  /\ \A k \in 1..n : Taken(k) \in Admits(kinds[k])
           /\ pos + n \in 1..(Len(file) + 1)
<1>1. Len(file) \in Nat /\ pos \in Nat \ {0}
  BY LenProperties
<1>2. \A k \in 1..n : pos + k - 1 <= Len(file) /\ file[pos + k - 1].of = kinds[k]
  BY DEF Ready
<1>3. \A k \in 1..n : pos + k - 1 \in 1..Len(file)
  <2>1. \A k \in 1..n : pos + k - 1 \in Nat \ {0}
    BY <1>1
  <2>2. \A k \in 1..n : pos + k - 1 <= Len(file)
    BY <1>2
  <2>3. QED
    BY <1>1, <2>1, <2>2
<1>4. \A f \in TypedField : f.is \in Admits(f.of)
  BY DEF TypedField
<1>5. \A k \in 1..n : file[pos + k - 1] \in TypedField
  BY <1>3, ElementOfSeq
<1>6. n \in 1..n
  OBVIOUS
<1>7. pos + n \in 1..(Len(file) + 1)
  BY <1>1, <1>3, <1>6
<1>8. QED
  BY <1>2, <1>4, <1>5, <1>7 DEF Taken

\* Adding to a container adds nothing to a Config that is not that container.
LEMMA AddElsewhere ==
    ASSUME NEW h, WellTyped(h), Closed(h), NEW t \in Addresses, IsContainer(h, t),
           NEW x \in Ids, h[x] # Null, NEW p \in AnyPolicy,
           NEW c \in Configs, c # t, NEW r, r = AddTo(h, t, x, p)
    PROVE  r.heap[c] = h[c]
<1> DEFINE o == Offered(h, x, p)
           g == r.heap
<1>1. c \in Addresses /\ x \in Addresses /\ c # x
  BY AddressesAssumption DEF Addresses
<1>2. g = o \/ Enlarged(o, t, x, g)
  BY AddToOutcome
<1>3. /\ WellTyped(o) /\ Closed(o) /\ o[x] # Null /\ o[x].kind = h[x].kind
      /\ \A y \in Addresses \ {x} : o[y] = h[y]
  BY <1>1, OfferedKeeps
<1> HIDE DEF o, g
<1>4. o[c] = h[c] /\ IsContainer(o, t)
  BY <1>1, <1>3 DEF IsContainer, WellTyped
<1>5. Enlarged(o, t, x, g) => g[c] = o[c]
  BY <1>1, <1>3, <1>4, EnlargedKids
<1>6. QED
  BY <1>2, <1>4, <1>5 DEF g

\* The innermost activation of fs takes x, or Load fails.
LEMMA DeliverSound ==
    ASSUME FileSound, phase = "load", pos' \in 1..(Len(file) + 1),
           NEW h, WellTyped(h), Closed(h), NEW fs, Stacked(h, fs), fs # <<>>,
           \A c \in Configs \ {Source, Loaded} : Kids(h, c) = {},
           Last(fs).left > 0, NEW S \in SUBSET Ids, Covers(h, fs, S),
           NEW x \in S, h[x] # Null, \A k \in 1..Len(fs) : fs[k].at # x,
           Deliver(h, x, fs)
    PROVE  FileSound'
<1> DEFINE t == Last(fs).at
           p == h[t].policy
           r == AddTo(h, t, x, p)
           f == [at |-> Last(fs).at, left |-> Last(fs).left - 1]
           fs2 == Append(Front(fs), f)
<1>1. \/ r.out \in AddErrors /\ Refuse
      \/ /\ heap' = Settled(r.heap, Locals(fs)) /\ frames' = fs2
         /\ UNCHANGED <<policy, file, damage, phase, ret>>
  BY DEF Deliver
<1>2. /\ p \in AnyPolicy /\ p = h[Last(fs).at].policy
      /\ t \in Addresses /\ IsContainer(h, t) /\ t \in Ids \cup {Loaded}
  <2>1. Len(fs) \in 1..Len(fs) /\ Last(fs) = fs[Len(fs)]
    BY FrontAndLast DEF Stacked
  <2>2. /\ t \in Addresses /\ h[t] # Null /\ IsContainer(h, t)
        /\ t \in Locals(fs) \cup {Loaded} /\ Locals(fs) \subseteq Ids
    BY <2>1, LocalsHeld DEF Stacked
  <2>3. QED
    BY <2>2, ItemFields
<1>3. r = AddTo(h, Last(fs).at, x, p)
  OBVIOUS
<1> HIDE DEF p, r
<1>4. Good(r.heap, fs)
  BY <1>2, <1>3, AddGood
<1>5. ASSUME NEW c \in Configs \ {Source, Loaded}, heap' = Settled(r.heap, Locals(fs))
      PROVE  Kids(heap', c) = {}
  <2>1. c # t /\ x \in Ids
    BY <1>2, AddressesAssumption
  <2>2. r.heap[c] = h[c]
    BY <1>2, <1>3, <2>1, AddElsewhere
  <2>3. /\ WellTyped(r.heap) /\ Closed(r.heap) /\ Locals(fs) \in SUBSET Ids
        /\ \A q \in Locals(fs) : r.heap[q] # Null
    BY <1>4, LocalsHeld DEF Good
  <2> DEFINE held == Locals(fs)
  <2>4. heap' = Settled(r.heap, held) /\ held \in SUBSET Ids /\ \A q \in held : r.heap[q] # Null
    BY <1>5, <2>3
  <2> HIDE DEF held
  <2>5. heap'[c] = r.heap[c]
    BY <2>3, <2>4, SettledKeeps
  <2>6. QED
    BY <2>2, <2>5 DEF Kids
<1>6. CASE Refuse
  BY <1>6, RefusedSound
<1>7. CASE /\ heap' = Settled(r.heap, Locals(fs)) /\ frames' = fs2
           /\ UNCHANGED <<policy, file, damage, phase, ret>>
  <2>1. Good(heap', fs)
    BY <1>4, <1>7, SettledGood
  <2>2. f = [at |-> Last(fs).at, left |-> Last(fs).left - 1]
    OBVIOUS
  <2>3. Stacked(heap', fs)
    BY <2>1 DEF Good
  <2> HIDE DEF f
  <2>4. Stacked(heap', fs2) /\ Locals(fs2) = Locals(fs)
    BY <2>2, <2>3, StackedLess
  <2> HIDE DEF fs2
  <2>5. Good(heap', fs2)
    BY <2>1, <2>4 DEF Good, Covers
  <2>6. QED
    BY <1>7, <1>5, <2>5 DEF FileSound, Control
<1>8. QED
  BY <1>1, <1>6, <1>7

\* The address of the next item is one where there is none.
LEMMA FreshIsFree ==
    ASSUME Free # {}
    PROVE  Fresh \in Ids /\ heap[Fresh] = Null
BY DEF Fresh, Free

LEMMA StartLoadSound ==
    ASSUME FileSound, StartLoad
    PROVE  FileSound'
<1>1. CASE Refuse /\ UNCHANGED pos
  BY <1>1, RefusedSound DEF FileSound, Control
<1>2. CASE /\ GoodHeader /\ phase' = "load" /\ pos' = pos + 2
           /\ UNCHANGED <<heap, policy, file, damage, frames, ret>>
  <2> DEFINE kinds == <<"magic", "version">>
  <2>1. DOMAIN kinds = 1..2 /\ Ready(kinds)
    BY <1>2 DEF GoodHeader
  <2> HIDE DEF kinds
  <2>2. pos + 2 \in 1..(Len(file) + 1)
    <3>1. file \in Seq(TypedField) /\ pos \in 1..(Len(file) + 1) /\ 2 \in Nat \ {0}
      BY DEF FileSound, Control
    <3>2. QED
      BY <2>1, <3>1, ReadyTyped
  <2>3. QED
    BY <1>2, <2>2 DEF FileSound, Control
<1>3. QED
  BY <1>1, <1>2 DEF StartLoad

LEMMA ReadRootSound ==
    ASSUME FileSound, ReadRoot
    PROVE  FileSound'
<1>1. CASE Refuse /\ UNCHANGED pos
  BY <1>1, RefusedSound DEF FileSound, Control
<1>2. ASSUME GoodRoot, phase = "load", frames = <<>>,
             NEW p, p = IF Taken(1) = "absent" THEN "ThrowException" ELSE Taken(1),
             heap' = [heap EXCEPT ![Loaded] = [NewItem("Group", Taken(3), NoVal) EXCEPT !.policy = p]],
             frames' = <<[at |-> Loaded, left |-> Taken(5)]>>, pos' = pos + 5,
             UNCHANGED <<policy, file, damage, phase, ret>>
      PROVE  FileSound'
  <2> DEFINE item == [NewItem("Group", Taken(3), NoVal) EXCEPT !.policy = p]
             f    == [at |-> Loaded, left |-> Taken(5)]
             none == <<>>
  <2>1. /\ Taken(1) \in AnyPolicy \cup {"absent"} /\ Taken(3) \in AnyName
        /\ Taken(5) \in Nat /\ pos + 5 \in 1..(Len(file) + 1)
    <3>1. DOMAIN RootFields = 1..5 /\ Ready(RootFields)
      BY <1>2 DEF GoodRoot, RootFields
    <3>2. /\ \A k \in 1..5 : Taken(k) \in Admits(RootFields[k])
          /\ pos + 5 \in 1..(Len(file) + 1)
      <4>1. file \in Seq(TypedField) /\ pos \in 1..(Len(file) + 1) /\ 5 \in Nat \ {0}
        BY DEF FileSound, Control
      <4>2. QED
        BY <3>1, <4>1, ReadyTyped
    <3>3. Taken(1) \in Admits("policy") /\ Taken(3) \in Admits("name") /\ Taken(5) \in Admits("count")
      BY <3>2 DEF RootFields
    <3>4. QED
      BY <3>2, <3>3 DEF Admits
  <2>2. /\ item \in Item /\ item.kind = "Group" /\ item.kids = none
        /\ item.kind \in ContainerKinds
    BY <1>2, <2>1, EmptySeq DEF NewItem, Item, AnyPolicy, Policies, Kinds, ContainerKinds
  <2>3. Len(none) = 0 /\ ToSet(none) = {}
    BY EmptySeq DEF ToSet
  <2>4. Puts(heap, Loaded, item, heap')
    BY <1>2 DEF Puts
  <2>5. f \in Opening /\ f.at = Loaded
    BY <2>1, FileAssumption DEF Opening, Addresses
  <2>6. frames' = <<f>>
    BY <1>2
  <2> HIDE DEF item, none, f
  <2>7. WellTyped(heap) /\ Closed(heap)
    BY DEF FileSound, Good
  <2>8. Loaded \in Addresses /\ \A k \in 1..Len(item.kids) : heap[item.kids[k]] # Null
    BY <2>2, <2>3, FileAssumption DEF Addresses
  <2>9. /\ WellTyped(heap') /\ Closed(heap') /\ heap'[Loaded] = item /\ heap'[Loaded] # Null
        /\ \A y \in Addresses \ {Loaded} : heap'[y] = heap[y]
    BY <2>2, <2>4, <2>7, <2>8, PutItem
  <2>10. Kids(heap', Loaded) = {}
    BY <2>2, <2>3, <2>9 DEF Kids
  <2>11. IsContainer(heap', Loaded)
    BY <2>2, <2>8, <2>9 DEF IsContainer, WellTyped
  <2>12. <<f>> \in Seq(Opening) /\ Len(<<f>>) = 1 /\ \A k \in 1..1 : k = 1 /\ <<f>>[k] = f
    BY <2>5
  <2>13. Stacked(heap', <<f>>)
    BY <2>5, <2>11, <2>12 DEF Stacked
  <2>14. Locals(<<f>>) = {}
    <3>1. \A l \in Locals(<<f>>) : l \in Ids /\ \E k \in 1..1 : l = <<f>>[k].at
      BY <2>12, LocalsAre
    <3>2. QED
      BY <2>5, <2>12, <3>1, FileAssumption, AddressesAssumption
  <2>15. PICK S \in SUBSET Ids : Covers(heap', <<>>, S)
    BY <2>9, <2>10, EmptyGood DEF Good
  <2>16. Covers(heap', <<f>>, S)
    BY <2>14, <2>15 DEF Covers
  <2>17. Good(heap', frames')
    BY <2>6, <2>9, <2>13, <2>16 DEF Good
  <2>18. \A c \in Configs \ {Source, Loaded} : Kids(heap', c) = {}
    BY <2>9 DEF FileSound, Control, Kids, Addresses
  <2>19. QED
    BY <1>2, <2>1, <2>17, <2>18 DEF FileSound, Control
<1>3. QED
  BY <1>1, <1>2 DEF ReadRoot

LEMMA ReadLeafSound ==
    ASSUME FileSound, ReadLeaf
    PROVE  FileSound'
<1> DEFINE x    == Fresh
           kind == IF Taken(1) = "Comment" THEN "Comment" ELSE "Value"
           name == Taken(2)
           val  == Taken(3)
           g    == [heap EXCEPT ![x] = NewItem(kind, name, val)]
<1>1. /\ Free # {} /\ phase = "load" /\ frames # <<>> /\ Last(frames).left > 0
      /\ Ready(LeafFields) /\ pos' = pos + 3 /\ Deliver(g, x, frames)
  BY DEF ReadLeaf, Reading, Top, GoodLeaf
<1>2. x \in Ids /\ heap[x] = Null
  BY <1>1, FreshIsFree
<1>3. name \in AnyName /\ val \in Vals \cup {NoVal} /\ pos + 3 \in 1..(Len(file) + 1)
  <2>1. /\ DOMAIN LeafFields = 1..3 /\ 3 \in Nat \ {0}
        /\ file \in Seq(TypedField) /\ pos \in 1..(Len(file) + 1)
    BY DEF FileSound, Control, LeafFields
  <2>2. /\ \A k \in 1..3 : Taken(k) \in Admits(LeafFields[k])
        /\ pos + 3 \in 1..(Len(file) + 1)
    BY <1>1, <2>1, ReadyTyped
  <2>3. Taken(2) \in Admits("name") /\ Taken(3) \in Admits("payload")
    BY <2>2 DEF LeafFields
  <2>4. QED
    BY <2>2, <2>3 DEF Admits
<1>4. kind \in Kinds /\ Puts(heap, x, NewItem(kind, name, val), g)
  BY DEF Kinds, Puts
<1> HIDE DEF x, kind, name, val, g
<1>5. /\ WellTyped(g) /\ Closed(g) /\ Stacked(g, frames) /\ g[x] # Null
      /\ \A k \in 1..Len(frames) : frames[k].at # x
      /\ \E S \in SUBSET Ids : x \in S /\ Covers(g, frames, S)
      /\ \A c \in Configs : g[c] = heap[c]
  BY <1>2, <1>3, <1>4, FreshGood DEF FileSound
<1>6. PICK S \in SUBSET Ids : x \in S /\ Covers(g, frames, S)
  BY <1>5
<1>7. pos' \in 1..(Len(file) + 1)
  BY <1>1, <1>3
<1>8. \A c \in Configs \ {Source, Loaded} : Kids(g, c) = {}
  BY <1>5 DEF FileSound, Control, Kids
<1>9. QED
  BY <1>1, <1>5, <1>6, <1>7, <1>8, DeliverSound

LEMMA OpenContainerSound ==
    ASSUME FileSound, OpenContainer
    PROVE  FileSound'
<1> DEFINE x    == Fresh
           kind == Taken(3)
           name == Taken(2)
           f    == [at |-> x, left |-> Taken(4)]
           fs   == Append(frames, f)
<1>1. /\ Free # {} /\ phase = "load" /\ frames # <<>> /\ Last(frames).left > 0
      /\ Ready(ContainerFields) /\ pos' = pos + 4 /\ kind \in ContainerKinds
      /\ heap' = [heap EXCEPT ![x] = NewItem(kind, name, NoVal)] /\ frames' = fs
      /\ UNCHANGED <<policy, file, damage, phase, ret>>
  BY DEF OpenContainer, Reading, Top, GoodContainer
<1>2. x \in Ids /\ heap[x] = Null
  BY <1>1, FreshIsFree
<1>3. name \in AnyName /\ Taken(4) \in Nat /\ pos + 4 \in 1..(Len(file) + 1)
  <2>1. /\ DOMAIN ContainerFields = 1..4 /\ 4 \in Nat \ {0}
        /\ file \in Seq(TypedField) /\ pos \in 1..(Len(file) + 1)
    BY DEF FileSound, Control, ContainerFields
  <2>2. /\ \A k \in 1..4 : Taken(k) \in Admits(ContainerFields[k])
        /\ pos + 4 \in 1..(Len(file) + 1)
    BY <1>1, <2>1, ReadyTyped
  <2>3. Taken(2) \in Admits("name") /\ Taken(4) \in Admits("count")
    BY <2>2 DEF ContainerFields
  <2>4. QED
    BY <2>2, <2>3 DEF Admits
<1>4. kind \in Kinds /\ Puts(heap, x, NewItem(kind, name, NoVal), heap')
  BY <1>1 DEF Kinds, Puts
<1>5. f \in Opening /\ f.at = x
  BY <1>2, <1>3 DEF Opening, Addresses
<1> HIDE DEF x, kind, name, f
<1>6. /\ WellTyped(heap') /\ Closed(heap') /\ Stacked(heap', frames)
      /\ heap'[x] # Null /\ heap'[x].kind = kind /\ heap'[x].policy \in Policies
      /\ \A k \in 1..Len(frames) : frames[k].at # x
      /\ \E S \in SUBSET Ids : x \in S /\ Covers(heap', frames, S)
      /\ \A c \in Configs : heap'[c] = heap[c]
  BY <1>2, <1>3, <1>4, FreshGood DEF FileSound
<1>7. IsContainer(heap', x) /\ heap'[x].policy \in Policies
  BY <1>1, <1>2, <1>6 DEF IsContainer, WellTyped, Addresses
<1>8. Stacked(heap', fs) /\ Locals(fs) \subseteq Locals(frames) \cup {x}
  BY <1>1, <1>2, <1>5, <1>6, <1>7, StackedMore
<1> HIDE DEF fs
<1>9. PICK S \in SUBSET Ids : x \in S /\ Covers(heap', frames, S)
  BY <1>6
<1>10. Covers(heap', fs, S)
  BY <1>8, <1>9 DEF Covers
<1>11. Good(heap', frames')
  BY <1>1, <1>6, <1>8, <1>10 DEF Good
<1>12. \A c \in Configs \ {Source, Loaded} : Kids(heap', c) = {}
  BY <1>6 DEF FileSound, Control, Kids
<1>13. QED
  BY <1>1, <1>3, <1>11, <1>12 DEF FileSound, Control

LEMMA CloseContainerSound ==
    ASSUME FileSound, CloseContainer
    PROVE  FileSound'
<1> DEFINE x  == Last(frames).at
           fs == Front(frames)
<1>1. /\ phase = "load" /\ Len(frames) > 1 /\ UNCHANGED pos
      /\ Deliver(heap, x, fs)
  BY DEF CloseContainer, Reading, Top
<1>2. /\ WellTyped(heap) /\ Closed(heap) /\ Stacked(heap, frames)
      /\ \A c \in Configs \ {Source, Loaded} : Kids(heap, c) = {}
  BY DEF FileSound, Good, Control
<1>3. /\ Stacked(heap, fs) /\ fs # <<>> /\ Last(fs).left > 0
      /\ Locals(fs) \subseteq Locals(frames) /\ x \in Locals(frames)
      /\ \A k \in 1..Len(fs) : fs[k].at # x
  BY <1>1, <1>2, StackedFront
<1> HIDE DEF x, fs
<1>4. heap[x] # Null
  BY <1>2, <1>3, LocalsHeld
<1>5. PICK S \in SUBSET Ids : Covers(heap, frames, S)
  BY DEF FileSound, Good
<1>6. Covers(heap, fs, S) /\ x \in S
  BY <1>3, <1>5 DEF Covers
<1>7. pos' \in 1..(Len(file) + 1)
  BY <1>1 DEF FileSound, Control
<1>8. QED
  BY <1>1, <1>2, <1>3, <1>4, <1>6, <1>7, DeliverSound

LEMMA RefuseItemSound ==
    ASSUME FileSound, RefuseItem
    PROVE  FileSound'
BY RefusedSound DEF RefuseItem, FileSound, Control

LEMMA EndLoadSound ==
    ASSUME FileSound, EndLoad
    PROVE  FileSound'
<1> DEFINE none == <<>>
<1>1. /\ policy' = [policy EXCEPT ![Loaded] = heap[Loaded].policy]
      /\ phase' = "over" /\ frames' = none /\ ret' = "loaded"
      /\ UNCHANGED <<heap, file, damage, pos>>
  BY DEF EndLoad
<1>2. WellTyped(heap) /\ Closed(heap)
  BY DEF FileSound, Good
<1>3. heap[Loaded].policy \in AnyPolicy
  <2>1. Loaded \in Addresses /\ heap[Loaded] # Null
    BY <1>2, FileAssumption DEF Addresses, WellTyped
  <2>2. QED
    BY <1>2, <2>1, ItemFields
<1>4. Stacked(heap, none) /\ Locals(none) = {}
  BY StackedEmpty
<1>5. PICK S \in SUBSET Ids : Covers(heap, frames, S)
  BY DEF FileSound, Good
<1> HIDE DEF none
<1>6. Covers(heap, none, S)
  BY <1>4, <1>5 DEF Covers
<1>7. Good(heap', frames')
  BY <1>1, <1>2, <1>4, <1>6 DEF Good
<1>8. QED
  BY <1>1, <1>3, <1>7 DEF FileSound, Control, PoliciesTyped, none

LEMMA DiscardSound ==
    ASSUME FileSound, Discard
    PROVE  FileSound'
<1> DEFINE empty == <<>>
<1>1. /\ heap' = Settled([heap EXCEPT ![Loaded] = EmptyRoot], {})
      /\ policy' = [policy EXCEPT ![Loaded] = "ThrowException"]
      /\ file' = empty /\ damage' = "none" /\ phase' = "edit" /\ pos' = 1
      /\ ret' = "none" /\ frames' = frames /\ frames = <<>>
  BY DEF Discard, FileSound, Control
<1>2. WellTyped(heap) /\ Closed(heap)
  BY DEF FileSound, Good
<1>3. /\ Good(heap', <<>>) /\ Kids(heap', Loaded) = {}
      /\ \A c \in Configs \ {Loaded} : Kids(heap', c) = Kids(heap, c)
  BY <1>1, <1>2, ClearedGood
<1>4. PoliciesTyped(policy')
  BY <1>1 DEF FileSound, Control, PoliciesTyped, AnyPolicy, Policies
<1>5. file' \in Seq(TypedField) /\ Len(file') = 0
  BY <1>1, EmptySeq
<1>6. Good(heap', frames')
  BY <1>1, <1>3
<1>7. pos' \in 1..(Len(file') + 1)
  BY <1>1, <1>5
<1>8. QED
  BY <1>1, <1>3, <1>4, <1>5, <1>6, <1>7 DEF FileSound, Control

-----------------------------------------------------------------------------
(* The client's steps, saving, and what happens to the file *)

\* An edit that leaves the heap sound and the Configs that are not saved empty.
LEMMA EditSound ==
    ASSUME FileSound, Editing, PoliciesTyped(policy'),
           WellTyped(heap'), Closed(heap'),
           \A c \in Configs \ {Source} : Kids(heap', c) = {}
    PROVE  FileSound'
<1>1. Good(heap', <<>>)
  BY EmptyGood, FileAssumption
<1>2. frames' = <<>>
  BY DEF Editing, FileSound, Control
<1>3. Good(heap', frames')
  BY <1>1, <1>2
<1>4. QED
  BY <1>2, <1>3, FileAssumption DEF Editing, FileSound, Control

LEMMA AddNewSound ==
    ASSUME FileSound, NEW t, NEW kind \in Kinds, NEW name \in AnyName,
           NEW v \in Vals \cup {NoVal}, NEW p \in Policies, AddNew(t, kind, name, v, p)
    PROVE  FileSound'
<1> DEFINE x == Fresh
           g == [heap EXCEPT ![x] = NewItem(kind, name, v)]
           r == AddTo(g, t, x, p)
           none == {}
<1>1. /\ Editing /\ t \in Ids \cup {Source} /\ IsContainer(heap, t) /\ Free # {}
      /\ heap' = Settled(r.heap, none) /\ UNCHANGED policy
  BY DEF AddNew
<1>2. x \in Ids /\ heap[x] = Null
  BY <1>1, FreshIsFree
<1>3. Puts(heap, x, NewItem(kind, name, v), g)
  BY DEF Puts
<1>4. /\ WellTyped(heap) /\ t \in Addresses /\ t # x
      /\ \A c \in Configs \ {Source} : Kids(heap, c) = {} /\ c # t
  BY <1>1, <1>2, FileAssumption, AddressesAssumption
     DEF FileSound, Good, Control, Editing, Addresses, IsContainer
<1>5. g[t] = heap[t]
  BY <1>2, <1>4
<1>6. r = AddTo(g, t, x, p)
  OBVIOUS
<1> HIDE DEF x, g, r
<1>7. WellTyped(g) /\ Closed(g) /\ g[x] # Null /\ \A c \in Configs : g[c] = heap[c]
  BY <1>2, <1>3, FreshGood DEF FileSound
<1>8. IsContainer(g, t)
  BY <1>1, <1>4, <1>5, <1>7 DEF IsContainer, WellTyped
<1>9. WellTyped(r.heap) /\ Closed(r.heap)
  BY <1>2, <1>4, <1>6, <1>7, <1>8, AddToSound DEF AnyPolicy
<1>10. \A c \in Configs \ {Source} : r.heap[c] = g[c]
  BY <1>2, <1>4, <1>6, <1>7, <1>8, AddElsewhere DEF AnyPolicy
<1>11. none \in SUBSET Ids /\ \A q \in none : r.heap[q] # Null
  OBVIOUS
<1> HIDE DEF none
<1>12. WellTyped(heap') /\ Closed(heap') /\ \A c \in Configs : heap'[c] = r.heap[c]
  BY <1>1, <1>9, <1>11, SettledKeeps
<1>13. \A c \in Configs \ {Source} : Kids(heap', c) = {}
  BY <1>4, <1>7, <1>10, <1>12 DEF Kids
<1>14. PoliciesTyped(policy')
  BY <1>1 DEF FileSound, Control
<1>15. QED
  BY <1>1, <1>12, <1>13, <1>14, EditSound

LEMMA RemoveAtIndexSound ==
    ASSUME FileSound, NEW t, NEW k, RemoveAtIndex(t, k)
    PROVE  FileSound'
<1> DEFINE kids == heap[t].kids
           g    == [heap EXCEPT ![t].kids = RemoveAt(kids, k)]
           none == {}
<1>1. /\ Editing /\ t \in Ids \cup {Source} /\ IsContainer(heap, t) /\ k \in DOMAIN kids
      /\ heap' = Settled(g, none) /\ UNCHANGED policy
  BY DEF RemoveAtIndex
<1>2. /\ WellTyped(heap) /\ Closed(heap) /\ t \in Addresses
      /\ \A c \in Configs \ {Source} : Kids(heap, c) = {} /\ c # t /\ c \in Addresses
  BY <1>1, FileAssumption, AddressesAssumption
     DEF FileSound, Good, Control, Editing, Addresses
<1>3. k \in 1..Len(kids)
  <2>1. kids \in Seq(Ids)
    BY <1>1, <1>2, ItemFields DEF IsContainer
  <2>2. QED
    BY <1>1, <2>1, LenProperties
<1>4. PutsKids(heap, t, RemoveAt(heap[t].kids, k), g)
  BY DEF PutsKids
<1>5. \A c \in Configs \ {Source} : g[c] = heap[c]
  BY <1>2 DEF WellTyped
<1> HIDE DEF g
<1>6. WellTyped(g) /\ Closed(g)
  BY <1>1, <1>2, <1>3, <1>4, EraseSound
<1>7. none \in SUBSET Ids /\ \A q \in none : g[q] # Null
  OBVIOUS
<1> HIDE DEF none
<1>8. WellTyped(heap') /\ Closed(heap') /\ \A c \in Configs : heap'[c] = g[c]
  BY <1>1, <1>6, <1>7, SettledKeeps
<1>9. \A c \in Configs \ {Source} : Kids(heap', c) = {}
  BY <1>2, <1>5, <1>8 DEF Kids
<1>10. PoliciesTyped(policy')
  BY <1>1 DEF FileSound, Control
<1>11. QED
  BY <1>1, <1>8, <1>9, <1>10, EditSound

\* Writing an item that keeps its kind and its items.
LEMMA TouchSound ==
    ASSUME FileSound, Editing, PoliciesTyped(policy'),
           NEW x \in Ids \cup {Source}, heap[x] # Null,
           NEW item \in Item, item.kind = heap[x].kind, item.kids = heap[x].kids,
           Puts(heap, x, item, heap')
    PROVE  FileSound'
<1>1. /\ WellTyped(heap) /\ Closed(heap) /\ x \in Addresses
      /\ \A c \in Configs \ {Source} : Kids(heap, c) = {} /\ c # x /\ c \in Addresses
  BY FileAssumption, AddressesAssumption
     DEF FileSound, Good, Control, Editing, Addresses
<1>2. /\ x \in Configs => item.kind = "Group"
      /\ item.kids # <<>> => item.kind \in ContainerKinds
  BY <1>1 DEF WellTyped
<1>3. \A k \in 1..Len(item.kids) : heap[item.kids[k]] # Null
  <2>1. Kids(heap, x) \subseteq Ids /\ Kids(heap, x) = {item.kids[k] : k \in 1..Len(item.kids)}
    BY <1>1, ItemFields
  <2>2. QED
    BY <1>1, <2>1 DEF Closed, Addresses
<1>4. /\ WellTyped(heap') /\ Closed(heap') /\ \A y \in Addresses \ {x} : heap'[y] = heap[y]
  BY <1>1, <1>2, <1>3, PutItem
<1>5. \A c \in Configs \ {Source} : Kids(heap', c) = {}
  BY <1>1, <1>4 DEF Kids
<1>6. QED
  BY <1>4, <1>5, EditSound

LEMMA TouchesSound ==
    ASSUME FileSound
    PROVE  /\ \A x \in Ids : \A name \in AnyName : Rename(x, name) => FileSound'
           /\ \A x \in Ids : \A v \in Vals : Assign(x, v) => FileSound'
           /\ \A p \in Policies : OnExistingAction(p) => FileSound'
<1>1. WellTyped(heap) /\ PoliciesTyped(policy)
  BY DEF FileSound, Good, Control
<1>2. ASSUME NEW x \in Ids, NEW name \in AnyName, Rename(x, name)
      PROVE  FileSound'
  <2> DEFINE item == [heap[x] EXCEPT !.name = name]
  <2>1. heap[x] # Null /\ heap[x] \in Item /\ x \in Addresses
    BY <1>1, <1>2, ItemFields DEF Rename, Live, Addresses
  <2>2. item \in Item /\ item.kind = heap[x].kind /\ item.kids = heap[x].kids
    BY <2>1 DEF Item
  <2>3. Puts(heap, x, item, heap') /\ Editing /\ PoliciesTyped(policy')
    BY <1>1, <1>2 DEF Rename, Puts
  <2> HIDE DEF item
  <2>4. QED
    BY <2>1, <2>2, <2>3, TouchSound
<1>3. ASSUME NEW x \in Ids, NEW v \in Vals, Assign(x, v)
      PROVE  FileSound'
  <2> DEFINE item == [heap[x] EXCEPT !.val = v]
  <2>1. heap[x] # Null /\ heap[x] \in Item /\ x \in Addresses
    BY <1>1, <1>3, ItemFields DEF Assign, Live, Addresses
  <2>2. item \in Item /\ item.kind = heap[x].kind /\ item.kids = heap[x].kids
    BY <2>1 DEF Item
  <2>3. Puts(heap, x, item, heap') /\ Editing /\ PoliciesTyped(policy')
    BY <1>1, <1>3 DEF Assign, Puts
  <2> HIDE DEF item
  <2>4. QED
    BY <2>1, <2>2, <2>3, TouchSound
<1>4. ASSUME NEW p \in Policies, OnExistingAction(p)
      PROVE  FileSound'
  <2> DEFINE item == [heap[Source] EXCEPT !.policy = p]
  <2>1. heap[Source] # Null /\ heap[Source] \in Item /\ Source \in Addresses
    BY <1>1, FileAssumption, ItemFields DEF WellTyped, Addresses
  <2>2. item \in Item /\ item.kind = heap[Source].kind /\ item.kids = heap[Source].kids
    BY <2>1 DEF Item, AnyPolicy
  <2>3. Puts(heap, Source, item, heap') /\ Editing
    BY <1>4 DEF OnExistingAction, Puts
  <2>4. PoliciesTyped(policy')
    BY <1>1, <1>4, FileAssumption DEF OnExistingAction, PoliciesTyped, AnyPolicy
  <2> HIDE DEF item
  <2>5. QED
    BY <2>1, <2>2, <2>3, <2>4, TouchSound
<1>5. QED
  BY <1>2, <1>3, <1>4

LEMMA SaveSound ==
    ASSUME FileSound, Save
    PROVE  FileSound'
<1> DEFINE body == Written(heap, Source)
           head == <<Field("policy", policy[Source])>>
<1>1. /\ phase = "edit" /\ file' = Header \o head \o body
      /\ phase' = "saved" /\ damage' = "none"
      /\ UNCHANGED <<heap, policy, pos, frames, ret>>
  BY DEF Save
<1>2. /\ WellTyped(heap) /\ Closed(heap) /\ Source \in Addresses /\ heap[Source] # Null
      /\ policy[Source] \in Policies
  BY FileAssumption DEF FileSound, Good, Control, PoliciesTyped, Addresses, WellTyped
<1>3. body \in Seq(TypedField)
  BY <1>2, WrittenPiece DEF Piece
<1>4. Header \in Seq(TypedField) /\ head \in Seq(TypedField)
  <2>1. /\ "STBTCF" \in Admits("magic") /\ 1 \in Admits("version")
        /\ policy[Source] \in Admits("policy")
    BY <1>2 DEF Admits, AnyPolicy
  <2>2. /\ Field("magic", "STBTCF") \in TypedField /\ Field("version", 1) \in TypedField
        /\ Field("policy", policy[Source]) \in TypedField
    <3>1. \A of \in Fields : \A is \in Admits(of) : Field(of, is) \in TypedField
      BY FieldTyped
    <3>2. QED
      BY <2>1, <3>1 DEF Fields
  <2>3. QED
    BY <2>2 DEF Header
<1> HIDE DEF body, head
<1>5. file' \in Seq(TypedField)
  BY <1>1, <1>3, <1>4, ConcatProperties
<1>6. pos' \in 1..(Len(file') + 1)
  BY <1>1, <1>5, LenProperties DEF FileSound, Control
<1>7. QED
  BY <1>1, <1>5, <1>6 DEF FileSound, Control

\* Whatever the file has become, if its fields hold what such fields hold.
LEMMA DamagedSound ==
    ASSUME FileSound, NEW new \in Seq(TypedField), NEW how,
           how \in {"cut", "longer", "altered"}, Damaged(new, how)
    PROVE  FileSound'
<1>1. /\ phase = "saved" /\ file' = new /\ damage' = how
      /\ UNCHANGED <<heap, policy, phase, pos, frames, ret>>
  BY DEF Damaged
<1>2. pos' \in 1..(Len(file') + 1)
  BY <1>1, LenProperties DEF FileSound, Control
<1>3. QED
  BY <1>1, <1>2 DEF FileSound, Control

LEMMA DamageSound ==
    ASSUME FileSound, Damage
    PROVE  FileSound'
<1>1. file \in Seq(TypedField) /\ DOMAIN file = 1..Len(file) /\ Len(file) \in Nat
  BY LenProperties DEF FileSound, Control
<1>2. Field("part", 0) \in TypedField /\ Field("junk", 0) \in TypedField
  <2>1. 0 \in Admits("part") /\ 0 \in Admits("junk")
    BY DEF Admits
  <2>2. \A of \in Fields : \A is \in Admits(of) : Field(of, is) \in TypedField
    BY FieldTyped
  <2>3. QED
    BY <2>1, <2>2 DEF Fields
<1>3. ASSUME NEW n, Truncate(n)
      PROVE  FileSound'
  <2>1. PICK rest \in {<<>>, <<Field("part", 0)>>} :
           n \in 0..(Len(file) - 1) /\ Damaged(SubSeq(file, 1, n) \o rest, "cut")
    BY <1>3 DEF Truncate
  <2>2. rest \in Seq(TypedField)
    <3>1. <<>> \in Seq(TypedField) /\ <<Field("part", 0)>> \in Seq(TypedField)
      BY <1>2, EmptySeq
    <3>2. QED
      BY <2>1, <3>1
  <2> DEFINE kept == SubSeq(file, 1, n)
  <2>3. kept \in Seq(TypedField)
    <3>1. 1 \in Int /\ n \in Int /\ \A i \in 1..n : file[i] \in TypedField
      BY <1>1, <2>1, ElementOfSeq
    <3>2. QED
      BY <3>1, SubSeqProperties
  <2> HIDE DEF kept
  <2>4. kept \o rest \in Seq(TypedField)
    BY <2>2, <2>3, ConcatProperties
  <2>5. Damaged(kept \o rest, "cut")
    BY <2>1 DEF kept
  <2>6. QED
    BY <2>4, <2>5, DamagedSound
<1>4. ASSUME Extend
      PROVE  FileSound'
  <2>1. Append(file, Field("junk", 0)) \in Seq(TypedField)
    BY <1>1, <1>2, AppendKeeps
  <2>2. Damaged(Append(file, Field("junk", 0)), "longer")
    BY <1>4 DEF Extend
  <2>3. QED
    BY <2>1, <2>2, DamagedSound
<1>5. ASSUME NEW n \in DOMAIN file, NEW is \in Instead(file[n].of), Alter(n, is)
      PROVE  FileSound'
  <2> DEFINE new == [file EXCEPT ![n].is = is]
             f   == [file[n] EXCEPT !.is = is]
  <2>1. file[n] \in TypedField
    BY <1>1, ElementOfSeq
  <2>2. PICK of \in Fields : file[n] \in [of: {of}, is: Admits(of)]
    BY <2>1 DEF TypedField
  <2>3. is \in Instead(of)
    BY <2>2
  <2>4. is \in Admits(of)
    BY <2>2, <2>3, FileAssumption DEF Instead, Admits, Fields, AnyName
  <2>5. f \in TypedField
    BY <2>2, <2>4 DEF TypedField
  <2>6. new \in Seq(TypedField)
    <3>1. new = [k \in 1..Len(file) |-> IF k = n THEN f ELSE file[k]]
      BY <1>1
    <3>2. \A k \in 1..Len(file) : (IF k = n THEN f ELSE file[k]) \in TypedField
      BY <1>1, <2>5, ElementOfSeq
    <3> HIDE DEF new, f
    <3>3. QED
      BY <1>1, <3>1, <3>2
  <2>7. Damaged(new, "altered")
    BY <1>5 DEF Alter
  <2> HIDE DEF new
  <2>8. QED
    BY <2>6, <2>7, DamagedSound
<1>6. QED
  BY <1>3, <1>4, <1>5 DEF Damage

-----------------------------------------------------------------------------
(* The theorems *)

LEMMA InitSound ==
    ASSUME Init
    PROVE  FileSound
<1> DEFINE none == <<>>
<1>1. /\ EmptyRoot \in Item /\ EmptyRoot.kids = none /\ EmptyRoot.kind = "Group"
  BY EmptySeq DEF EmptyRoot, NewItem, Item, Kinds, ContainerKinds, AnyPolicy, Policies, AnyName
<1>2. Len(none) = 0 /\ ToSet(none) = {} /\ none \in Seq(TypedField)
  BY EmptySeq DEF ToSet
<1> HIDE DEF none
<1>3. heap = [x \in Addresses |-> IF x \in Configs THEN EmptyRoot ELSE Null]
  BY DEF Init
<1>4. WellTyped(heap)
  BY <1>1, <1>3, NullAssumption DEF WellTyped, Addresses, ContainerKinds
<1>5. \A x \in Addresses : Kids(heap, x) = {}
  BY <1>1, <1>2, <1>3 DEF Kids
<1>6. Closed(heap) /\ Kids(heap, Loaded) = {}
  BY <1>5, FileAssumption DEF Closed, Addresses
<1>7. Good(heap, <<>>)
  BY <1>4, <1>6, EmptyGood
<1>8. /\ PoliciesTyped(policy) /\ file = none /\ damage = "none"
      /\ phase = "edit" /\ pos = 1 /\ frames = <<>> /\ ret = "none"
  BY DEF Init, PoliciesTyped, AnyPolicy, Policies, none
<1>9. pos \in 1..(Len(file) + 1)
  BY <1>2, <1>8
<1>10. \A c \in Configs : Kids(heap, c) = {}
  BY <1>5 DEF Addresses
<1>11. QED
  BY <1>2, <1>7, <1>8, <1>9, <1>10, FileAssumption DEF FileSound, Control

LEMMA NextSound ==
    ASSUME FileSound, [Next]_vars
    PROVE  FileSound'
<1>1. ASSUME Edit
      PROVE  FileSound'
  <2>1. UsedPolicies \subseteq Policies /\ UsedKinds \subseteq Kinds
    BY FileAssumption
  <2>2. ASSUME NEW t, NEW p \in UsedPolicies, NEW name \in AnyName, NEW v \in Vals \cup {NoVal},
               NEW kind \in UsedKinds, AddNew(t, kind, name, v, p)
        PROVE  FileSound'
    BY <2>1, <2>2, AddNewSound
  <2>3. ASSUME NEW t, NEW k, RemoveAtIndex(t, k)
        PROVE  FileSound'
    BY <2>3, RemoveAtIndexSound
  <2>4. QED
    BY <1>1, <2>1, <2>2, <2>3, TouchesSound DEF Edit
<1>2. ASSUME LoadStep
      PROVE  FileSound'
  BY <1>2, ReadRootSound, ReadLeafSound, OpenContainerSound, CloseContainerSound,
     RefuseItemSound, EndLoadSound DEF LoadStep
<1>3. ASSUME UNCHANGED vars
      PROVE  FileSound'
  BY <1>3 DEF vars, FileSound, Control
<1>4. QED
  BY <1>1, <1>2, <1>3, SaveSound, DamageSound, StartLoadSound, DiscardSound DEF Next

\* Save, Load, and whatever has become of the file in between keep the heap
\* sound and what is loaded tidy (Binary::Writer, Reader, ReaderV1).
THEOREM FileSoundness == Spec => []FileSound
BY InitSound, NextSound, PTL DEF Spec

\* Every variable has its type; the cursor is at a field or at the end, and
\* every activation of ReadContainerInto fills a live container of its own,
\* which is the root for the outermost (ReaderV1::Read and ReadContainerInto).
THEOREM BinaryTypeCorrect == Spec => []TypeOK
<1>1. FileSound => TypeOK
  <2> SUFFICES ASSUME FileSound
               PROVE  TypeOK
    OBVIOUS
  <2>1. /\ WellTyped(heap) /\ Closed(heap) /\ Stacked(heap, frames)
        /\ frames \in Seq(Opening)
    BY DEF FileSound, Good, Stacked
  <2>2. heap \in [Addresses -> Item \cup {Null}]
    BY <2>1 DEF WellTyped
  <2>3. \A k \in DOMAIN file : file[k].of \in Fields
    <3>1. file \in Seq(TypedField) /\ DOMAIN file = 1..Len(file)
      BY LenProperties DEF FileSound, Control
    <3>2. \A k \in DOMAIN file : file[k] \in TypedField
      BY <3>1, ElementOfSeq
    <3>3. QED
      BY <3>2 DEF TypedField
  <2>4. DOMAIN frames = 1..Len(frames) /\ Len(frames) \in Nat
    BY <2>1, LenProperties
  <2>5. frames # <<>> => phase = "load" /\ frames[1].at = Loaded
    <3>1. frames # <<>> => Len(frames) \in 1..Len(frames)
      BY <2>1, FrontAndLast
    <3>2. frames # <<>> => 1 \in 1..Len(frames)
      BY <2>4, <3>1
    <3>3. QED
      BY <2>1, <3>2 DEF Stacked, FileSound, Control
  <2>6. \A j, k \in DOMAIN frames : frames[j].at = frames[k].at => j = k
    BY <2>1, <2>4 DEF Stacked
  <2>7. \A k \in DOMAIN frames : frames[k].left \in Nat /\ IsContainer(heap, frames[k].at)
    <3>1. \A k \in DOMAIN frames : frames[k] \in Opening
      BY <2>1, <2>4, ElementOfSeq
    <3>2. QED
      BY <2>1, <2>4, <3>1 DEF Stacked, Opening
  <2>8. \A x \in Addresses : Kids(heap, x) \cap Free = {}
    BY <2>1, KidsAreIds DEF Closed, Free, Addresses
  <2>9. QED
    BY <2>2, <2>3, <2>5, <2>6, <2>7, <2>8 DEF TypeOK, FileSound, Control, PoliciesTyped
<1>2. QED
  BY <1>1, FileSoundness, PTL

\* From whatever file, what is being loaded and what has been loaded has no two
\* items of one name in a group, no value twice in a list and no badly named
\* item in either: the reader adds with Container::Add, and never renames what
\* it has added (ReaderV1::ReadContainerInto).  The root is an exception if the
\* file brought a policy that is none, which Add does not refuse: then its items
\* are named as they must be, but may share names (ReaderV1::Read).
THEOREM LoadsStayUnique == Spec => []LoadKeepsUnique
<1>1. FileSound => LoadKeepsUnique
  <2> SUFFICES ASSUME FileSound
               PROVE  LoadKeepsUnique
    OBVIOUS
  <2> DEFINE R == Kids(heap, Loaded) \cup Locals(frames)
             TidyAt(x) == Tidy(heap, heap[x].kind, heap[x].kids)
  <2>1. WellTyped(heap) /\ Closed(heap) /\ Stacked(heap, frames)
    BY DEF FileSound, Good
  <2>2. PICK S \in SUBSET Ids : Covers(heap, frames, S)
    BY DEF FileSound, Good
  <2>3. R \subseteq S /\ \A y \in S : Kids(heap, y) \subseteq S
    BY <2>2 DEF Covers
  <2>4. Loaded \in Addresses /\ heap[Loaded] # Null /\ heap[Loaded].kind = "Group"
    BY <2>1, FileAssumption DEF WellTyped, Addresses
  <2>5. ASSUME NEW x \in Addresses, heap[x] # Null, TidyAt(x)
        PROVE  UniqueNamesIn(heap, x) /\ DistinctValuesIn(heap, x)
    BY <2>1, <2>5, TidyMeans
  <2>6. ASSUME NEW x \in Reach(heap, R)
        PROVE  UniqueNamesIn(heap, x) /\ DistinctValuesIn(heap, x)
    <3> DEFINE alive == {y \in Ids : heap[y] # Null}
    <3>1. R \subseteq alive
      <4>1. \A y \in Kids(heap, Loaded) : y \in Ids /\ heap[y] # Null
        BY <2>1, FileAssumption, KidsAreIds DEF Closed, Addresses
      <4>2. \A y \in Locals(frames) : y \in Ids /\ heap[y] # Null
        BY <2>1, LocalsHeld
      <4>3. QED
        BY <4>1, <4>2
    <3>2. \A y \in alive : Kids(heap, y) \subseteq alive
      BY <2>1, KidsAreIds DEF Closed, Addresses
    <3>3. alive \in SUBSET Ids
      OBVIOUS
    <3> HIDE DEF alive, R, TidyAt
    <3>4. x \in alive /\ x \in S
      BY <2>3, <2>6, <3>1, <3>2, <3>3, Outside
    <3>5. x \in Addresses /\ heap[x] # Null
      BY <3>4 DEF alive, Addresses
    <3>6. TidyAt(x)
      BY <2>2, <3>4, <3>5 DEF Covers, Beyond, Neat, TidyAt
    <3>7. QED
      BY <2>5, <3>5, <3>6
  <2>7. heap[Loaded].policy \in Policies => UniqueNamesIn(heap, Loaded)
    <3>1. SUFFICES ASSUME heap[Loaded].policy \in Policies
                   PROVE  TidyAt(Loaded)
      BY <2>4, <2>5
    <3>2. Loaded \notin Beyond(heap, S)
      BY <3>1 DEF Beyond
    <3>3. QED
      BY <2>2, <2>4, <3>2 DEF Covers, Neat
  <2>8. ASSUME NEW k \in Keyed(heap, Loaded)
        PROVE  heap[heap[Loaded].kids[k]].name \in Names
    <3>1. NamedFit(heap, "Group", heap[Loaded].kids)
      BY <2>2, <2>4 DEF Covers
    <3>2. k \in 1..Len(heap[Loaded].kids) /\ heap[heap[Loaded].kids[k]].kind # "Comment"
      BY <2>1, <2>4, <2>8, ItemFields, LenProperties DEF Keyed
    <3>3. QED
      BY <3>1, <3>2 DEF NamedFit, Fit
  <2> HIDE DEF TidyAt
  <2>9. QED
    BY <2>6, <2>7, <2>8 DEF LoadKeepsUnique
<1>2. QED
  BY <1>1, FileSoundness, PTL

-----------------------------------------------------------------------------
(* Files that were cut short *)

\* What the activations fs wait for, less what they are to deliver themselves.
Awaits(fs, m) ==
    \E M \in [0..Len(fs) -> Int] :
       /\ M[0] = 0 /\ M[Len(fs)] = m
       /\ \A k \in 1..Len(fs) : M[k] = M[k - 1] + (fs[k].left - 1)

\* The account of the file never shows that nothing is owed, and where the
\* cursor is it agrees with what the activations wait for.
InStep ==
    \E L : /\ Ledger(file, L) /\ \A k \in 0..Len(file) : L[k] >= 0
           /\ Awaits(frames, L[pos - 1])

\* A saved file owes nothing only at its end, so that a cut one always does;
\* after a failed load there is the saved document and nothing else.
Cutoff ==
    /\ phase = "saved" /\ damage = "none" => Owes(file, 0, 0 - 1)
    /\ phase \in {"saved", "load"} /\ damage = "cut" => InStep
    /\ phase = "over" /\ damage = "cut" => ret = "DeserializeError"
    /\ phase = "over" /\ ret = "DeserializeError" =>
          Ids \ Free = Reach(heap, Kids(heap, Source))

LEMMA AwaitsNone ==
    ASSUME NEW m
    PROVE  Awaits(<<>>, m) <=> m = 0
<1> DEFINE none == <<>>
           M0   == [k \in 0..0 |-> 0]
<1>1. Len(none) = 0
  BY EmptySeq
<1> HIDE DEF none
<1>2. Awaits(none, m) => m = 0
  BY <1>1 DEF Awaits
<1>3. Awaits(none, 0)
  <2>1. M0 \in [0..0 -> Int] /\ M0[0] = 0 /\ \A k \in 1..0 : FALSE
    OBVIOUS
  <2> HIDE DEF M0
  <2>2. QED
    BY <1>1, <2>1 DEF Awaits
<1>4. QED
  BY <1>2, <1>3 DEF none

\* One more activation.
LEMMA AwaitsMore ==
    ASSUME NEW fs \in Seq(Opening), NEW m, Awaits(fs, m), NEW f \in Opening
    PROVE  m \in Int /\ Awaits(Append(fs, f), m + (f.left - 1))
<1> DEFINE n   == Len(fs)
           new == Append(fs, f)
<1>1. n \in Nat /\ Len(new) = n + 1 /\ new[n + 1] = f /\ \A k \in 1..n : new[k] = fs[k]
  BY AppendKeeps, LenProperties
<1>2. f.left \in Int
  BY DEF Opening
<1> HIDE DEF n, new
<1>3. PICK M \in [0..n -> Int] : /\ M[0] = 0 /\ M[n] = m
                                 /\ \A k \in 1..n : M[k] = M[k - 1] + (fs[k].left - 1)
  BY DEF Awaits, n
<1>4. m \in Int
  BY <1>1, <1>3
<1> DEFINE K == [k \in 0..(n + 1) |-> IF k = n + 1 THEN m + (f.left - 1) ELSE M[k]]
<1>5. /\ K \in [0..(n + 1) -> Int] /\ K[n + 1] = m + (f.left - 1)
      /\ \A k \in 0..n : K[k] = M[k]
  <2>1. \A k \in 0..(n + 1) : k = n + 1 \/ k \in 0..n
    BY <1>1
  <2>2. \A k \in 0..n : k \in 0..(n + 1) /\ k # n + 1
    BY <1>1
  <2>3. \A k \in 0..(n + 1) : (IF k = n + 1 THEN m + (f.left - 1) ELSE M[k]) \in Int
    BY <1>2, <1>3, <1>4, <2>1
  <2>4. n + 1 \in 0..(n + 1)
    BY <1>1
  <2>5. QED
    BY <2>2, <2>3, <2>4
<1> HIDE DEF K
<1>6. ASSUME NEW k \in 1..(n + 1)
      PROVE  K[k] = K[k - 1] + (new[k].left - 1)
  <2>1. CASE k = n + 1
    <3>1. k - 1 = n /\ n \in 0..n
      BY <1>1, <2>1
    <3>2. K[k - 1] = m /\ new[k] = f /\ K[k] = m + (f.left - 1)
      BY <1>1, <1>3, <1>5, <2>1, <3>1
    <3>3. QED
      BY <3>2
  <2>2. CASE k # n + 1
    <3>1. k \in 1..n /\ k \in 0..n /\ k - 1 \in 0..n
      BY <1>1, <2>2
    <3>2. K[k] = M[k] /\ K[k - 1] = M[k - 1] /\ new[k] = fs[k]
      BY <1>1, <1>5, <3>1
    <3>3. QED
      BY <1>3, <3>1, <3>2
  <2>3. QED
    BY <2>1, <2>2
<1>7. 0 \in 0..n
  BY <1>1
<1>8. K[0] = 0
  BY <1>3, <1>5, <1>7
<1>9. Awaits(new, m + (f.left - 1))
  BY <1>1, <1>5, <1>6, <1>8 DEF Awaits
<1>10. QED
  BY <1>4, <1>9 DEF new

\* One less.
LEMMA AwaitsFront ==
    ASSUME NEW fs \in Seq(Opening), fs # <<>>, NEW m, Awaits(fs, m)
    PROVE  m \in Int /\ Awaits(Front(fs), m - (Last(fs).left - 1))
<1> DEFINE n    == Len(fs)
           rest == Front(fs)
<1>1. /\ n \in Nat /\ n \in 1..n /\ Last(fs) = fs[n] /\ fs[n] \in Opening
      /\ Len(rest) = n - 1 /\ \A k \in 1..(n - 1) : rest[k] = fs[k]
  BY FrontAndLast
<1>2. fs[n].left \in Int
  BY <1>1 DEF Opening
<1> HIDE DEF n, rest
<1>3. PICK M \in [0..n -> Int] : /\ M[0] = 0 /\ M[n] = m
                                 /\ \A k \in 1..n : M[k] = M[k - 1] + (fs[k].left - 1)
  BY DEF Awaits, n
<1> DEFINE K == [k \in 0..(n - 1) |-> M[k]]
<1>4. \A k \in 0..(n - 1) : k \in 0..n /\ K[k] = M[k]
  BY <1>1
<1>5. K \in [0..(n - 1) -> Int]
  BY <1>3, <1>4
<1> HIDE DEF K
<1>6. ASSUME NEW k \in 1..(n - 1)
      PROVE  K[k] = K[k - 1] + (rest[k].left - 1)
  <2>1. k \in 1..n /\ k \in 0..(n - 1) /\ k - 1 \in 0..(n - 1)
    BY <1>1
  <2>2. K[k] = M[k] /\ K[k - 1] = M[k - 1] /\ rest[k] = fs[k]
    BY <1>1, <1>4, <2>1
  <2>3. QED
    BY <1>3, <2>1, <2>2
<1>7. K[0] = 0 /\ m \in Int /\ K[n - 1] = m - (fs[n].left - 1)
  <2>1. 0 \in 0..(n - 1) /\ n - 1 \in 0..(n - 1) /\ n - 1 \in 0..n /\ n \in 0..n
    BY <1>1
  <2>2. m \in Int /\ M[n - 1] \in Int /\ m = M[n - 1] + (fs[n].left - 1)
    BY <1>1, <1>3, <2>1
  <2>3. K[0] = 0 /\ K[n - 1] = M[n - 1]
    BY <1>3, <1>4, <2>1
  <2>4. QED
    BY <1>2, <2>2, <2>3
<1>8. Awaits(rest, m - (fs[n].left - 1))
  BY <1>1, <1>5, <1>6, <1>7 DEF Awaits
<1>9. QED
  BY <1>1, <1>7, <1>8 DEF rest

\* What is owed does not change over fields that are neither counts nor payloads.
LEMMA ReadOwes ==
    ASSUME file \in Seq(TypedField), pos \in 1..(Len(file) + 1),
           NEW n \in Nat \ {0}, NEW kinds, DOMAIN kinds = 1..n, Ready(kinds),
           \A k \in 1..(n - 1) : kinds[k] \notin {"count", "payload"},
           NEW L, Ledger(file, L)
    PROVE  /\ L[pos - 1] \in Int
           /\ L[pos + n - 1] = L[pos - 1] +
                 (IF kinds[n] = "count" THEN Taken(n) - 1
                  ELSE IF kinds[n] = "payload" THEN 0 - 1 ELSE 0)
<1>1. Len(file) \in Nat /\ pos \in Nat \ {0}
  BY LenProperties
<1>2. \A k \in 1..n : pos + k - 1 <= Len(file) /\ file[pos + k - 1].of = kinds[k]
  BY DEF Ready
<1>3. ASSUME NEW k \in 1..n
      PROVE  /\ pos + k - 1 \in 1..Len(file) /\ pos + k - 1 - 1 \in 0..Len(file)
             /\ L[pos + k - 1 - 1] \in Int
             /\ L[pos + k - 1] = L[pos + k - 1 - 1] + Weight(file[pos + k - 1])
             /\ Weight(file[pos + k - 1]) =
                   IF kinds[k] = "count" THEN Taken(k) - 1
                   ELSE IF kinds[k] = "payload" THEN 0 - 1 ELSE 0
  <2>1. pos + k - 1 \in Nat \ {0} /\ pos + k - 1 <= Len(file)
    BY <1>1, <1>2
  <2>2. pos + k - 1 \in 1..Len(file) /\ pos + k - 1 - 1 \in 0..Len(file)
    BY <1>1, <2>1
  <2>3. file[pos + k - 1].of = kinds[k]
    BY <1>2
  <2>4. QED
    BY <2>2, <2>3, SMTT(30) DEF Ledger, Weight, Taken
<1> DEFINE Bad == {k \in 0..(n - 1) : L[pos + k - 1] # L[pos - 1]}
<1>4. Bad = {}
  <2>1. SUFFICES ASSUME Bad # {}
                 PROVE  FALSE
    OBVIOUS
  <2>2. PICK m \in Bad : \A j \in Bad : m <= j
    <3>1. Bad \in SUBSET Nat
      OBVIOUS
    <3> HIDE DEF Bad
    <3>2. QED
      BY <2>1, <3>1, LeastElement
  <2>3. m # 0
    <3>1. pos + 0 - 1 = pos - 1
      BY <1>1
    <3>2. QED
      BY <3>1
  <2>4. m \in 1..(n - 1) /\ m \in 1..n /\ m - 1 \in 0..(n - 1) /\ pos + (m - 1) - 1 = pos + m - 1 - 1
    BY <1>1, <2>3
  <2>5. m - 1 \notin Bad
    BY <2>2, <2>4, SMTT(30)
  <2>6. L[pos + m - 1 - 1] = L[pos - 1]
    BY <2>4, <2>5
  <2>7. L[pos + m - 1] = L[pos + m - 1 - 1] + 0 /\ L[pos + m - 1 - 1] \in Int
    <3>1. kinds[m] \notin {"count", "payload"}
      BY <2>4
    <3>2. Weight(file[pos + m - 1]) = 0
      BY <1>3, <2>4, <3>1
    <3>3. QED
      BY <1>3, <2>4, <3>2
  <2>8. QED
    BY <2>6, <2>7
<1>5. n \in 1..n /\ n - 1 \in 0..(n - 1) /\ pos + (n - 1) - 1 = pos + n - 1 - 1
  BY <1>1
<1>6. L[pos + n - 1 - 1] = L[pos - 1]
  BY <1>4, <1>5
<1>7. QED
  BY <1>3, <1>5, <1>6

\* Where only what R reaches matters, it is reached all the same.
LEMMA ReachSame ==
    ASSUME NEW f, WellTyped(f), NEW g, WellTyped(g), NEW R \in SUBSET Ids,
           \A x \in Reach(f, R) : Kids(g, x) = Kids(f, x)
    PROVE  Reach(g, R) = Reach(f, R)
<1> DEFINE rf == Reach(f, R)
           rg == Reach(g, R)
<1>1. /\ R \subseteq rf /\ rf \in SUBSET Ids /\ \A x \in rf : Kids(f, x) \subseteq rf
      /\ R \subseteq rg /\ rg \in SUBSET Ids /\ \A x \in rg : Kids(g, x) \subseteq rg
  BY ReachClosed
<1> HIDE DEF rf, rg
<1>2. Reach(g, R) \subseteq rf
  <2>1. \A x \in rf : Kids(g, x) \subseteq rf
    BY <1>1 DEF rf
  <2>2. QED
    BY <1>1, <2>1, Outside
<1>3. \A x \in rg : Kids(f, x) \subseteq rg
  BY <1>1, <1>2 DEF rf, rg
<1>4. Reach(f, R) \subseteq rg
  BY <1>1, <1>3, Outside
<1>5. QED
  BY <1>2, <1>4 DEF rf, rg

\* A failed load leaves the items that the saved Config holds, and no others.
LEMMA RefusedLeaves ==
    ASSUME FileSound, Refuse
    PROVE  Ids \ Free' = Reach(heap', Kids(heap', Source))
<1> DEFINE f    == [heap EXCEPT ![Loaded] = EmptyRoot]
           none == {}
           R    == Kids(f, Source)
           empty == <<>>
<1>1. /\ WellTyped(heap) /\ Closed(heap) /\ heap' = Settled(f, none)
      /\ \A c \in Configs \ {Source, Loaded} : Kids(heap, c) = {}
  BY DEF FileSound, Good, Control, Refuse
<1>2. /\ EmptyRoot \in Item /\ EmptyRoot.kind = "Group" /\ EmptyRoot.kids = empty
      /\ EmptyRoot.kind \in ContainerKinds
  BY EmptySeq DEF EmptyRoot, NewItem, Item, Kinds, ContainerKinds, AnyPolicy, Policies, AnyName
<1>3. Len(empty) = 0 /\ ToSet(empty) = {}
  BY EmptySeq DEF ToSet
<1>4. Puts(heap, Loaded, EmptyRoot, f)
  BY DEF Puts
<1> HIDE DEF f, empty
<1>5. /\ Loaded \in Addresses /\ Source \in Addresses /\ Source # Loaded
      /\ \A k \in 1..Len(EmptyRoot.kids) : heap[EmptyRoot.kids[k]] # Null
  BY <1>2, <1>3, FileAssumption DEF Addresses
<1>6. /\ WellTyped(f) /\ Closed(f) /\ f[Loaded] = EmptyRoot
      /\ \A y \in Addresses \ {Loaded} : f[y] = heap[y]
  BY <1>1, <1>2, <1>4, <1>5, PutItem
<1>7. (UNION {Kids(f, c) : c \in Configs}) \cup none = R
  <2>1. \A c \in Configs \ {Source} : Kids(f, c) = {}
    BY <1>1, <1>2, <1>3, <1>6 DEF Kids, Addresses
  <2>2. QED
    BY <2>1, FileAssumption DEF R
<1>8. R \in SUBSET Ids
  BY <1>5, <1>6, KidsAreIds
<1> DEFINE live == Reach(f, R)
<1>9. heap' = [x \in Addresses |-> IF x \in Configs \cup live THEN f[x] ELSE Null]
  BY <1>1, <1>7 DEF Settled
<1>10. \A x \in live : x \in Ids /\ f[x] # Null
  <2> DEFINE alive == {y \in Ids : f[y] # Null}
  <2>1. R \subseteq alive /\ \A y \in alive : Kids(f, y) \subseteq alive
    BY <1>5, <1>6, <1>8, KidsAreIds DEF Closed, Addresses
  <2>2. alive \in SUBSET Ids
    OBVIOUS
  <2> HIDE DEF alive, R
  <2>3. live \subseteq alive
    BY <2>1, <2>2, Outside
  <2>4. QED
    BY <2>3 DEF alive
<1>11. none \in SUBSET Ids /\ \A q \in none : f[q] # Null
  OBVIOUS
<1> HIDE DEF none
<1>12. WellTyped(heap') /\ heap'[Source] = f[Source]
  BY <1>1, <1>6, <1>11, FileAssumption, SettledKeeps
<1>13. Kids(heap', Source) = R
  BY <1>12 DEF Kids, R
<1> HIDE DEF R
<1>14. Reach(heap', R) = live
  <2>1. \A x \in live : x \in Addresses /\ heap'[x] = f[x]
    BY <1>9, <1>10 DEF Addresses
  <2>2. \A x \in live : Kids(heap', x) = Kids(f, x)
    BY <2>1 DEF Kids
  <2>3. QED
    BY <1>6, <1>8, <1>12, <2>2, ReachSame
<1> HIDE DEF live
<1>15. \A x \in Ids : heap'[x] # Null <=> x \in live
  BY <1>9, <1>10, AddressesAssumption DEF Addresses
<1>16. live \subseteq Ids
  BY <1>10
<1>17. Ids \ Free' = live
  BY <1>15, <1>16 DEF Free
<1>18. QED
  BY <1>13, <1>14, <1>17

LEMMA RefusedCutoff ==
    ASSUME FileSound, Refuse
    PROVE  Cutoff'
BY RefusedLeaves DEF Refuse, Cutoff

LEMMA SaveCutoff ==
    ASSUME FileSound, Save
    PROVE  Cutoff'
<1> DEFINE body == Written(heap, Source)
           head == <<Field("policy", policy[Source])>>
           top  == Header
<1>1. file' = (top \o head) \o body /\ phase' = "saved" /\ damage' = "none"
  BY DEF Save
<1>2. body \in Seq(TypedField) /\ Owes(body, 0, 0 - 1)
  <2>1. WellTyped(heap) /\ Closed(heap) /\ Source \in Addresses /\ heap[Source] # Null
    BY FileAssumption DEF FileSound, Good, Addresses, WellTyped
  <2>2. body \in Piece
    BY <2>1, WrittenPiece
  <2>3. QED
    BY <2>2 DEF Piece
<1>3. /\ Field("magic", "STBTCF") \in TypedField /\ Field("version", 1) \in TypedField
      /\ Field("policy", policy[Source]) \in TypedField
  <2>1. /\ "STBTCF" \in Admits("magic") /\ 1 \in Admits("version")
        /\ policy[Source] \in Admits("policy")
    BY FileAssumption DEF Admits, FileSound, Control, PoliciesTyped, AnyPolicy
  <2>2. \A of \in Fields : \A is \in Admits(of) : Field(of, is) \in TypedField
    BY FieldTyped
  <2>3. QED
    BY <2>1, <2>2 DEF Fields
<1>4. top \in Seq(TypedField) /\ Len(top) = 2 /\ \A k \in 1..2 : Weight(top[k]) = 0
  BY <1>3 DEF Header, Field, Weight
<1>5. head \in Seq(TypedField) /\ Len(head) = 1 /\ \A k \in 1..1 : Weight(head[k]) = 0
  BY <1>3 DEF Field, Weight
<1> HIDE DEF body, head, top
<1>6. \A s \in {top, head} : /\ Len(s) # 0
                             /\ \A k \in 1..Len(s) : Weight(s[k]) = IF k = Len(s) THEN 0 ELSE 0
  BY <1>4, <1>5
<1>7. 0 \in Int /\ 0 - 1 \in Int /\ 0 <= 0 /\ 0 <= 0 + 0 /\ 0 + 0 = 0 /\ 0 + (0 - 1) = 0 - 1
  OBVIOUS
<1>8. Owes(top, 0, 0) /\ Owes(head, 0, 0)
  BY <1>4, <1>5, <1>6, <1>7, OwesLast
<1>9. top \o head \in Seq(TypedField) /\ Owes(top \o head, 0, 0 + 0)
  BY <1>4, <1>5, <1>7, <1>8, OwesConcat, ConcatProperties
<1>10. Owes((top \o head) \o body, 0, 0 + (0 - 1))
  BY <1>2, <1>7, <1>9, OwesConcat
<1>11. QED
  BY <1>1, <1>7, <1>10 DEF Cutoff

\* The fields that are left of a file all owe, and a part of a field changes nothing.
LEMMA CutOwes ==
    ASSUME NEW s \in Seq(TypedField), Owes(s, 0, 0 - 1), NEW n \in 0..(Len(s) - 1),
           NEW rest \in {<<>>, <<Field("part", 0)>>}
    PROVE  /\ SubSeq(s, 1, n) \o rest \in Seq(TypedField)
           /\ Owes(SubSeq(s, 1, n) \o rest, 0, 0)
<1> DEFINE kept == SubSeq(s, 1, n)
<1>1. Len(s) \in Nat /\ n \in Nat /\ n \in Int /\ 1 \in Int /\ \A i \in 1..n : s[i] \in TypedField
  BY LenProperties, ElementOfSeq
<1>2. kept \in Seq(TypedField) /\ Len(kept) = n /\ \A i \in 1..n : kept[i] = s[i]
  <2>1. /\ kept \in Seq(TypedField) /\ Len(kept) = IF 1 <= n THEN n - 1 + 1 ELSE 0
        /\ \A i \in 1..(n - 1 + 1) : kept[i] = s[1 + i - 1]
    BY <1>1, SubSeqProperties
  <2> HIDE DEF kept
  <2>2. \A i \in 1..n : i \in 1..(n - 1 + 1) /\ 1 + i - 1 = i
    BY <1>1
  <2>3. QED
    BY <1>1, <2>1, <2>2
<1>3. rest \in Seq(TypedField) /\ Owes(rest, 0, 0)
  <2>1. Field("part", 0) \in TypedField
    <3>1. 0 \in Admits("part")
      BY DEF Admits
    <3>2. QED
      BY <3>1, FieldTyped DEF Fields
  <2>2. \/ rest \in Seq(TypedField) /\ Len(rest) = 0
        \/ rest \in Seq(TypedField) /\ Len(rest) = 1 /\ Weight(rest[1]) = 0
    <3> DEFINE part == Field("part", 0)
    <3>1. Weight(part) = 0
      BY DEF Field, Weight
    <3> HIDE DEF part
    <3>2. CASE rest = <<>>
      BY <3>2, EmptySeq
    <3>3. CASE rest = <<part>>
      <4>1. part \in TypedField
        BY <2>1 DEF part
      <4>2. QED
        BY <3>1, <3>3, <4>1
    <3>4. QED
      BY <3>2, <3>3 DEF part
  <2>3. /\ 0 \in Int /\ 0 <= 0
        /\ \A k \in 1..Len(rest) : Weight(rest[k]) = IF k = Len(rest) THEN 0 ELSE 0
    BY <2>2
  <2>4. QED
    BY <2>2, <2>3, OwesLast
<1> HIDE DEF kept
<1>4. Owes(kept, 0, 0)
  <2>1. PICK L : /\ Ledger(s, L)
                 /\ \A k \in 0..(Len(s) - 1) : L[k] >= 0
    BY DEF Owes
  <2> DEFINE K == [k \in 0..n |-> L[k]]
  <2>2. \A k \in 0..n : k \in 0..Len(s) /\ k \in 0..(Len(s) - 1) /\ K[k] = L[k]
    BY <1>1
  <2>3. K \in [0..n -> Int]
    BY <2>1, <2>2 DEF Ledger
  <2> HIDE DEF K
  <2>4. \A k \in 1..n : k \in 1..Len(s) /\ k \in 0..n /\ k - 1 \in 0..n
    BY <1>1
  <2>5. \A k \in 1..n : K[k] = K[k - 1] + Weight(kept[k])
    BY <1>2, <2>1, <2>2, <2>4 DEF Ledger
  <2>6. 0 \in 0..n /\ n \in 0..n /\ \A k \in 0..(n - 1) : k \in 0..n
    BY <1>1
  <2>7. K[0] = 0 /\ K[n] >= 0 /\ \A k \in 0..(n - 1) : K[k] >= 0
    BY <2>1, <2>2, <2>6 DEF Ledger
  <2>8. QED
    BY <1>2, <2>3, <2>5, <2>7 DEF Owes, Ledger
<1>5. 0 \in Int /\ 0 <= 0 /\ 0 <= 0 + 0 /\ 0 + 0 = 0
  OBVIOUS
<1>6. Owes(kept \o rest, 0, 0 + 0)
  BY <1>2, <1>3, <1>4, <1>5, OwesConcat
<1>7. QED
  BY <1>2, <1>3, <1>5, <1>6, ConcatProperties DEF kept

LEMMA DamageCutoff ==
    ASSUME FileSound, Cutoff, Damage
    PROVE  Cutoff'
<1>1. ASSUME NEW new, NEW how \in {"longer", "altered"}, Damaged(new, how)
      PROVE  Cutoff'
  BY <1>1 DEF Damaged, Cutoff
<1>2. ASSUME NEW n, Truncate(n)
      PROVE  Cutoff'
  <2>1. PICK rest \in {<<>>, <<Field("part", 0)>>} :
           n \in 0..(Len(file) - 1) /\ Damaged(SubSeq(file, 1, n) \o rest, "cut")
    BY <1>2 DEF Truncate
  <2>2. /\ phase = "saved" /\ phase' = "saved" /\ damage = "none" /\ damage' = "cut"
        /\ file' = SubSeq(file, 1, n) \o rest
        /\ UNCHANGED <<heap, policy, pos, frames, ret>>
    BY <2>1 DEF Damaged
  <2>3. file \in Seq(TypedField) /\ Owes(file, 0, 0 - 1) /\ pos = 1 /\ frames = <<>>
    BY <2>2 DEF FileSound, Control, Cutoff
  <2>4. file' \in Seq(TypedField) /\ Owes(file', 0, 0)
    BY <2>1, <2>2, <2>3, CutOwes
  <2>5. PICK L : /\ Ledger(file', L) /\ L[Len(file')] >= 0
                 /\ \A k \in 0..(Len(file') - 1) : L[k] >= 0
    BY <2>4 DEF Owes
  <2>6. \A k \in 0..Len(file') : L[k] >= 0
    <3>1. \A k \in 0..Len(file') : k = Len(file') \/ k \in 0..(Len(file') - 1)
      BY <2>4, LenProperties
    <3>2. QED
      BY <2>5, <3>1
  <2>7. L[0] = 0 /\ pos' - 1 = 0 /\ frames' = <<>>
    BY <2>2, <2>3, <2>5 DEF Ledger
  <2>8. Awaits(frames', L[pos' - 1])
    BY <2>7, AwaitsNone
  <2>9. InStep'
    BY <2>5, <2>6, <2>8 DEF InStep
  <2>10. QED
    BY <2>2, <2>9 DEF Cutoff
<1>3. QED
  BY <1>1, <1>2 DEF Damage, Extend, Alter

\* A step of a load within a cut file: the account stands for the file still.
LEMMA LoadCutoff ==
    ASSUME UNCHANGED <<file, damage>>, phase' = "load", NEW L, Ledger(file, L),
           \A k \in 0..Len(file) : L[k] >= 0, Awaits(frames', L[pos' - 1])
    PROVE  Cutoff'
BY DEF Cutoff, InStep

LEMMA StartLoadCutoff ==
    ASSUME FileSound, Cutoff, StartLoad
    PROVE  Cutoff'
<1>1. CASE Refuse
  BY <1>1, RefusedCutoff
<1>2. CASE /\ GoodHeader /\ phase' = "load" /\ pos' = pos + 2
           /\ UNCHANGED <<heap, policy, file, damage, frames, ret>>
  <2>1. CASE damage # "cut"
    BY <1>2, <2>1 DEF Cutoff
  <2>2. CASE damage = "cut"
    <3> DEFINE kinds == <<"magic", "version">>
    <3>1. PICK L : /\ Ledger(file, L) /\ \A k \in 0..Len(file) : L[k] >= 0
                   /\ Awaits(frames, L[pos - 1])
      BY <2>2 DEF StartLoad, Cutoff, InStep
    <3>2. /\ DOMAIN kinds = 1..2 /\ Ready(kinds) /\ kinds[2] = "version"
          /\ \A k \in 1..(2 - 1) : kinds[k] \notin {"count", "payload"}
      BY <1>2 DEF GoodHeader
    <3> HIDE DEF kinds
    <3>3. file \in Seq(TypedField) /\ pos \in 1..(Len(file) + 1) /\ 2 \in Nat \ {0}
      BY DEF FileSound, Control
    <3>4. L[pos - 1] \in Int /\ L[pos + 2 - 1] = L[pos - 1] + 0
      BY <3>1, <3>2, <3>3, ReadOwes
    <3>5. pos' - 1 = pos + 2 - 1 /\ L[pos - 1] + 0 = L[pos - 1]
      BY <1>2, <3>3, <3>4
    <3>6. L[pos' - 1] = L[pos - 1] /\ frames' = frames
      BY <1>2, <3>4, <3>5
    <3>7. Awaits(frames', L[pos' - 1])
      BY <3>1, <3>6
    <3>8. QED
      BY <1>2, <3>1, <3>7, LoadCutoff
  <2>3. QED
    BY <2>1, <2>2
<1>3. QED
  BY <1>1, <1>2 DEF StartLoad

LEMMA ReadRootCutoff ==
    ASSUME FileSound, Cutoff, ReadRoot
    PROVE  Cutoff'
<1>1. CASE Refuse
  BY <1>1, RefusedCutoff
<1>2. CASE ~Refuse
  <2> DEFINE f == [at |-> Loaded, left |-> Taken(5)]
  <2>1. /\ phase = "load" /\ phase' = "load" /\ Ready(RootFields) /\ pos' = pos + 5
        /\ frames = <<>> /\ frames' = <<f>> /\ UNCHANGED <<file, damage>>
    BY <1>2 DEF ReadRoot, GoodRoot
  <2>2. CASE damage # "cut"
    BY <2>1, <2>2 DEF Cutoff
  <2>3. CASE damage = "cut"
    <3>1. PICK L : /\ Ledger(file, L) /\ \A k \in 0..Len(file) : L[k] >= 0
                   /\ Awaits(frames, L[pos - 1])
      BY <2>1, <2>3 DEF Cutoff, InStep
    <3>2. L[pos - 1] = 0
      BY <2>1, <3>1, AwaitsNone
    <3>3. /\ DOMAIN RootFields = 1..5 /\ RootFields[5] = "count"
          /\ \A k \in 1..(5 - 1) : RootFields[k] \notin {"count", "payload"}
      BY DEF RootFields
    <3>4. file \in Seq(TypedField) /\ pos \in 1..(Len(file) + 1) /\ 5 \in Nat \ {0}
      BY DEF FileSound, Control
    <3>5. L[pos + 5 - 1] = L[pos - 1] + (Taken(5) - 1)
      BY <2>1, <3>1, <3>3, <3>4, ReadOwes
    <3>6. Taken(5) \in Nat
      <4>1. \A k \in 1..5 : Taken(k) \in Admits(RootFields[k])
        BY <2>1, <3>3, <3>4, ReadyTyped
      <4>2. Taken(5) \in Admits("count")
        BY <3>3, <4>1
      <4>3. QED
        BY <4>2 DEF Admits
    <3>7. Awaits(frames', L[pos' - 1])
      <4> DEFINE none == <<>>
      <4>1. none \in Seq(Opening) /\ Awaits(none, 0) /\ f \in Opening
        BY <3>6, EmptySeq, AwaitsNone, FileAssumption DEF Opening, Addresses
      <4>2. Append(none, f) = <<f>>
        OBVIOUS
      <4>3. f.left = Taken(5)
        OBVIOUS
      <4> HIDE DEF none, f
      <4>4. Awaits(Append(none, f), 0 + (f.left - 1))
        BY <4>1, AwaitsMore
      <4>5. 0 + (f.left - 1) = L[pos' - 1]
        <5>1. pos' - 1 = pos + 5 - 1
          BY <2>1, <3>4
        <5>2. L[pos' - 1] = 0 + (Taken(5) - 1)
          BY <3>2, <3>5, <5>1
        <5>3. QED
          BY <4>3, <5>2
      <4>6. QED
        BY <2>1, <4>2, <4>4, <4>5
    <3>8. QED
      BY <2>1, <3>1, <3>7, LoadCutoff
  <2>4. QED
    BY <2>2, <2>3
<1>3. QED
  BY <1>1, <1>2

\* The innermost activation of fs takes an item: what is owed is one less.
LEMMA DeliverCutoff ==
    ASSUME FileSound, phase = "load", NEW h, NEW x, NEW fs \in Seq(Opening), fs # <<>>,
           Last(fs).left > 0, Deliver(h, x, fs),
           damage = "cut" =>
              \E L : /\ Ledger(file, L) /\ \A k \in 0..Len(file) : L[k] >= 0
                     /\ \E m : Awaits(fs, m) /\ L[pos' - 1] = m - 1
    PROVE  Cutoff'
<1>1. CASE Refuse
  BY <1>1, RefusedCutoff
<1>2. CASE ~Refuse
  <2> DEFINE f   == [at |-> Last(fs).at, left |-> Last(fs).left - 1]
             fs2 == Append(Front(fs), f)
  <2>1. phase' = "load" /\ frames' = fs2 /\ UNCHANGED <<file, damage>>
    BY <1>2 DEF Deliver
  <2>2. CASE damage # "cut"
    BY <2>1, <2>2 DEF Cutoff
  <2>3. CASE damage = "cut"
    <3>1. PICK L : /\ Ledger(file, L) /\ \A k \in 0..Len(file) : L[k] >= 0
                   /\ \E m : Awaits(fs, m) /\ L[pos' - 1] = m - 1
      BY <2>3
    <3>2. PICK m : Awaits(fs, m) /\ L[pos' - 1] = m - 1
      BY <3>1
    <3>3. /\ m \in Int /\ Awaits(Front(fs), m - (Last(fs).left - 1))
          /\ Front(fs) \in Seq(Opening) /\ Last(fs) \in Opening
      BY <3>2, AwaitsFront, FrontAndLast
    <3>4. f \in Opening /\ f.left = Last(fs).left - 1 /\ Last(fs).left \in Nat
      BY <3>3 DEF Opening
    <3> HIDE DEF f
    <3>5. Awaits(fs2, m - (Last(fs).left - 1) + (f.left - 1))
      BY <3>3, <3>4, AwaitsMore
    <3>6. m - (Last(fs).left - 1) + (f.left - 1) = L[pos' - 1]
      BY <3>2, <3>3, <3>4
    <3>7. Awaits(frames', L[pos' - 1])
      BY <2>1, <3>5, <3>6
    <3>8. QED
      BY <2>1, <3>1, <3>7, LoadCutoff
  <2>4. QED
    BY <2>2, <2>3
<1>3. QED
  BY <1>1, <1>2

LEMMA ReadLeafCutoff ==
    ASSUME FileSound, Cutoff, ReadLeaf
    PROVE  Cutoff'
<1> DEFINE h == [heap EXCEPT ![Fresh] = NewItem(IF Taken(1) = "Comment" THEN "Comment" ELSE "Value",
                                               Taken(2), Taken(3))]
<1>1. /\ phase = "load" /\ frames # <<>> /\ Last(frames).left > 0
      /\ Ready(LeafFields) /\ pos' = pos + 3 /\ Deliver(h, Fresh, frames)
  BY DEF ReadLeaf, Reading, Top, GoodLeaf
<1> HIDE DEF h
<1>2. frames \in Seq(Opening) /\ file \in Seq(TypedField) /\ pos \in 1..(Len(file) + 1)
  BY DEF FileSound, Control, Good, Stacked
<1>3. ASSUME damage = "cut"
      PROVE  \E L : /\ Ledger(file, L) /\ \A k \in 0..Len(file) : L[k] >= 0
                    /\ \E m : Awaits(frames, m) /\ L[pos' - 1] = m - 1
  <2>1. PICK L : /\ Ledger(file, L) /\ \A k \in 0..Len(file) : L[k] >= 0
                 /\ Awaits(frames, L[pos - 1])
    BY <1>1, <1>3 DEF Cutoff, InStep
  <2>2. /\ DOMAIN LeafFields = 1..3 /\ LeafFields[3] = "payload" /\ 3 \in Nat \ {0}
        /\ \A k \in 1..(3 - 1) : LeafFields[k] \notin {"count", "payload"}
    BY DEF LeafFields
  <2>3. L[pos - 1] \in Int /\ L[pos + 3 - 1] = L[pos - 1] + (0 - 1)
    BY <1>1, <1>2, <2>1, <2>2, ReadOwes
  <2>4. L[pos' - 1] = L[pos - 1] - 1
    <3>1. pos' - 1 = pos + 3 - 1 /\ L[pos - 1] + (0 - 1) = L[pos - 1] - 1
      BY <1>1, <1>2, <2>3
    <3>2. QED
      BY <2>3, <3>1
  <2>5. QED
    BY <2>1, <2>4
<1>4. QED
  BY <1>1, <1>2, <1>3, DeliverCutoff

LEMMA OpenContainerCutoff ==
    ASSUME FileSound, Cutoff, OpenContainer
    PROVE  Cutoff'
<1> DEFINE f == [at |-> Fresh, left |-> Taken(4)]
<1>1. /\ phase = "load" /\ phase' = "load" /\ Free # {} /\ Ready(ContainerFields)
      /\ pos' = pos + 4 /\ frames' = Append(frames, f) /\ UNCHANGED <<file, damage>>
  BY DEF OpenContainer, Reading, GoodContainer
<1>2. frames \in Seq(Opening) /\ file \in Seq(TypedField) /\ pos \in 1..(Len(file) + 1)
  BY DEF FileSound, Control, Good, Stacked
<1>3. CASE damage # "cut"
  BY <1>1, <1>3 DEF Cutoff
<1>4. CASE damage = "cut"
  <2>1. PICK L : /\ Ledger(file, L) /\ \A k \in 0..Len(file) : L[k] >= 0
                 /\ Awaits(frames, L[pos - 1])
    BY <1>1, <1>4 DEF Cutoff, InStep
  <2>2. /\ DOMAIN ContainerFields = 1..4 /\ ContainerFields[4] = "count" /\ 4 \in Nat \ {0}
        /\ \A k \in 1..(4 - 1) : ContainerFields[k] \notin {"count", "payload"}
    BY DEF ContainerFields
  <2>3. L[pos - 1] \in Int /\ L[pos + 4 - 1] = L[pos - 1] + (Taken(4) - 1)
    BY <1>1, <1>2, <2>1, <2>2, ReadOwes
  <2>4. Taken(4) \in Nat
    <3>1. \A k \in 1..4 : Taken(k) \in Admits(ContainerFields[k])
      BY <1>1, <1>2, <2>2, ReadyTyped
    <3>2. Taken(4) \in Admits("count")
      BY <2>2, <3>1
    <3>3. QED
      BY <3>2 DEF Admits
  <2>5. f \in Opening /\ f.left = Taken(4)
    BY <1>1, <2>4, FreshIsFree DEF Opening, Addresses
  <2> HIDE DEF f
  <2>6. Awaits(Append(frames, f), L[pos - 1] + (f.left - 1))
    BY <1>2, <2>1, <2>5, AwaitsMore
  <2>7. Awaits(frames', L[pos' - 1])
    <3>1. pos' - 1 = pos + 4 - 1
      BY <1>1, <1>2
    <3>2. L[pos' - 1] = L[pos - 1] + (f.left - 1)
      BY <2>3, <2>5, <3>1
    <3>3. QED
      BY <1>1, <2>6, <3>2 DEF f
  <2>8. QED
    BY <1>1, <2>1, <2>7, LoadCutoff
<1>5. QED
  BY <1>3, <1>4

LEMMA CloseContainerCutoff ==
    ASSUME FileSound, Cutoff, CloseContainer
    PROVE  Cutoff'
<1> DEFINE x  == Last(frames).at
           fs == Front(frames)
<1>1. /\ phase = "load" /\ frames # <<>> /\ Len(frames) > 1 /\ Last(frames).left = 0
      /\ UNCHANGED pos /\ Deliver(heap, x, fs)
  BY DEF CloseContainer, Reading, Top
<1>2. Stacked(heap, frames) /\ frames \in Seq(Opening)
  BY DEF FileSound, Good, Stacked
<1>3. fs \in Seq(Opening) /\ fs # <<>> /\ Last(fs).left > 0
  BY <1>1, <1>2, StackedFront, FrontAndLast
<1>4. ASSUME damage = "cut"
      PROVE  \E L : /\ Ledger(file, L) /\ \A k \in 0..Len(file) : L[k] >= 0
                    /\ \E m : Awaits(fs, m) /\ L[pos' - 1] = m - 1
  <2>1. PICK L : /\ Ledger(file, L) /\ \A k \in 0..Len(file) : L[k] >= 0
                 /\ Awaits(frames, L[pos - 1])
    BY <1>1, <1>4 DEF Cutoff, InStep
  <2> DEFINE m == L[pos - 1] - (Last(frames).left - 1)
  <2>2. L[pos - 1] \in Int /\ Awaits(fs, m)
    BY <1>1, <1>2, <2>1, AwaitsFront
  <2>3. L[pos' - 1] = m - 1
    BY <1>1, <2>2
  <2> HIDE DEF m
  <2>4. QED
    BY <2>1, <2>2, <2>3
<1> HIDE DEF x, fs
<1>5. QED
  BY <1>1, <1>3, <1>4, DeliverCutoff

\* The root cannot be complete: what it awaits is owed.
LEMMA EndLoadCutoff ==
    ASSUME FileSound, Cutoff, EndLoad
    PROVE  Cutoff'
<1>1. /\ phase = "load" /\ frames # <<>> /\ Len(frames) = 1 /\ Last(frames).left = 0
      /\ phase' = "over" /\ ret' = "loaded" /\ UNCHANGED <<file, damage, pos>>
  BY DEF EndLoad, Reading, Top
<1>2. /\ frames \in Seq(Opening) /\ file \in Seq(TypedField) /\ Len(file) \in Nat
      /\ pos \in 1..(Len(file) + 1)
  BY LenProperties DEF FileSound, Control, Good, Stacked
<1>3. damage # "cut"
  <2>1. SUFFICES ASSUME damage = "cut"
                 PROVE  FALSE
    OBVIOUS
  <2>2. PICK L : /\ Ledger(file, L) /\ \A k \in 0..Len(file) : L[k] >= 0
                 /\ Awaits(frames, L[pos - 1])
    BY <1>1, <2>1 DEF Cutoff, InStep
  <2>3. L[pos - 1] \in Int /\ Awaits(Front(frames), L[pos - 1] - (Last(frames).left - 1))
    BY <1>1, <1>2, <2>2, AwaitsFront
  <2>4. Front(frames) = <<>>
    <3>1. Front(frames) \in Seq(Opening) /\ Len(Front(frames)) = 0
      BY <1>1, <1>2, FrontAndLast
    <3>2. QED
      BY <3>1, EmptySeq
  <2>5. L[pos - 1] - (Last(frames).left - 1) = 0
    BY <2>3, <2>4, AwaitsNone
  <2>6. L[pos - 1] >= 0
    <3>1. pos - 1 \in 0..Len(file)
      BY <1>2
    <3>2. QED
      BY <2>2, <3>1
  <2>7. QED
    BY <1>1, <2>3, <2>5, <2>6
<1>4. QED
  BY <1>1, <1>3 DEF Cutoff

LEMMA NextCutoff ==
    ASSUME FileSound, Cutoff, [Next]_vars
    PROVE  Cutoff'
<1>1. ASSUME Edit \/ Discard
      PROVE  Cutoff'
  <2>1. phase' = "edit"
    BY <1>1 DEF Edit, Discard, AddNew, RemoveAtIndex, Rename, Assign, OnExistingAction, Editing
  <2>2. QED
    BY <2>1 DEF Cutoff
<1>2. ASSUME LoadStep
      PROVE  Cutoff'
  BY <1>2, ReadRootCutoff, ReadLeafCutoff, OpenContainerCutoff, CloseContainerCutoff,
     EndLoadCutoff, RefusedCutoff DEF LoadStep, RefuseItem
<1>3. ASSUME UNCHANGED vars
      PROVE  Cutoff'
  BY <1>3 DEF vars, Cutoff, InStep, Free
<1>4. QED
  BY <1>1, <1>2, <1>3, SaveCutoff, DamageCutoff, StartLoadCutoff DEF Next

\* A file cut short, at whatever field or within it, is refused, and nothing of
\* it stays allocated: Writer puts every count before what it counts, and Reader
\* asks for all of it (Writer, ReaderV1::ReadContainerInto, Config::Load).
THEOREM CutsAreRefused == Spec => []CutIsRefused
<1>1. Init => Cutoff
  BY DEF Init, Cutoff
<1>2. FileSound /\ Cutoff /\ [Next]_vars => Cutoff'
  BY NextCutoff
<1>3. Cutoff => CutIsRefused
  BY DEF Cutoff, CutIsRefused
<1>4. QED
  BY <1>1, <1>2, <1>3, FileSoundness, PTL DEF Spec

-----------------------------------------------------------------------------
(* What a Writer makes of a document without cycles *)

\* Deep enough, going deeper changes nothing: an item is written as its own
\* fields and what is written of its items.
LEMMA WrittenIs ==
    ASSUME NEW h, Sound(h), NEW x \in Addresses, h[x] # Null
    PROVE  /\ Written(h, x) \in Piece
           /\ Written(h, x) = Block(h, x, [k \in DOMAIN h[x].kids |-> Written(h, h[x].kids[k])])
<1> DEFINE N == Cardinality(Ids)
<1>1. N \in Nat /\ WellTyped(h) /\ Closed(h) /\ N \in 0..N
  BY IdsCounted DEF Sound
<1>f. PICK f : WrittenTo(h, f)
  BY <1>1, WrittenLevels
<1>2. /\ \A c \in Addresses : Written(h, c) = f[N][c]
      /\ \A n \in 0..N, c \in Addresses :
            h[c] # Null =>
               /\ f[n][c] \in Piece
               /\ f[n][c] = Block(h, c, [k \in DOMAIN h[c].kids |->
                                 IF n = 0 THEN <<>> ELSE f[n - 1][h[c].kids[k]]])
  BY <1>f DEF WrittenTo
<1>3. PICK r : Down(h, Used(h), r)
  BY RanksBounded DEF Sound
<1> HIDE DEF N
<1>4. ASSUME NEW y \in Addresses, h[y] # Null
      PROVE  /\ DOMAIN h[y].kids = 1..Len(h[y].kids)
             /\ \A k \in 1..Len(h[y].kids) : /\ h[y].kids[k] \in Used(h)
                                             /\ h[y].kids[k] \in Addresses
                                             /\ h[h[y].kids[k]] # Null
                                             /\ r[h[y].kids[k]] \in Nat
                                             /\ r[h[y].kids[k]] < N
  <2>1. /\ h[y].kids \in Seq(Ids)
        /\ Kids(h, y) = {h[y].kids[k] : k \in 1..Len(h[y].kids)}
    BY <1>1, <1>4, ItemFields
  <2>2. DOMAIN h[y].kids = 1..Len(h[y].kids)
    BY <2>1, LenProperties
  <2>3. ASSUME NEW k \in 1..Len(h[y].kids)
        PROVE  h[y].kids[k] \in Ids /\ h[y].kids[k] \in Addresses /\ h[h[y].kids[k]] # Null
    <3>1. h[y].kids[k] \in Ids /\ h[y].kids[k] \in Kids(h, y)
      BY <2>1, ElementOfSeq
    <3>2. QED
      BY <1>1, <1>4, <3>1 DEF Closed, Addresses
  <2>4. QED
    BY <1>3, <2>2, <2>3 DEF Down, Used, N
<1>5. ASSUME NEW y \in Used(h)
      PROVE  /\ y \in Ids /\ y \in Addresses /\ h[y] # Null
             /\ r[y] \in Nat
             /\ \A k \in 1..Len(h[y].kids) : r[h[y].kids[k]] < r[y]
  BY <1>3 DEF Down, Used, Addresses
<1> DEFINE Bad == {j \in 0..N : \E y \in Used(h), i \in j..N : r[y] <= j /\ f[i][y] # f[j][y]}
<1>6. Bad = {}
  <2>1. SUFFICES ASSUME Bad # {}
                 PROVE  FALSE
    OBVIOUS
  <2>2. PICK j \in Bad : \A i \in Bad : j <= i
    <3>1. Bad \in SUBSET Nat
      BY <1>1
    <3> HIDE DEF Bad
    <3>2. QED
      BY <2>1, <3>1, LeastElement
  <2>3. PICK y \in Used(h), i \in j..N : j \in 0..N /\ r[y] <= j /\ f[i][y] # f[j][y]
    OBVIOUS
  <2>4. i \in 0..N /\ i # j /\ i # 0
    BY <1>1, <2>3
  <2> DEFINE a == [k \in DOMAIN h[y].kids |-> IF i = 0 THEN <<>> ELSE f[i - 1][h[y].kids[k]]]
             b == [k \in DOMAIN h[y].kids |-> IF j = 0 THEN <<>> ELSE f[j - 1][h[y].kids[k]]]
  <2>5. f[i][y] = Block(h, y, a) /\ f[j][y] = Block(h, y, b)
    BY <1>2, <1>5, <2>3, <2>4
  <2>6. ASSUME NEW k \in 1..Len(h[y].kids)
        PROVE  j # 0 /\ f[i - 1][h[y].kids[k]] = f[j - 1][h[y].kids[k]]
    <3>1. /\ r[h[y].kids[k]] \in Nat /\ r[h[y].kids[k]] < r[y] /\ r[y] \in Nat
          /\ h[y].kids[k] \in Used(h)
      BY <1>4, <1>5, <2>6
    <3>2. j # 0
      BY <2>3, <3>1
    <3>3. /\ j - 1 \in 0..N /\ i - 1 \in (j - 1)..N /\ j - 1 \notin Bad
          /\ r[h[y].kids[k]] <= j - 1
      BY <1>1, <2>2, <2>3, <2>4, <3>1, <3>2
    <3>4. QED
      BY <3>1, <3>2, <3>3
  <2>7. a = b
    BY <1>4, <1>5, <2>4, <2>6
  <2> HIDE DEF a, b
  <2>8. QED
    BY <2>3, <2>5, <2>7
<1> DEFINE a == [k \in DOMAIN h[x].kids |-> IF N = 0 THEN <<>> ELSE f[N - 1][h[x].kids[k]]]
           b == [k \in DOMAIN h[x].kids |-> Written(h, h[x].kids[k])]
<1>7. a = b
  <2>1. ASSUME NEW k \in 1..Len(h[x].kids)
        PROVE  N # 0 /\ f[N - 1][h[x].kids[k]] = Written(h, h[x].kids[k])
    <3>1. /\ h[x].kids[k] \in Used(h) /\ h[x].kids[k] \in Addresses
          /\ r[h[x].kids[k]] \in Nat /\ r[h[x].kids[k]] < N
      BY <1>4, <2>1
    <3>2. /\ N # 0 /\ N - 1 \in 0..N /\ N \in (N - 1)..N /\ N - 1 \notin Bad
          /\ r[h[x].kids[k]] <= N - 1
      BY <1>1, <1>6, <3>1
    <3>3. QED
      BY <1>2, <3>1, <3>2
  <2>2. QED
    BY <1>4, <2>1
<1>8. f[N][x] = Block(h, x, a) /\ f[N][x] \in Piece
  BY <1>1, <1>2
<1> HIDE DEF a, b
<1>9. Written(h, x) = Block(h, x, b) /\ Written(h, x) \in Piece
  BY <1>2, <1>7, <1>8
<1>10. QED
  BY <1>9 DEF b

-----------------------------------------------------------------------------
(* Where in the file it lies *)

\* The fields of s are those of the file f from field a on.
Lies(f, a, s) ==
    /\ a \in Nat \ {0} /\ a + Len(s) <= Len(f) + 1
    /\ \A k \in 1..Len(s) : f[a + k - 1] = s[k]

\* The items of y from the one after i on are written in f, from field a to b.
Laid(f, o, y, i, a, b) ==
    \E q \in [i..Len(o[y].kids) -> Nat \ {0}] :
        /\ q[i] = a /\ q[Len(o[y].kids)] = b
        /\ \A j \in (i + 1)..Len(o[y].kids) :
              /\ Lies(f, q[j - 1], Written(o, o[y].kids[j]))
              /\ q[j] = q[j - 1] + Len(Written(o, o[y].kids[j]))

LEMMA LiesConcat ==
    ASSUME NEW S, NEW f \in Seq(S), NEW T, NEW s \in Seq(T), NEW t \in Seq(T),
           NEW a, Lies(f, a, s \o t)
    PROVE  /\ Lies(f, a, s) /\ Lies(f, a + Len(s), t)
           /\ Len(s \o t) = Len(s) + Len(t)
<1>1. Len(f) \in Nat /\ Len(s) \in Nat /\ Len(t) \in Nat /\ Len(s \o t) = Len(s) + Len(t)
  BY LenProperties, ConcatProperties
<1>2. /\ \A k \in 1..Len(s) : (s \o t)[k] = s[k]
      /\ \A k \in 1..Len(t) : (s \o t)[Len(s) + k] = t[k]
  BY <1>1, ConcatProperties
<1>3. a \in Nat \ {0} /\ a + (Len(s) + Len(t)) <= Len(f) + 1
  BY <1>1 DEF Lies
<1>4. \A k \in 1..(Len(s) + Len(t)) : f[a + k - 1] = (s \o t)[k]
  BY <1>1 DEF Lies
<1>5. Lies(f, a, s)
  <2>1. \A k \in 1..Len(s) : f[a + k - 1] = s[k]
    BY <1>1, <1>2, <1>4
  <2>2. QED
    BY <1>1, <1>3, <2>1 DEF Lies
<1>6. Lies(f, a + Len(s), t)
  <2>1. ASSUME NEW k \in 1..Len(t)
        PROVE  f[a + Len(s) + k - 1] = t[k]
    <3>1. Len(s) + k \in 1..(Len(s) + Len(t)) /\ a + (Len(s) + k) - 1 = a + Len(s) + k - 1
      BY <1>1, <1>3
    <3>2. QED
      BY <1>2, <1>4, <3>1
  <2>2. QED
    BY <1>1, <1>3, <2>1 DEF Lies
<1>7. QED
  BY <1>1, <1>5, <1>6

\* The texts of a sequence of texts lie one after the other.
LEMMA LiesFlatten ==
    ASSUME NEW S, NEW f \in Seq(S), NEW T, NEW ss \in Seq(Seq(T)),
           NEW a, Lies(f, a, FlattenSeq(ss))
    PROVE  \E q \in [0..Len(ss) -> Nat \ {0}] :
              /\ q[0] = a /\ q[Len(ss)] = a + Len(FlattenSeq(ss))
              /\ \A j \in 1..Len(ss) : /\ Lies(f, q[j - 1], ss[j])
                                       /\ q[j] = q[j - 1] + Len(ss[j])
<1> DEFINE n == Len(ss)
<1>1. n \in Nat /\ a \in Nat \ {0} /\ Len(f) \in Nat /\ \A i \in 1..n : ss[i] \in Seq(T)
  BY LenProperties, ElementOfSeq DEF Lies
<1>2. CASE ss = <<>>
  <2>1. n = 0
    BY <1>2, EmptySeq
  <2>2. FlattenSeq(ss) = <<>>
    BY <1>2, <2>1 DEF FlattenSeq
  <2>3. Len(FlattenSeq(ss)) = 0
    BY <2>2, EmptySeq
  <2> HIDE DEF n
  <2> DEFINE q == [k \in 0..n |-> a]
  <2>4. q \in [0..n -> Nat \ {0}] /\ q[0] = a /\ q[n] = a + Len(FlattenSeq(ss))
    BY <1>1, <2>1, <2>3
  <2>5. 1..n = {}
    BY <2>1
  <2> HIDE DEF q
  <2>6. QED
    BY <2>4, <2>5 DEF n
<1>3. CASE ss # <<>>
  <2>1. n \in 1..n
    BY <1>3, FrontAndLast
  <2>2. PICK flat \in [1..n -> Seq(T)] :
           /\ FlattenSeq(ss) = flat[n] /\ flat[1] = ss[1]
           /\ \A i \in 2..n : flat[i] = flat[i - 1] \o ss[i]
    BY <1>3, FlattenSteps
  <2>3. \A i \in 1..n : flat[i] \in Seq(T) /\ Len(flat[i]) \in Nat /\ Len(ss[i]) \in Nat
    BY <1>1, <2>2, LenProperties
  <2> HIDE DEF n
  <2>4. ASSUME NEW i \in 2..n, Lies(f, a, flat[i])
        PROVE  /\ i - 1 \in 1..n /\ Lies(f, a, flat[i - 1])
               /\ Lies(f, a + Len(flat[i - 1]), ss[i])
               /\ Len(flat[i]) = Len(flat[i - 1]) + Len(ss[i])
    <3>1. i - 1 \in 1..n /\ i \in 1..n
      BY <1>1
    <3>2. Lies(f, a, flat[i - 1] \o ss[i])
      BY <2>2, <2>4
    <3>3. flat[i - 1] \in Seq(T) /\ ss[i] \in Seq(T) /\ flat[i] = flat[i - 1] \o ss[i]
      BY <1>1, <2>2, <3>1
    <3>4. /\ Lies(f, a, flat[i - 1]) /\ Lies(f, a + Len(flat[i - 1]), ss[i])
          /\ Len(flat[i - 1] \o ss[i]) = Len(flat[i - 1]) + Len(ss[i])
      BY <3>2, <3>3, LiesConcat
    <3>5. QED
      BY <3>1, <3>3, <3>4
  <2> DEFINE Bad == {k \in 0..(n - 1) : ~Lies(f, a, flat[n - k])}
  <2>5. Bad = {}
    <3>1. SUFFICES ASSUME Bad # {}
                   PROVE  FALSE
      OBVIOUS
    <3>2. PICK m \in Bad : \A j \in Bad : m <= j
      <4>1. Bad \in SUBSET Nat
        BY <1>1
      <4> HIDE DEF Bad
      <4>2. QED
        BY <3>1, <4>1, LeastElement
    <3>3. m \in 0..(n - 1) /\ ~Lies(f, a, flat[n - m])
      OBVIOUS
    <3>4. m # 0
      <4>1. n - 0 = n /\ Lies(f, a, flat[n])
        BY <1>1, <2>2
      <4>2. QED
        BY <3>3, <4>1
    <3>5. m - 1 \in 0..(n - 1) /\ n - (m - 1) \in 2..n /\ n - (m - 1) - 1 = n - m /\ ~(m <= m - 1)
      BY <1>1, <3>3, <3>4
    <3>6. m - 1 \notin Bad
      <4> HIDE DEF Bad
      <4>1. QED
        BY <3>2, <3>5
    <3>7. Lies(f, a, flat[n - (m - 1)])
      BY <3>5, <3>6
    <3>8. Lies(f, a, flat[n - (m - 1) - 1])
      BY <2>4, <3>5, <3>7
    <3>9. QED
      BY <3>3, <3>5, <3>8
  <2>6. ASSUME NEW i \in 1..n
        PROVE  Lies(f, a, flat[i])
    <3>1. n - i \in 0..(n - 1) /\ n - (n - i) = i
      BY <1>1
    <3>2. QED
      BY <2>5, <3>1
  <2> DEFINE q == [k \in 0..n |-> IF k = 0 THEN a ELSE a + Len(flat[k])]
  <2>7. q \in [0..n -> Nat \ {0}] /\ q[0] = a /\ q[n] = a + Len(FlattenSeq(ss))
    BY <1>1, <2>1, <2>2, <2>3
  <2>8. ASSUME NEW j \in 1..n
        PROVE  Lies(f, q[j - 1], ss[j]) /\ q[j] = q[j - 1] + Len(ss[j])
    <3>1. CASE j = 1
      <4>1. q[j - 1] = a /\ q[j] = a + Len(flat[1]) /\ Lies(f, a, flat[1])
        BY <1>1, <2>6, <3>1
      <4>2. QED
        BY <2>2, <3>1, <4>1
    <3>2. CASE j # 1
      <4>1. j \in 2..n /\ j - 1 \in 1..n /\ j - 1 # 0
        BY <1>1, <3>2
      <4>2. /\ Lies(f, a + Len(flat[j - 1]), ss[j])
            /\ Len(flat[j]) = Len(flat[j - 1]) + Len(ss[j])
        BY <2>4, <2>6, <4>1
      <4>3. q[j - 1] = a + Len(flat[j - 1]) /\ q[j] = a + Len(flat[j])
        BY <1>1, <4>1
      <4>4. Len(flat[j - 1]) \in Nat /\ Len(ss[j]) \in Nat
        BY <2>3, <4>1
      <4>5. q[j] = q[j - 1] + Len(ss[j])
        <5> DEFINE l == Len(flat[j - 1])
                   m == Len(ss[j])
        <5>1. Len(flat[j]) = l + m
          BY <4>2
        <5>2. l \in Nat /\ m \in Nat
          BY <4>4
        <5>3. q[j - 1] = a + l /\ q[j] = a + Len(flat[j])
          BY <4>3
        <5> HIDE DEF q, l, m
        <5>4. q[j] = q[j - 1] + m
          BY <1>1, <5>1, <5>2, <5>3
        <5>5. QED
          BY <5>4 DEF m
      <4>6. QED
        BY <4>2, <4>3, <4>5
    <3>3. QED
      BY <3>1, <3>2
  <2> HIDE DEF q
  <2>9. QED
    BY <2>7, <2>8 DEF n
<1>4. QED
  BY <1>2, <1>3

\* What is written of an item begins with its type and name;
RestOf(h, x) ==
    IF h[x].kind \notin ContainerKinds THEN <<Field("payload", h[x].val)>>
    ELSE <<Field("container", h[x].kind), Field("count", Len(h[x].kids))>>
           \o FlattenSeq([k \in DOMAIN h[x].kids |-> Written(h, h[x].kids[k])])

LEMMA WrittenHead ==
    ASSUME NEW h, Sound(h), NEW x \in Addresses, h[x] # Null
    PROVE  \E T : /\ BaseOf(h[x]) \in Seq(T) /\ RestOf(h, x) \in Seq(T)
                  /\ Written(h, x) = BaseOf(h[x]) \o RestOf(h, x)
                  /\ Len(BaseOf(h[x])) = 2
                  /\ BaseOf(h[x])[1] = Field("type", TypeOf(h[x]))
                  /\ BaseOf(h[x])[2] = Field("name", h[x].name)
                  /\ Len(Written(h, x)) \in Nat /\ Len(Written(h, x)) > 0
<1> DEFINE base == BaseOf(h[x])
           rest == RestOf(h, x)
<1> DEFINE ss == [k \in DOMAIN h[x].kids |-> Written(h, h[x].kids[k])]
           T == TypedField \cup {Field("type", TypeOf(h[x])), Field("name", h[x].name),
                                 Field("payload", h[x].val), Field("container", h[x].kind),
                                 Field("count", Len(h[x].kids))}
           leaf == <<Field("payload", h[x].val)>>
           head == <<Field("container", h[x].kind), Field("count", Len(h[x].kids))>>
<1>1. WellTyped(h) /\ Closed(h)
  BY DEF Sound
<1>2. /\ h[x].kids \in Seq(Ids) /\ DOMAIN h[x].kids = 1..Len(h[x].kids)
      /\ \A k \in 1..Len(h[x].kids) : h[x].kids[k] \in Addresses /\ h[h[x].kids[k]] # Null
  <2>1. /\ h[x].kids \in Seq(Ids)
        /\ Kids(h, x) = {h[x].kids[k] : k \in 1..Len(h[x].kids)}
    BY <1>1, ItemFields
  <2>2. DOMAIN h[x].kids = 1..Len(h[x].kids)
    BY <2>1, LenProperties
  <2>3. \A k \in 1..Len(h[x].kids) : h[x].kids[k] \in Addresses /\ h[x].kids[k] \in Kids(h, x)
    BY <2>1, ElementOfSeq DEF Addresses
  <2>4. QED
    BY <1>1, <2>1, <2>2, <2>3 DEF Closed
<1>3. ss \in Seq(Seq(TypedField))
  <2>1. \A k \in 1..Len(h[x].kids) : Written(h, h[x].kids[k]) \in Seq(TypedField)
    BY <1>2, WrittenIs DEF Piece
  <2>2. Len(h[x].kids) \in Nat
    BY <1>2, LenProperties
  <2>3. QED
    BY <1>2, <2>1, <2>2
<1>4. FlattenSeq(ss) \in Seq(TypedField)
  <2> HIDE DEF ss
  <2>1. QED
    BY <1>3, FlattenTyped
<1>5. Written(h, x) = base \o rest
  BY WrittenIs DEF Block, RestOf
<1>6. base = <<Field("type", TypeOf(h[x])), Field("name", h[x].name)>>
  BY DEF BaseOf
<1>7. base \in Seq(T) /\ leaf \in Seq(T) /\ head \in Seq(T) /\ Len(base) = 2
  BY <1>6
<1>8. FlattenSeq(ss) \in Seq(T)
  <2> HIDE DEF ss
  <2>1. QED
    BY <1>4
<1>9. rest = IF h[x].kind \notin ContainerKinds THEN leaf ELSE head \o FlattenSeq(ss)
  BY DEF RestOf
<1> HIDE DEF T, leaf, head, ss, base, rest
<1>10. rest \in Seq(T)
  BY <1>7, <1>8, <1>9, ConcatProperties
<1>11. Len(base \o rest) = Len(base) + Len(rest) /\ Len(rest) \in Nat
  BY <1>7, <1>10, ConcatProperties, LenProperties
<1>12. Len(Written(h, x)) \in Nat /\ Len(Written(h, x)) > 0
  <2>1. Len(Written(h, x)) = Len(base \o rest)
    BY <1>5
  <2> DEFINE l == Len(Written(h, x))
             m == Len(rest)
  <2>2. l = 2 + m /\ m \in Nat
    BY <1>7, <1>11, <2>1
  <2> HIDE DEF l, m
  <2>3. l \in Nat /\ l > 0
    BY <2>2
  <2>4. QED
    BY <2>3 DEF l
<1>13. /\ base[1] = Field("type", TypeOf(h[x])) /\ base[2] = Field("name", h[x].name)
  BY <1>6
<1>14. QED
  BY <1>5, <1>7, <1>10, <1>12, <1>13 DEF base, rest

\* that of a value or comment goes on with its payload,
LEMMA LeafLies ==
    ASSUME NEW h, Sound(h), NEW x \in Addresses, h[x] # Null, h[x].kind \notin ContainerKinds,
           NEW S, NEW f \in Seq(S), NEW a, Lies(f, a, Written(h, x))
    PROVE  /\ a \in Nat \ {0} /\ Len(Written(h, x)) = 3 /\ a + 2 <= Len(f)
           /\ f[a] = Field("type", TypeOf(h[x])) /\ f[a + 1] = Field("name", h[x].name)
           /\ f[a + 2] = Field("payload", h[x].val)
<1> DEFINE base == BaseOf(h[x])
           rest == <<Field("payload", h[x].val)>>
<1>1. PICK T : /\ base \in Seq(T) /\ rest \in Seq(T) /\ Written(h, x) = base \o rest
               /\ Len(base) = 2
               /\ base[1] = Field("type", TypeOf(h[x])) /\ base[2] = Field("name", h[x].name)
  <2>1. rest = RestOf(h, x)
    BY DEF RestOf
  <2> HIDE DEF rest
  <2>2. QED
    BY <2>1, WrittenHead, Zenon
<1>2. Len(rest) = 1 /\ rest[1] = Field("payload", h[x].val)
  OBVIOUS
<1> HIDE DEF base, rest
<1>3. Lies(f, a, base) /\ Lies(f, a + 2, rest) /\ Len(Written(h, x)) = 2 + 1
  <2>1. Lies(f, a, base \o rest) /\ base \in Seq(T) /\ rest \in Seq(T)
    BY <1>1
  <2>2. /\ Lies(f, a, base) /\ Lies(f, a + Len(base), rest)
        /\ Len(base \o rest) = Len(base) + Len(rest)
    BY <2>1, LiesConcat
  <2>3. Len(Written(h, x)) = Len(base) + Len(rest)
    BY <1>1, <2>2
  <2>4. Lies(f, a + 2, rest)
    BY <1>1, <2>2, Zenon
  <2>5. QED
    BY <1>1, <1>2, <2>2, <2>3, <2>4
<1>4. a \in Nat \ {0} /\ a + 2 + 1 <= Len(f) + 1 /\ Len(f) \in Nat
  BY <1>2, <1>3, LenProperties DEF Lies
<1>5. f[a + 1 - 1] = base[1] /\ f[a + 2 - 1] = base[2] /\ f[a + 2 + 1 - 1] = rest[1]
  BY <1>1, <1>2, <1>3 DEF Lies
<1>6. a + 1 - 1 = a /\ a + 2 - 1 = a + 1 /\ a + 2 + 1 - 1 = a + 2
  BY <1>4
<1>7. QED
  BY <1>1, <1>2, <1>3, <1>4, <1>5, <1>6

\* that of a container with its kind, its size and what is written of its items.
LEMMA ContainerLies ==
    ASSUME NEW h, Sound(h), NEW x \in Addresses, h[x] # Null, h[x].kind \in ContainerKinds,
           NEW S, NEW f \in Seq(S), NEW a, Lies(f, a, Written(h, x))
    PROVE  /\ a \in Nat \ {0} /\ a + 3 <= Len(f)
           /\ f[a] = Field("type", TypeOf(h[x])) /\ f[a + 1] = Field("name", h[x].name)
           /\ f[a + 2] = Field("container", h[x].kind)
           /\ f[a + 3] = Field("count", Len(h[x].kids))
           /\ Laid(f, h, x, 0, a + 4, a + Len(Written(h, x)))
<1> DEFINE ss == [k \in DOMAIN h[x].kids |-> Written(h, h[x].kids[k])]
           base == BaseOf(h[x])
           head == <<Field("container", h[x].kind), Field("count", Len(h[x].kids))>>
           flat == FlattenSeq(ss)
           rest == head \o flat
           n == Len(h[x].kids)
<1>1. PICK T : /\ base \in Seq(T) /\ Written(h, x) = base \o rest
               /\ rest \in Seq(T) /\ Len(base) = 2
               /\ base[1] = Field("type", TypeOf(h[x])) /\ base[2] = Field("name", h[x].name)
  <2>1. rest = RestOf(h, x)
    BY DEF RestOf
  <2> HIDE DEF rest
  <2>2. QED
    BY <2>1, WrittenHead, Zenon
<1>2. /\ h[x].kids \in Seq(Ids) /\ n \in Nat /\ DOMAIN h[x].kids = 1..n
      /\ \A k \in 1..n : h[x].kids[k] \in Addresses /\ h[h[x].kids[k]] # Null
  <2>1. WellTyped(h) /\ Closed(h)
    BY DEF Sound
  <2>2. /\ h[x].kids \in Seq(Ids)
        /\ Kids(h, x) = {h[x].kids[k] : k \in 1..Len(h[x].kids)}
    BY <2>1, ItemFields
  <2>3. DOMAIN h[x].kids = 1..n /\ n \in Nat
    BY <2>2, LenProperties
  <2>4. \A k \in 1..n : h[x].kids[k] \in Addresses /\ h[x].kids[k] \in Kids(h, x)
    BY <2>2, ElementOfSeq DEF Addresses
  <2>5. QED
    BY <2>1, <2>2, <2>3, <2>4 DEF Closed
<1>3. /\ ss \in Seq(Seq(TypedField)) /\ Len(ss) = n
      /\ \A k \in 1..n : ss[k] = Written(h, h[x].kids[k])
  <2>1. \A k \in 1..n : Written(h, h[x].kids[k]) \in Seq(TypedField)
    BY <1>2, WrittenIs DEF Piece
  <2> HIDE DEF n
  <2>2. QED
    BY <1>2, <2>1
<1> DEFINE U == TypedField \cup {Field("container", h[x].kind), Field("count", Len(h[x].kids))}
<1>4. flat \in Seq(U) /\ head \in Seq(U) /\ Len(head) = 2
  <2> HIDE DEF ss
  <2>1. FlattenSeq(ss) \in Seq(TypedField)
    BY <1>3, FlattenTyped
  <2>2. QED
    BY <2>1
<1>5. head[1] = Field("container", h[x].kind) /\ head[2] = Field("count", n)
  OBVIOUS
<1> HIDE DEF ss, base, head, flat, U
<1>6. Lies(f, a, base) /\ Lies(f, a + 2, rest) /\ Len(Written(h, x)) = 2 + Len(rest)
  <2> HIDE DEF rest
  <2>1. Lies(f, a, base \o rest) /\ base \in Seq(T) /\ rest \in Seq(T)
    BY <1>1
  <2>2. /\ Lies(f, a, base) /\ Lies(f, a + Len(base), rest)
        /\ Len(base \o rest) = Len(base) + Len(rest)
    BY <2>1, LiesConcat
  <2>3. Len(Written(h, x)) = Len(base) + Len(rest)
    BY <1>1, <2>2
  <2>4. Lies(f, a + 2, rest) /\ Len(Written(h, x)) = 2 + Len(rest)
    BY <1>1, <2>2, <2>3, Zenon
  <2>5. QED
    BY <2>2, <2>4
<1>7. Lies(f, a + 2, head) /\ Lies(f, a + 2 + 2, flat) /\ Len(rest) = 2 + Len(flat)
  <2> DEFINE b == a + 2
  <2>1. Lies(f, b, head \o flat) /\ head \in Seq(U) /\ flat \in Seq(U)
    BY <1>4, <1>6
  <2> HIDE DEF b
  <2>2. /\ Lies(f, b, head) /\ Lies(f, b + Len(head), flat)
        /\ Len(head \o flat) = Len(head) + Len(flat)
    BY <2>1, LiesConcat
  <2>3. Lies(f, b + 2, flat) /\ Len(head \o flat) = 2 + Len(flat)
    BY <1>4, <2>2, Zenon
  <2>4. Len(rest) = 2 + Len(flat)
    BY <2>3
  <2>5. QED
    BY <2>2, <2>3, <2>4 DEF b
<1>8. a \in Nat \ {0} /\ a + 2 + 2 <= Len(f) + 1 /\ Len(f) \in Nat /\ Len(flat) \in Nat
  BY <1>4, <1>6, <1>7, LenProperties DEF Lies
<1>9. /\ f[a + 1 - 1] = base[1] /\ f[a + 2 - 1] = base[2]
      /\ f[a + 2 + 1 - 1] = head[1] /\ f[a + 2 + 2 - 1] = head[2]
  BY <1>1, <1>4, <1>6, <1>7 DEF Lies
<1>10. /\ a + 1 - 1 = a /\ a + 2 - 1 = a + 1 /\ a + 2 + 1 - 1 = a + 2 /\ a + 2 + 2 - 1 = a + 3
       /\ a + 2 + 2 = a + 4 /\ a + 4 + Len(flat) = a + Len(Written(h, x))
  BY <1>6, <1>7, <1>8
<1>11. Lies(f, a + 4, FlattenSeq(ss)) /\ Len(flat) = Len(FlattenSeq(ss))
  BY <1>7, <1>10 DEF flat
<1>12. PICK q \in [0..Len(ss) -> Nat \ {0}] :
          /\ q[0] = a + 4 /\ q[Len(ss)] = a + 4 + Len(FlattenSeq(ss))
          /\ \A j \in 1..Len(ss) : /\ Lies(f, q[j - 1], ss[j])
                                   /\ q[j] = q[j - 1] + Len(ss[j])
  <2> DEFINE b == a + 4
  <2>1. ss \in Seq(Seq(TypedField)) /\ Lies(f, b, FlattenSeq(ss))
    BY <1>3, <1>11
  <2> HIDE DEF ss, b
  <2>2. \E q \in [0..Len(ss) -> Nat \ {0}] :
          /\ q[0] = b /\ q[Len(ss)] = b + Len(FlattenSeq(ss))
          /\ \A j \in 1..Len(ss) : /\ Lies(f, q[j - 1], ss[j])
                                   /\ q[j] = q[j - 1] + Len(ss[j])
    BY <2>1, LiesFlatten
  <2>3. QED
    BY <2>2 DEF b
<1>13. Laid(f, h, x, 0, a + 4, a + Len(Written(h, x)))
  <2>1. q[n] = a + Len(Written(h, x))
    BY <1>3, <1>10, <1>11, <1>12
  <2>2. 0 + 1 = 1
    OBVIOUS
  <2>3. QED
    BY <1>3, <1>12, <2>1, <2>2 DEF Laid
<1>14. QED
  BY <1>1, <1>5, <1>8, <1>9, <1>10, <1>13

\* The next item, and the ones after it.
LEMMA LaidStep ==
    ASSUME NEW h, Sound(h), NEW y \in Addresses, h[y] # Null,
           NEW f, NEW i \in 0..(Len(h[y].kids) - 1), NEW a, NEW b, Laid(f, h, y, i, a, b)
    PROVE  /\ Lies(f, a, Written(h, h[y].kids[i + 1]))
           /\ Laid(f, h, y, i + 1, a + Len(Written(h, h[y].kids[i + 1])), b)
<1> DEFINE n == Len(h[y].kids)
<1>1. PICK q \in [i..n -> Nat \ {0}] :
         /\ q[i] = a /\ q[n] = b
         /\ \A j \in (i + 1)..n : /\ Lies(f, q[j - 1], Written(h, h[y].kids[j]))
                                  /\ q[j] = q[j - 1] + Len(Written(h, h[y].kids[j]))
  BY DEF Laid
<1>2. n \in Nat
  BY ItemFields, LenProperties DEF Sound
<1> HIDE DEF n
<1>3. i \in Nat /\ i + 1 \in (i + 1)..n /\ i + 1 - 1 = i /\ i + 1 <= n
  BY <1>2 DEF n
<1>4. /\ Lies(f, a, Written(h, h[y].kids[i + 1]))
      /\ q[i + 1] = a + Len(Written(h, h[y].kids[i + 1]))
  BY <1>1, <1>3
<1> DEFINE p == [k \in (i + 1)..n |-> q[k]]
<1>5. p \in [(i + 1)..n -> Nat \ {0}] /\ p[i + 1] = q[i + 1] /\ p[n] = b
  BY <1>1, <1>2, <1>3
<1>6. \A j \in (i + 1 + 1)..n : /\ j \in (i + 1)..n /\ j - 1 \in (i + 1)..n
                                /\ p[j] = q[j] /\ p[j - 1] = q[j - 1]
  BY <1>2, <1>3
<1> HIDE DEF p
<1>7. Laid(f, h, y, i + 1, q[i + 1], b)
  BY <1>1, <1>5, <1>6 DEF Laid, n
<1>8. QED
  BY <1>4, <1>7

\* After the last item there is none.
LEMMA LaidDone ==
    ASSUME NEW h, NEW y, NEW f, NEW a, NEW b, Laid(f, h, y, Len(h[y].kids), a, b)
    PROVE  a = b
BY DEF Laid

\* As many items as there are take as many fields at least.
LEMMA LaidRoom ==
    ASSUME NEW h, Sound(h), NEW y \in Addresses, h[y] # Null, NEW S, NEW f \in Seq(S),
           NEW a \in Nat \ {0}, a <= Len(f) + 1, NEW b, Laid(f, h, y, 0, a, b)
    PROVE  Len(h[y].kids) <= Len(f) + 1 - a
<1> DEFINE n == Len(h[y].kids)
<1>1. PICK q \in [0..n -> Nat \ {0}] :
         /\ q[0] = a /\ q[n] = b
         /\ \A j \in (0 + 1)..n : /\ Lies(f, q[j - 1], Written(h, h[y].kids[j]))
                                  /\ q[j] = q[j - 1] + Len(Written(h, h[y].kids[j]))
  BY DEF Laid
<1>2. n \in Nat /\ Len(f) \in Nat
  BY ItemFields, LenProperties DEF Sound
<1>3. \A j \in 1..n : /\ Len(Written(h, h[y].kids[j])) \in Nat
                      /\ Len(Written(h, h[y].kids[j])) > 0
  <2>1. SUFFICES ASSUME NEW j \in 1..n
                 PROVE  /\ Len(Written(h, h[y].kids[j])) \in Nat
                        /\ Len(Written(h, h[y].kids[j])) > 0
    OBVIOUS
  <2>2. h[y].kids \in Seq(Ids) /\ Kids(h, y) = {h[y].kids[k] : k \in 1..Len(h[y].kids)}
    BY ItemFields DEF Sound
  <2>3. h[y].kids[j] \in Addresses /\ h[h[y].kids[j]] # Null
    <3>1. h[y].kids[j] \in Addresses /\ h[y].kids[j] \in Kids(h, y)
      BY <2>2, ElementOfSeq DEF Addresses
    <3>2. QED
      BY <3>1 DEF Sound, Closed
  <2>4. QED
    BY <2>3, WrittenHead
<1> HIDE DEF n
<1>4. ASSUME NEW j \in 1..n
      PROVE  /\ j - 1 \in 0..n /\ q[j - 1] + 1 <= q[j] /\ q[j] <= Len(f) + 1
  <2>1. /\ Lies(f, q[j - 1], Written(h, h[y].kids[j]))
        /\ q[j] = q[j - 1] + Len(Written(h, h[y].kids[j]))
    BY <1>1
  <2>2. j - 1 \in 0..n /\ q[j - 1] \in Nat
    BY <1>1, <1>2
  <2>3. q[j - 1] + Len(Written(h, h[y].kids[j])) <= Len(f) + 1
    BY <2>1 DEF Lies
  <2> DEFINE l == Len(Written(h, h[y].kids[j]))
  <2>4. l \in Nat /\ l > 0 /\ q[j] = q[j - 1] + l /\ q[j - 1] + l <= Len(f) + 1
    BY <1>3, <2>1, <2>3
  <2> HIDE DEF l
  <2>5. QED
    BY <2>2, <2>4
<1> DEFINE Bad == {j \in 0..n : ~(a + j <= q[j])}
<1>5. Bad = {}
  <2>1. SUFFICES ASSUME Bad # {}
                 PROVE  FALSE
    OBVIOUS
  <2>2. PICK m \in Bad : \A j \in Bad : m <= j
    <3>1. Bad \in SUBSET Nat
      BY <1>2
    <3> HIDE DEF Bad
    <3>2. QED
      BY <2>1, <3>1, LeastElement
  <2>3. m \in 0..n /\ ~(a + m <= q[m])
    OBVIOUS
  <2>4. m # 0
    BY <1>1, <2>3
  <2>5. m \in 1..n /\ m - 1 \in 0..n /\ ~(m <= m - 1)
    BY <1>2, <2>3, <2>4
  <2>6. m - 1 \notin Bad
    <3> HIDE DEF Bad
    <3>1. QED
      BY <2>2, <2>5
  <2>7. a + (m - 1) <= q[m - 1] /\ q[m - 1] \in Nat /\ q[m] \in Nat
    BY <1>1, <2>5, <2>6
  <2>8. q[m - 1] + 1 <= q[m]
    BY <1>4, <2>5
  <2>9. QED
    BY <2>3, <2>5, <2>7, <2>8
<1>6. a + n <= q[n] /\ q[n] \in Nat
  <2>1. n \in 0..n /\ n \notin Bad
    BY <1>2, <1>5
  <2>2. QED
    BY <1>1, <2>1
<1>7. q[n] <= Len(f) + 1
  <2>1. CASE n = 0
    BY <1>1, <2>1
  <2>2. CASE n # 0
    <3>1. n \in 1..n
      BY <1>2, <2>2
    <3>2. QED
      BY <1>4, <3>1
  <2>3. QED
    BY <2>1, <2>2
<1>8. QED
  BY <1>2, <1>6, <1>7 DEF n

-----------------------------------------------------------------------------
(* What is offered to the containers of a load *)

\* The items as the file has them are the same items, but for their policies.
LEMMA StoredSound ==
    ASSUME NEW o, Sound(o), NEW s, s = Stored(o)
    PROVE  /\ Sound(s)
           /\ \A x \in Addresses : o[x] # Null =>
                 /\ s[x] # Null /\ s[x].kind = o[x].kind /\ s[x].name = o[x].name
                 /\ s[x].val = o[x].val /\ s[x].kids = o[x].kids
                 /\ s[x].policy = "ThrowException"
           /\ \A x \in Addresses : Kids(s, x) = Kids(o, x) /\ (o[x] = Null => s[x] = Null)
<1>1. WellTyped(o) /\ Closed(o) /\ Acyclic(o)
  BY DEF Sound
<1>2. ASSUME NEW x \in Addresses, o[x] # Null
      PROVE  /\ s[x] \in Item /\ s[x] # Null /\ s[x].kind = o[x].kind /\ s[x].name = o[x].name
             /\ s[x].val = o[x].val /\ s[x].kids = o[x].kids
             /\ s[x].policy = "ThrowException"
  <2>1. s[x] = [o[x] EXCEPT !.policy = "ThrowException"]
    BY <1>2 DEF Stored
  <2>2. o[x] \in Item
    BY <1>1, <1>2, ItemFields
  <2>3. s[x] \in Item
    BY <2>1, <2>2 DEF Item, AnyPolicy, Policies
  <2>4. QED
    BY <2>1, <2>2, <2>3, NullAssumption DEF Item
<1>3. ASSUME NEW x \in Addresses, o[x] = Null
      PROVE  s[x] = Null
  BY <1>3 DEF Stored
<1>4. \A x \in Addresses : Kids(s, x) = Kids(o, x)
  BY <1>2, <1>3 DEF Kids
<1>5. WellTyped(s)
  <2>1. s \in [Addresses -> Item \cup {Null}]
    <3>1. s = [x \in Addresses |-> s[x]]
      BY DEF Stored
    <3>2. \A x \in Addresses : s[x] \in Item \cup {Null}
      BY <1>2, <1>3
    <3>3. QED
      BY <3>1, <3>2
  <2>2. \A c \in Configs : c \in Addresses
    BY DEF Addresses
  <2>3. QED
    BY <1>1, <1>2, <1>3, <2>1, <2>2 DEF WellTyped
<1>6. Closed(s)
  BY <1>1, <1>2, <1>3, <1>4 DEF Closed
<1>7. Acyclic(s)
  <2>1. \A x \in Ids : s[x] # Null /\ Kids(s, x) # {} =>
           o[x] # Null /\ Kids(s, x) \subseteq Kids(o, x)
    BY <1>3, <1>4 DEF Addresses
  <2>2. QED
    BY <1>1, <2>1, AcyclicLess
<1>8. QED
  BY <1>2, <1>3, <1>4, <1>5, <1>6, <1>7 DEF Sound

LEMMA OffersAre ==
    ASSUME NEW o, Sound(o), NEW y \in Addresses, o[y] # Null, NEW p,
           NEW W, W = Offers(o, y, p)
    PROVE  /\ Len(o[y].kids) \in Nat /\ DOMAIN o[y].kids = 1..Len(o[y].kids)
           /\ \E S : W \in Seq(S)
           /\ Len(W) = Len(o[y].kids)
           /\ \A k \in 1..Len(o[y].kids) :
                 /\ o[y].kids[k] \in Ids /\ o[o[y].kids[k]] # Null
                 /\ o[y].kids[k] \in Kids(o, y)
                 /\ W[k] = Node(o[o[y].kids[k]].kind, o[o[y].kids[k]].name,
                                o[o[y].kids[k]].val,
                                IF o[o[y].kids[k]].kind \in ContainerKinds
                                THEN p ELSE "ThrowException",
                                TreesIn(Stored(o), o[y].kids[k]))
           /\ p = "ThrowException" => W = TreesIn(Stored(o), y)
<1> DEFINE s == Stored(o)
           n == Len(o[y].kids)
<1>1. WellTyped(o) /\ Closed(o)
  BY DEF Sound
<1>2. /\ Sound(s)
      /\ \A x \in Addresses : o[x] # Null =>
            /\ s[x] # Null /\ s[x].kind = o[x].kind /\ s[x].name = o[x].name
            /\ s[x].val = o[x].val /\ s[x].kids = o[x].kids
            /\ s[x].policy = "ThrowException"
  BY StoredSound
<1>3. /\ o[y].kids \in Seq(Ids) /\ n \in Nat /\ DOMAIN o[y].kids = 1..n
      /\ \A k \in 1..n : o[y].kids[k] \in Ids /\ o[y].kids[k] \in Kids(o, y)
  BY <1>1, TreesInIs
<1>4. \A k \in 1..n : o[y].kids[k] \in Addresses /\ o[o[y].kids[k]] # Null
  BY <1>1, <1>3 DEF Closed, Addresses
<1>5. W = [k \in 1..n |-> Adopted(TreeAt(s, o[y].kids[k]), p)]
  BY <1>3 DEF Offers
<1> HIDE DEF s, n
<1>6. ASSUME NEW x \in Ids, o[x] # Null
      PROVE  /\ TreeAt(s, x) = Node(o[x].kind, o[x].name, o[x].val, "ThrowException", TreesIn(s, x))
             /\ Adopted(TreeAt(s, x), p) =
                  Node(o[x].kind, o[x].name, o[x].val,
                       IF o[x].kind \in ContainerKinds THEN p ELSE "ThrowException",
                       TreesIn(s, x))
             /\ Adopted(TreeAt(s, x), "ThrowException") = TreeAt(s, x)
  <2>1. x \in Addresses
    BY DEF Addresses
  <2>2. s[x] # Null /\ TreeAt(s, x) = Node(s[x].kind, s[x].name, s[x].val, s[x].policy, TreesIn(s, x))
    BY <1>2, <1>6, <2>1, TreeAtIs
  <2>3. TreeAt(s, x) = Node(o[x].kind, o[x].name, o[x].val, "ThrowException", TreesIn(s, x))
    BY <1>2, <1>6, <2>1, <2>2
  <2> DEFINE items == TreesIn(s, x)
             kind == o[x].kind
             name == o[x].name
             val == o[x].val
  <2>4. TreeAt(s, x) = Node(kind, name, val, "ThrowException", items)
    BY <2>3
  <2> HIDE DEF items, kind, name, val
  <2>5. TreeAt(s, x).kind = kind
    BY <2>4 DEF Node
  <2> DEFINE L == [kind |-> kind, name |-> name, val |-> val,
                   items |-> [k \in DOMAIN items |-> items[k].looks],
                   self |-> /\ kind = "Value" => val # NaN
                            /\ \A k \in DOMAIN items : items[k].looks.self]
             T(q) == [kind |-> kind, name |-> name, val |-> val, policy |-> q,
                      items |-> items, looks |-> L]
  <2>a. \A q : Node(kind, name, val, q, items) = T(q)
    BY DEF Node
  <2> HIDE DEF L
  <2>b. TreeAt(s, x) = T("ThrowException")
    BY <2>4, <2>a
  <2>6. [TreeAt(s, x) EXCEPT !.policy = p] = Node(kind, name, val, p, items)
    <3>1. [T("ThrowException") EXCEPT !.policy = p] = T(p)
      OBVIOUS
    <3> HIDE DEF T
    <3>2. QED
      BY <2>a, <2>b, <3>1
  <2>7. [TreeAt(s, x) EXCEPT !.policy = "ThrowException"] = TreeAt(s, x)
    <3>1. [T("ThrowException") EXCEPT !.policy = "ThrowException"] = T("ThrowException")
      OBVIOUS
    <3> HIDE DEF T
    <3>2. QED
      BY <2>b, <3>1
  <2>8. /\ Adopted(TreeAt(s, x), p) =
             Node(kind, name, val, IF kind \in ContainerKinds THEN p ELSE "ThrowException", items)
        /\ Adopted(TreeAt(s, x), "ThrowException") = TreeAt(s, x)
    BY <2>4, <2>5, <2>6, <2>7 DEF Adopted
  <2>9. QED
    BY <2>3, <2>8 DEF kind, name, val, items
<1>7. \A k \in 1..n :
         W[k] = Node(o[o[y].kids[k]].kind, o[o[y].kids[k]].name, o[o[y].kids[k]].val,
                     IF o[o[y].kids[k]].kind \in ContainerKinds THEN p ELSE "ThrowException",
                     TreesIn(s, o[y].kids[k]))
  BY <1>3, <1>4, <1>5, <1>6
<1>8. W \in Seq({W[k] : k \in 1..n}) /\ Len(W) = n
  BY <1>3, <1>5
<1>9. ASSUME p = "ThrowException"
      PROVE  W = TreesIn(s, y)
  <2>1. TreesIn(s, y) = [k \in 1..n |-> TreeAt(s, o[y].kids[k])]
    BY <1>2, <1>3 DEF TreesIn
  <2>2. \A k \in 1..n : Adopted(TreeAt(s, o[y].kids[k]), p) = TreeAt(s, o[y].kids[k])
    BY <1>3, <1>4, <1>6, <1>9
  <2>3. QED
    BY <1>5, <2>1, <2>2
<1>10. QED
  BY <1>3, <1>4, <1>7, <1>8, <1>9 DEF s, n

\* What the reader makes of a value or comment is what is offered for it.
LEMMA LeafOffered ==
    ASSUME NEW o, Sound(o), NEW y \in Addresses, o[y] # Null, NEW p,
           NEW k \in 1..Len(o[y].kids), NEW d, d = o[y].kids[k],
           o[d].kind \notin ContainerKinds,
           NEW h, WellTyped(h), NEW x \in Ids, h[x] = NewItem(o[d].kind, o[d].name, o[d].val)
    PROVE  Offering(h, x, p) = Offers(o, y, p)[k]
<1> DEFINE s == Stored(o)
<1>1. /\ d \in Ids /\ o[d] # Null
      /\ Offers(o, y, p)[k] = Node(o[d].kind, o[d].name, o[d].val, "ThrowException", TreesIn(s, d))
  BY OffersAre
<1>2. d \in Addresses /\ x \in Addresses
  BY <1>1 DEF Addresses
<1>3. o[d].kids = <<>>
  BY <1>1, <1>2 DEF Sound, WellTyped
<1>4. s[d].kids = <<>>
  BY <1>1, <1>2, <1>3, StoredSound
<1>5. /\ h[x].kind = o[d].kind /\ h[x].name = o[d].name /\ h[x].val = o[d].val
      /\ h[x].kids = <<>> /\ h[x].policy = "ThrowException"
  BY DEF NewItem
<1>6. TreesIn(h, x) = <<>> /\ TreesIn(s, d) = <<>>
  BY <1>4, <1>5 DEF TreesIn
<1>7. QED
  BY <1>1, <1>5, <1>6 DEF Offering

\* A container that holds what was offered for it is what is offered for itself.
LEMMA ContainerOffered ==
    ASSUME NEW o, Sound(o), NEW y \in Addresses, o[y] # Null, NEW p,
           NEW k \in 1..Len(o[y].kids), NEW d, d = o[y].kids[k],
           o[d].kind \in ContainerKinds,
           NEW h, NEW x, h[x].kind = o[d].kind, h[x].name = o[d].name, h[x].val = o[d].val,
           TreesIn(h, x) = Offers(o, d, "ThrowException")
    PROVE  Offering(h, x, p) = Offers(o, y, p)[k]
<1> DEFINE s == Stored(o)
<1>1. /\ d \in Ids /\ o[d] # Null
      /\ Offers(o, y, p)[k] = Node(o[d].kind, o[d].name, o[d].val, p, TreesIn(s, d))
  BY OffersAre
<1>2. d \in Addresses
  BY <1>1 DEF Addresses
<1>3. Offers(o, d, "ThrowException") = TreesIn(s, d)
  BY <1>1, <1>2, OffersAre
<1>4. QED
  BY <1>1, <1>3 DEF Offering

-----------------------------------------------------------------------------
(* Which containers take what is offered *)

\* A container may hold an item of that name: comments have any.
Admitted(kind, T) == T.kind = "Comment" \/ Fitting(kind, T.name)

\* A container of policy p, new as it is, takes what the one at y holds.
Takes(o, y, p) ==
    /\ AllFit(o[y].kind, Offers(o, y, p))
    /\ p = "ThrowException" => NoneCollide(o[y].kind, Offers(o, y, p))

\* So does every new container for the item at x and those below it.
Restores(o, x) == \A z \in Reach(o, {x}) : Takes(o, z, "ThrowException")

LEMMA LoadableIs ==
    ASSUME NEW o, Sound(o), NEW p
    PROVE  Loadable(o, p) <=>
              /\ Takes(o, Source, p)
              /\ \A z \in Reach(o, Kids(o, Source)) : Takes(o, z, "ThrowException")
<1>1. Source \in Configs
  BY FileAssumption
<1>2. o[Source].kind = "Group"
  BY <1>1 DEF Sound, WellTyped
<1>3. ASSUME NEW z
      PROVE  Restorable(o, z) <=> Takes(o, z, "ThrowException")
  <2> DEFINE W == Offers(o, z, "ThrowException")
             kind == o[z].kind
  <2>1. Restorable(o, z) <=> \A trees \in {W} : AllFit(kind, trees) /\ NoneCollide(kind, trees)
    BY DEF Restorable
  <2>2. Takes(o, z, "ThrowException") <=> AllFit(kind, W) /\ NoneCollide(kind, W)
    BY DEF Takes
  <2> HIDE DEF W, kind
  <2>3. QED
    BY <2>1, <2>2
<1>4. (\A trees \in {Offers(o, Source, p)} :
          AllFit("Group", trees) /\ (p = "ThrowException" => NoneCollide("Group", trees)))
        <=> Takes(o, Source, p)
  <2> DEFINE W == Offers(o, Source, p)
  <2>1. Takes(o, Source, p) <=>
           AllFit("Group", W) /\ (p = "ThrowException" => NoneCollide("Group", W))
    BY <1>2 DEF Takes
  <2> HIDE DEF W
  <2>2. (\A trees \in {W} :
            AllFit("Group", trees) /\ (p = "ThrowException" => NoneCollide("Group", trees)))
          <=> Takes(o, Source, p)
    BY <2>1
  <2>3. QED
    BY <2>2 DEF W
<1>5. QED
  BY <1>3, <1>4 DEF Loadable

\* What restores above is what restores below.
LEMMA RestoresAll ==
    ASSUME NEW o, WellTyped(o), NEW R \in SUBSET Ids, \A x \in R : Restores(o, x)
    PROVE  \A z \in Reach(o, R) : Takes(o, z, "ThrowException")
<1> DEFINE S == {z \in Ids : \E x \in R : z \in Reach(o, {x})}
<1>1. ASSUME NEW x \in R
      PROVE  /\ x \in Reach(o, {x}) /\ Reach(o, {x}) \subseteq Ids
             /\ \A y \in Reach(o, {x}) : Kids(o, y) \subseteq Reach(o, {x})
  <2>1. {x} \in SUBSET Ids
    OBVIOUS
  <2>2. QED
    BY <2>1, ReachClosed
<1>2. R \subseteq S
  BY <1>1
<1>3. \A y \in S : Kids(o, y) \subseteq S
  BY <1>1
<1>4. S \in SUBSET Ids
  OBVIOUS
<1>5. \A z \in S : Takes(o, z, "ThrowException")
  BY DEF Restores
<1> HIDE DEF S
<1>6. Reach(o, R) \subseteq S
  BY <1>2, <1>3, <1>4, Outside
<1>7. QED
  BY <1>5, <1>6

LEMMA RestoresUp ==
    ASSUME NEW o, WellTyped(o), NEW y \in Ids, Takes(o, y, "ThrowException"),
           \A x \in Kids(o, y) : Restores(o, x)
    PROVE  Restores(o, y)
<1> DEFINE R == Kids(o, y)
           S == {y} \cup Reach(o, R)
<1>1. R \in SUBSET Ids
  BY KidsAreIds DEF Addresses
<1>2. /\ R \subseteq Reach(o, R) /\ Reach(o, R) \subseteq Ids
      /\ \A x \in Reach(o, R) : Kids(o, x) \subseteq Reach(o, R)
  BY <1>1, ReachClosed
<1>3. \A z \in Reach(o, R) : Takes(o, z, "ThrowException")
  <2>1. \A x \in R : Restores(o, x)
    OBVIOUS
  <2> HIDE DEF R
  <2>2. QED
    BY <1>1, <2>1, RestoresAll
<1>4. {y} \subseteq S /\ S \in SUBSET Ids /\ \A x \in S : Kids(o, x) \subseteq S
  BY <1>2
<1>5. Reach(o, {y}) \subseteq S
  <2> HIDE DEF S
  <2>1. QED
    BY <1>4, Outside
<1>6. QED
  BY <1>3, <1>5 DEF Restores

\* A value or comment has nothing to be refused.
LEMMA RestoresLeaf ==
    ASSUME NEW o, Sound(o), NEW y \in Ids, o[y] # Null, o[y].kind \notin ContainerKinds
    PROVE  Restores(o, y)
<1>1. y \in Addresses /\ WellTyped(o)
  BY DEF Addresses, Sound
<1>2. o[y].kids = <<>>
  BY <1>1 DEF WellTyped
<1>3. Kids(o, y) = {} /\ DOMAIN o[y].kids = {}
  BY <1>2, EmptySeq DEF Kids, ToSet
<1>4. DOMAIN Offers(o, y, "ThrowException") = {}
  BY <1>3 DEF Offers
<1>5. Takes(o, y, "ThrowException")
  BY <1>4 DEF Takes, AllFit, NoneCollide
<1>6. QED
  BY <1>1, <1>3, <1>5, RestoresUp

-----------------------------------------------------------------------------
(* What an activation has done *)

\* The first m of W.
Begins(trees, W, m) ==
    (\E S : trees \in Seq(S)) /\ Len(trees) = m /\ \A j \in 1..m : trees[j] = W[j]

\* How many items of y have been read by the activation f.
Done(o, f, y) == Len(o[y].kids) - f.left

\* The container that f fills holds what it should of the items of y that have
\* been read, and none of them was one to refuse.
Filled(h, o, f, y, p) ==
    /\ h[f.at].kind = o[y].kind /\ h[f.at].policy = p
    /\ Holding(h, f.at) = {}
    /\ f.left <= Len(o[y].kids)
    /\ \E trees : /\ Begins(trees, Offers(o, y, p), Done(o, f, y))
                  /\ Holds(h, f.at, trees, 0, p)
    /\ \A j \in 1..Done(o, f, y) : /\ Admitted(o[y].kind, Offers(o, y, p)[j])
                                   /\ Restores(o, o[y].kids[j])

LEMMA BeginsAll ==
    ASSUME NEW S, NEW W \in Seq(S), NEW trees, Begins(trees, W, Len(W))
    PROVE  trees = W
<1>1. PICK T : trees \in Seq(T)
  BY DEF Begins
<1>2. Len(trees) = Len(W) /\ \A j \in 1..Len(W) : trees[j] = W[j]
  BY DEF Begins
<1>3. /\ trees = [j \in 1..Len(trees) |-> trees[j]] /\ W = [j \in 1..Len(W) |-> W[j]]
      /\ Len(W) \in Nat
  BY <1>1, LenProperties
<1>4. QED
  BY <1>2, <1>3

\* With its last item read, it holds all that it may of what was offered.
LEMMA FilledWhole ==
    ASSUME NEW o, Sound(o), NEW y \in Addresses, o[y] # Null,
           NEW h, NEW f, f.left = 0, NEW p, Filled(h, o, f, y, p)
    PROVE  /\ TreesIn(h, f.at) = Kept(o[y].kind, Offers(o, y, p), 0, p)
           /\ p = "ThrowException" => TreesIn(h, f.at) = Offers(o, y, p)
           /\ Takes(o, y, p)
           /\ \A x \in Kids(o, y) : Restores(o, x)
<1> DEFINE W == Offers(o, y, p)
           n == Len(o[y].kids)
           kind == o[y].kind
<1>1. W = Offers(o, y, p)
  OBVIOUS
<1> HIDE DEF W
<1>2. n \in Nat /\ DOMAIN o[y].kids = 1..n /\ Len(W) = n /\ \E S : W \in Seq(S)
  BY <1>1, OffersAre
<1>3. PICK S : W \in Seq(S)
  BY <1>2
<1>4. Done(o, f, y) = n
  BY <1>2 DEF Done
<1>5. PICK trees : Begins(trees, W, n) /\ Holds(h, f.at, trees, 0, p)
  BY <1>1, <1>4 DEF Filled
<1>6. trees = W
  BY <1>2, <1>3, <1>5, BeginsAll
<1>7. /\ h[f.at].kind = kind
      /\ \A j \in 1..n : Admitted(kind, W[j]) /\ Restores(o, o[y].kids[j])
  BY <1>1, <1>4 DEF Filled
<1>8. /\ TreesIn(h, f.at) = Kept(kind, W, 0, p)
      /\ p = "ThrowException" => AllStay(kind, W, 0, p)
  BY <1>5, <1>6, <1>7 DEF Holds
<1>9. p = "ThrowException" => TreesIn(h, f.at) = W
  BY <1>3, <1>8, AllKept
<1>10. DOMAIN W = 1..n
  BY <1>2, <1>3, LenProperties
<1>11. AllFit(kind, W)
  BY <1>7, <1>10 DEF AllFit, Admitted, Fitting
<1>12. p = "ThrowException" => NoneCollide(kind, W)
  <2>1. ASSUME p = "ThrowException", NEW j \in 1..n, NEW k \in 1..n, j # k
        PROVE  ~Collide(kind, W[j], W[k])
    <3>1. Stays(kind, W, 0, "ThrowException", k)
      BY <1>2, <1>8, <2>1 DEF AllStay
    <3>2. QED
      BY <1>2, <2>1, <3>1 DEF Stays
  <2>2. QED
    BY <1>10, <2>1 DEF NoneCollide
<1>13. \A x \in Kids(o, y) : Restores(o, x)
  <2>1. Source \in Addresses /\ Kids(o, y) = {o[y].kids[k] : k \in 1..n}
    BY ItemFields, FileAssumption DEF Sound, Addresses
  <2>2. QED
    BY <1>7, <2>1
<1>14. QED
  BY <1>1, <1>8, <1>9, <1>11, <1>12, <1>13 DEF Takes

\* The item at a is in g what it was in h, and held by no more.
Keeps(g, h, a) ==
    /\ g[a] # Null /\ g[a].kind = h[a].kind /\ g[a].name = h[a].name /\ g[a].val = h[a].val
    /\ g[a].policy = h[a].policy
    /\ Holding(g, a) \subseteq Holding(h, a)

LEMMA FilledSame ==
    ASSUME NEW h, NEW o, NEW f, NEW y, NEW p, Filled(h, o, f, y, p),
           NEW g, Keeps(g, h, f.at), TreesIn(g, f.at) = TreesIn(h, f.at)
    PROVE  Filled(g, o, f, y, p)
<1>1. PICK trees : /\ Begins(trees, Offers(o, y, p), Done(o, f, y))
                   /\ Holds(h, f.at, trees, 0, p)
  BY DEF Filled
<1>2. Holds(g, f.at, trees, 0, p)
  BY <1>1 DEF Holds, Keeps
<1>3. /\ h[f.at].kind = o[y].kind /\ h[f.at].policy = p
      /\ Holding(h, f.at) = {}
      /\ f.left <= Len(o[y].kids)
      /\ \A j \in 1..Done(o, f, y) : /\ Admitted(o[y].kind, Offers(o, y, p)[j])
                                     /\ Restores(o, o[y].kids[j])
  BY DEF Filled
<1>4. g[f.at].kind = o[y].kind /\ g[f.at].policy = p /\ Holding(g, f.at) = {}
  BY <1>3 DEF Keeps
<1>5. QED
  BY <1>1, <1>2, <1>3, <1>4 DEF Filled

\* A container in which nothing is yet.
LEMMA FilledNone ==
    ASSUME NEW o, Sound(o), NEW y \in Addresses, o[y] # Null,
           NEW g, NEW f, f.left = Len(o[y].kids), NEW p,
           g[f.at].kind = o[y].kind, g[f.at].policy = p, Holding(g, f.at) = {},
           TreesIn(g, f.at) = <<>>
    PROVE  Filled(g, o, f, y, p)
<1> DEFINE W == Offers(o, y, p)
           none == <<>>
           kind == o[y].kind
<1>1. Len(o[y].kids) \in Nat
  BY OffersAre
<1>2. Done(o, f, y) = 0
  BY <1>1 DEF Done
<1>3. Len(none) = 0 /\ none \in Seq({})
  BY EmptySeq
<1> HIDE DEF W, none, kind
<1>4. Begins(none, W, 0)
  BY <1>3 DEF Begins
<1>5. AllStay(kind, none, 0, p)
  BY <1>3 DEF AllStay
<1>6. Kept(kind, none, 0, p) = none
  BY <1>3, <1>5, AllKept
<1>7. Holds(g, f.at, none, 0, p)
  BY <1>3, <1>5, <1>6 DEF Holds, none, kind
<1>8. 1..Done(o, f, y) = {} /\ f.left <= Len(o[y].kids)
  BY <1>1, <1>2
<1>9. QED
  BY <1>2, <1>4, <1>7, <1>8 DEF Filled, W

\* What becomes of an item that is as it was offered.
LEMMA DeliverFills ==
    ASSUME NEW o, Sound(o), NEW y \in Addresses, o[y] # Null,
           NEW h, Sound(h), NEW fs, Stacked(h, fs), fs # <<>>, NEW f, f = Last(fs), f.left > 0,
           NEW p \in Policies, Filled(h, o, f, y, p),
           NEW x \in Ids, h[x] # Null, Holding(h, x) = {}, \A k \in 1..Len(fs) : fs[k].at # x,
           NEW i, i = Done(o, f, y) + 1, Restores(o, o[y].kids[i]),
           Offering(h, x, p) = Offers(o, y, p)[i],
           NEW f1, f1 = [at |-> f.at, left |-> f.left - 1],
           Deliver(h, x, fs)
    PROVE  \/ /\ phase' = "over" /\ ret' = "DeserializeError" /\ frames' = <<>>
              /\ ~Takes(o, y, p)
           \/ /\ UNCHANGED <<policy, file, damage, phase, ret>>
              /\ frames' = Append(Front(fs), f1)
              /\ Sound(heap') /\ Filled(heap', o, f1, y, p)
              /\ \A k \in 1..Len(fs) : Keeps(heap', h, fs[k].at)
              /\ \A k \in 1..(Len(fs) - 1) :
                    TreesIn(heap', fs[k].at) = TreesIn(h, fs[k].at)
<1> DEFINE t == f.at
           r == AddTo(h, t, x, p)
           W == Offers(o, y, p)
           T == Offering(h, x, p)
           kind == o[y].kind
           m == Done(o, f, y)
<1>1. WellTyped(h) /\ Closed(h) /\ WellTyped(o)
  BY DEF Sound
<1>2. /\ fs \in Seq(Opening) /\ Len(fs) \in Nat /\ Len(fs) \in 1..Len(fs) /\ f = fs[Len(fs)]
      /\ f \in Opening /\ f.left \in Nat
  <2>1. fs \in Seq(Opening)
    BY DEF Stacked
  <2>2. Len(fs) \in Nat /\ Len(fs) \in 1..Len(fs) /\ Last(fs) = fs[Len(fs)] /\ Last(fs) \in Opening
    BY <2>1, FrontAndLast
  <2>3. QED
    BY <2>1, <2>2 DEF Opening
<1>3. /\ IsContainer(h, t) /\ t \in Addresses /\ h[t] # Null /\ t # x
      /\ \A k \in 1..Len(fs) : k # Len(fs) => fs[k].at # t
  BY <1>2 DEF Stacked, IsContainer, Opening
<1>4. /\ Len(o[y].kids) \in Nat /\ Len(W) = Len(o[y].kids) /\ \E S : W \in Seq(S)
  BY OffersAre
<1>5. /\ h[t].kind = kind /\ h[t].policy = p /\ Holding(h, t) = {}
      /\ f.left <= Len(o[y].kids)
      /\ \A j \in 1..m : Admitted(kind, W[j]) /\ Restores(o, o[y].kids[j])
  BY DEF Filled
<1>6. /\ m \in Nat /\ i = m + 1 /\ m + 1 <= Len(W) /\ i \in 1..Len(W)
      /\ Done(o, f1, y) = m + 1
  BY <1>2, <1>4, <1>5, SMTT(30) DEF Done
<1>7. PICK trees : Begins(trees, W, m) /\ Holds(h, t, trees, 0, p)
  BY DEF Filled
<1>8. \/ r.out \in AddErrors /\ Refuse
      \/ /\ r.out \notin AddErrors
         /\ heap' = Settled(r.heap, Locals(fs))
         /\ frames' = Append(Front(fs), f1)
         /\ UNCHANGED <<policy, file, damage, phase, ret>>
  BY <1>5 DEF Deliver
<1>9. T = Offering(h, x, p) /\ r = AddTo(h, t, x, p) /\ T = W[i]
  OBVIOUS
<1>10. Source \in Addresses /\ Loaded \in Configs /\ Loaded \in Addresses
  BY FileAssumption DEF Addresses
<1> HIDE DEF r, W, T, kind, m, t
<1> DEFINE U == Append(trees, T)
<1>11. /\ Sound(r.heap) /\ r.heap[t].kind = h[t].kind
       /\ \A z \in Addresses : z # t /\ z # x => r.heap[z] = h[z]
       /\ \A z \in Addresses : h[z] # Null => r.heap[z] # Null
       /\ \A z \in Addresses : h[z] # Null /\ z # t => TreesIn(r.heap, z) = TreesIn(h, z)
       /\ \/ Refusal(h, t, trees, p, T, r)
          \/ /\ r.out \notin AddErrors /\ Holds(r.heap, t, U, 0, p)
             /\ T.kind = "Comment" \/ Fitting(h[t].kind, T.name)
  <2>1. Appends(U, trees, T)
    BY DEF Appends
  <2> HIDE DEF U
  <2>2. QED
    BY <1>3, <1>5, <1>7, <1>9, <2>1, AddTrees
<1>12. CASE r.out \in AddErrors
  <2>1. Refusal(h, t, trees, p, T, r)
    BY <1>11, <1>12
  <2>2. phase' = "over" /\ ret' = "DeserializeError" /\ frames' = <<>>
    BY <1>8, <1>12 DEF Refuse
  <2>3. DOMAIN W = 1..Len(W)
    BY <1>4, LenProperties
  <2>4. CASE r.out = "InvalidName"
    <3>1. T.kind # "Comment" /\ ~Fitting(kind, T.name)
      BY <1>5, <2>1, <2>4 DEF Refusal
    <3>2. ~AllFit(kind, W)
      BY <1>6, <1>9, <2>3, <3>1 DEF AllFit, Fitting
    <3>3. QED
      BY <2>2, <3>2 DEF Takes, W, kind
  <2>5. CASE r.out # "InvalidName"
    <3>1. p = "ThrowException" /\ \E j \in 1..Len(trees) : Collide(kind, trees[j], T)
      BY <1>5, <2>1, <2>5 DEF Refusal
    <3>2. PICK j \in 1..Len(trees) : Collide(kind, trees[j], T)
      BY <3>1
    <3>3. j \in 1..m /\ trees[j] = W[j]
      BY <1>7 DEF Begins
    <3>4. j \in DOMAIN W /\ i \in DOMAIN W /\ j # i /\ Collide(kind, W[j], W[i])
      BY <1>6, <1>9, <2>3, <3>2, <3>3
    <3>5. ~NoneCollide(kind, W)
      BY <3>4 DEF NoneCollide
    <3>6. QED
      BY <2>2, <3>1, <3>5 DEF Takes, W, kind
  <2>6. QED
    BY <2>4, <2>5
<1>13. CASE r.out \notin AddErrors
  <2>1. /\ Holds(r.heap, t, U, 0, p)
        /\ T.kind = "Comment" \/ Fitting(h[t].kind, T.name)
        /\ heap' = Settled(r.heap, Locals(fs))
        /\ frames' = Append(Front(fs), f1)
        /\ UNCHANGED <<policy, file, damage, phase, ret>>
    BY <1>8, <1>11, <1>13 DEF Refusal
  <2>2. /\ Locals(fs) \in SUBSET Ids /\ \A q \in Locals(fs) : h[q] # Null
        /\ \A k \in 1..Len(fs) : /\ fs[k].at \in Locals(fs) \cup {Loaded}
                                 /\ fs[k].at \in Addresses /\ h[fs[k].at] # Null
    BY LocalsHeld
  <2>3. \A q \in Locals(fs) : r.heap[q] # Null
    BY <1>11, <2>2 DEF Addresses
  <2>4. /\ Sound(heap')
        /\ \A q \in Locals(fs) : heap'[q] # Null
        /\ \A z \in Addresses : heap'[z] # Null =>
              heap'[z] = r.heap[z] /\ TreesIn(heap', z) = TreesIn(r.heap, z)
    BY <1>11, <2>1, <2>2, <2>3, SettledTrees
  <2>5. \A k \in 1..Len(fs) : heap'[fs[k].at] # Null
    BY <1>10, <2>2, <2>4 DEF Sound, WellTyped
  <2>6. \A z \in Addresses : h[z] # Null =>
           /\ r.heap[z].name = h[z].name /\ r.heap[z].val = h[z].val
           /\ z # x => r.heap[z].policy = h[z].policy
    BY <1>1, <1>3, <1>9, AddKeepsLooks
  <2>7. \A z \in Addresses :
           /\ h[z] # Null => r.heap[z].kind = h[z].kind
           /\ z # x => Holding(r.heap, z) \subseteq Holding(h, z)
    BY <1>1, <1>3, <1>9, AddToKeeps DEF AnyPolicy
  <2>8. \A z \in Addresses : Holding(heap', z) \subseteq Holding(r.heap, z)
    BY <2>4 DEF Holding, Kids
  <2>9. ASSUME NEW k \in 1..Len(fs)
        PROVE  Keeps(heap', h, fs[k].at)
    <3> DEFINE a == fs[k].at
    <3>1. /\ a \in Addresses /\ h[a] # Null /\ a # x
          /\ heap'[a] # Null /\ heap'[a] = r.heap[a]
      BY <2>2, <2>4, <2>5
    <3> HIDE DEF a
    <3>2. Keeps(heap', h, a)
      BY <2>6, <2>7, <2>8, <3>1 DEF Keeps
    <3>3. QED
      BY <3>2 DEF a
  <2>10. ASSUME NEW k \in 1..(Len(fs) - 1)
         PROVE  TreesIn(heap', fs[k].at) = TreesIn(h, fs[k].at)
    <3>1. k \in 1..Len(fs) /\ k # Len(fs)
      BY <1>2
    <3>2. fs[k].at \in Addresses /\ h[fs[k].at] # Null /\ fs[k].at # t
      BY <1>3, <2>2, <3>1
    <3>3. heap'[fs[k].at] # Null
      BY <2>5, <3>1
    <3>4. QED
      BY <1>11, <2>4, <3>2, <3>3
  <2>11. Filled(heap', o, f1, y, p)
    <3>1. f1.at = t /\ f1.left = f.left - 1
      BY DEF t
    <3>2. Keeps(heap', h, t) /\ heap'[t] # Null /\ TreesIn(heap', t) = TreesIn(r.heap, t)
      BY <1>2, <1>3, <2>4, <2>5, <2>9 DEF t
    <3>3. Holds(heap', t, U, 0, p)
      BY <1>11, <2>1, <3>2 DEF Holds, Keeps
    <3>4. Begins(U, W, m + 1)
      <4>1. PICK S : trees \in Seq(S) /\ T \in S /\ U \in Seq(S)
        <5>1. \E S : trees \in Seq(S)
          BY <1>7 DEF Begins
        <5>2. QED
          BY <5>1, OneMore
      <4>2. Len(trees) = m /\ \A j \in 1..m : trees[j] = W[j]
        BY <1>7 DEF Begins
      <4>3. Len(U) = m + 1 /\ U[m + 1] = T /\ \A j \in 1..m : U[j] = trees[j]
        BY <4>1, <4>2, AppendKeeps
      <4>4. \A j \in 1..(m + 1) : U[j] = W[j]
        BY <1>6, <1>9, <4>2, <4>3
      <4> HIDE DEF U
      <4>5. QED
        BY <4>1, <4>3, <4>4 DEF Begins
    <3>5. Admitted(kind, W[i])
      BY <1>5, <1>9, <2>1 DEF Admitted
    <3>6. \A j \in 1..(m + 1) : Admitted(kind, W[j]) /\ Restores(o, o[y].kids[j])
      BY <1>5, <1>6, <3>5
    <3>7. /\ heap'[t].kind = kind /\ heap'[t].policy = p /\ Holding(heap', t) = {}
          /\ f1.left <= Len(o[y].kids)
      BY <1>2, <1>4, <1>5, <3>1, <3>2 DEF Keeps
    <3> HIDE DEF U
    <3>8. QED
      BY <1>6, <3>1, <3>3, <3>4, <3>6, <3>7 DEF Filled, W, kind
  <2>12. QED
    BY <2>1, <2>4, <2>9, <2>10, <2>11
<1>14. QED
  BY <1>12, <1>13

-----------------------------------------------------------------------------
(* The document that the client makes *)

\* A container has no payload, what is none has one.
Shaped(h) ==
    \A x \in Ids : h[x] # Null =>
        IF h[x].kind \in ContainerKinds THEN h[x].val = NoVal ELSE h[x].val \in Vals

Proper(h) == Sound(h) /\ Shaped(h)

\* A heap stays without cycles when containers are given an item without items.
LEMMA AcyclicLeaf ==
    ASSUME NEW h, Acyclic(h), NEW g, WellTyped(g), NEW x \in Ids, Kids(g, x) = {},
           \A y \in Ids : g[y] # Null /\ y # x =>
              h[y] # Null /\ Kids(g, y) \subseteq Kids(h, y) \cup {x}
    PROVE  Acyclic(g)
<1>1. PICK r : Descends(h, r)
  BY DEF Acyclic
<1>2. r \in [Ids -> Nat]
  BY <1>1 DEF Descends
<1> DEFINE s == [z \in Ids |-> IF z = x THEN 0 ELSE r[z] + 1]
<1>3. s \in [Ids -> Nat]
  BY <1>2
<1>4. ASSUME NEW y \in Ids, g[y] # Null, NEW z \in Kids(g, y)
      PROVE  s[z] < s[y]
  <2>1. y # x /\ z \in Ids
    BY <1>4, KidsAreIds DEF Addresses
  <2>2. CASE z = x
    BY <1>2, <2>1, <2>2
  <2>3. CASE z # x
    <3>1. h[y] # Null /\ z \in Kids(h, y)
      BY <1>4, <2>1, <2>3
    <3>2. r[z] < r[y] /\ r[z] \in Nat /\ r[y] \in Nat
      BY <1>1, <1>2, <2>1, <3>1 DEF Descends
    <3>3. s[z] = r[z] + 1 /\ s[y] = r[y] + 1
      BY <2>1, <2>3
    <3>4. QED
      BY <3>2, <3>3
  <2>4. QED
    BY <2>2, <2>3
<1> HIDE DEF s
<1>5. Descends(g, s)
  BY <1>3, <1>4 DEF Descends
<1>6. QED
  BY <1>5 DEF Acyclic

\* An Add changes the container and the item, and no other.
LEMMA AddElse ==
    ASSUME NEW h, WellTyped(h), Closed(h), NEW t \in Addresses, IsContainer(h, t),
           NEW x \in Ids, h[x] # Null, x # t, NEW p \in AnyPolicy,
           NEW r, r = AddTo(h, t, x, p)
    PROVE  /\ \A y \in Addresses : y # t /\ y # x => r.heap[y] = h[y]
           /\ Kids(r.heap, x) = Kids(h, x)
           /\ Kids(r.heap, t) \subseteq Kids(h, t) \cup {x}
<1> DEFINE g == Offered(h, x, p)
<1>1. /\ WellTyped(g) /\ Closed(g) /\ g[x] # Null /\ g[x].kids = h[x].kids
      /\ \A y \in Addresses \ {x} : g[y] = h[y]
  BY OfferedKeeps DEF Addresses
<1>2. r.heap = g \/ Enlarged(g, t, x, r.heap)
  BY AddToOutcome
<1> HIDE DEF g
<1>3. /\ Kids(g, x) = Kids(h, x) /\ Kids(g, t) = Kids(h, t)
  BY <1>1 DEF Kids
<1>4. CASE r.heap = g
  BY <1>1, <1>3, <1>4
<1>5. CASE Enlarged(g, t, x, r.heap)
  <2>1. IsContainer(g, t)
    BY <1>1 DEF IsContainer, WellTyped
  <2>2. /\ Kids(r.heap, t) \subseteq Kids(g, t) \cup {x}
        /\ \A y \in Addresses \ {t} : r.heap[y] = g[y]
    BY <1>1, <1>5, <2>1, EnlargedKids
  <2>3. Kids(r.heap, x) = Kids(g, x)
    BY <2>2 DEF Kids, Addresses
  <2>4. QED
    BY <1>1, <1>3, <2>2, <2>3
<1>6. QED
  BY <1>2, <1>4, <1>5

LEMMA SettledProper ==
    ASSUME NEW h, Proper(h), NEW g, NEW none, none = {}, g = Settled(h, none)
    PROVE  Proper(g)
<1>1. Sound(h) /\ none \in SUBSET Ids /\ \A q \in none : h[q] # Null
  BY DEF Proper
<1>2. Sound(g) /\ \A x \in Addresses : g[x] # Null => g[x] = h[x]
  BY <1>1, SettledTrees
<1>3. QED
  BY <1>2 DEF Proper, Shaped, Addresses

LEMMA ProperTouch ==
    ASSUME NEW h, Proper(h), NEW x \in Addresses, h[x] # Null, NEW item \in Item,
           item.kind = h[x].kind, item.kids = h[x].kids,
           item.val = h[x].val \/ (h[x].kind \notin ContainerKinds /\ item.val \in Vals),
           NEW g, Puts(h, x, item, g)
    PROVE  Proper(g)
<1>1. WellTyped(h) /\ Closed(h) /\ Acyclic(h) /\ Shaped(h)
  BY DEF Proper, Sound
<1>2. /\ x \in Configs => item.kind = "Group"
      /\ item.kids # <<>> => item.kind \in ContainerKinds
  BY <1>1 DEF WellTyped
<1>3. \A k \in 1..Len(item.kids) : h[item.kids[k]] # Null
  <2>1. Kids(h, x) \subseteq Ids /\ Kids(h, x) = {item.kids[k] : k \in 1..Len(item.kids)}
    BY <1>1, ItemFields
  <2>2. QED
    BY <1>1, <2>1 DEF Closed, Addresses
<1>4. /\ WellTyped(g) /\ Closed(g) /\ g[x] = item /\ g[x] # Null
      /\ \A y \in Addresses \ {x} : g[y] = h[y]
  BY <1>1, <1>2, <1>3, PutItem
<1>5. \A y \in Ids : Kids(g, y) = Kids(h, y)
  BY <1>4 DEF Kids, Addresses
<1>6. Acyclic(g)
  <2>1. \A y \in Ids : g[y] # Null => h[y] # Null
    BY <1>4 DEF Addresses
  <2>2. QED
    BY <1>1, <1>5, <2>1, AcyclicLess
<1>7. ASSUME NEW y \in Ids, g[y] # Null
      PROVE  IF g[y].kind \in ContainerKinds THEN g[y].val = NoVal ELSE g[y].val \in Vals
  <2>1. CASE y = x
    BY <1>1, <1>4, <2>1 DEF Shaped
  <2>2. CASE y # x
    <3>1. g[y] = h[y]
      BY <1>4, <2>2 DEF Addresses
    <3>2. QED
      BY <1>1, <1>7, <3>1 DEF Shaped
  <2>3. QED
    BY <2>1, <2>2
<1>8. Shaped(g)
  BY <1>7 DEF Shaped
<1>9. QED
  BY <1>4, <1>6, <1>8 DEF Proper, Sound

LEMMA AddNewProper ==
    ASSUME Proper(heap), NEW t, NEW kind \in Kinds, NEW name \in AnyName,
           NEW v \in Vals \cup {NoVal},
           IF kind \in ContainerKinds THEN v = NoVal ELSE v \in Vals,
           NEW p \in Policies, AddNew(t, kind, name, v, p)
    PROVE  Proper(heap')
<1> DEFINE x == Fresh
           g == [heap EXCEPT ![x] = NewItem(kind, name, v)]
           r == AddTo(g, t, x, p)
           none == {}
<1>1. /\ t \in Ids \cup {Source} /\ IsContainer(heap, t) /\ Free # {}
      /\ heap' = Settled(r.heap, none)
  BY DEF AddNew
<1>2. x \in Ids /\ heap[x] = Null
  BY <1>1, FreshIsFree
<1>3. Puts(heap, x, NewItem(kind, name, v), g)
  BY DEF Puts
<1>4. t \in Addresses /\ t # x /\ x \in Addresses
  BY <1>1, <1>2, FileAssumption DEF Addresses, IsContainer
<1>5. r = AddTo(g, t, x, p)
  OBVIOUS
<1> HIDE DEF x, g, r
<1>6. Sound(heap) /\ Shaped(heap)
  BY DEF Proper
<1>7. /\ Sound(g) /\ g[x] # Null /\ g[x].kind = kind /\ g[x].val = v
      /\ TreesIn(g, x) = <<>>
      /\ \A y \in Addresses : heap[y] # Null => y # x /\ g[y] = heap[y]
  BY <1>2, <1>3, <1>6, FreshTrees
<1>8. WellTyped(g) /\ Closed(g) /\ Acyclic(g)
  BY <1>7 DEF Sound
<1>9. \A y \in Addresses : g[y] # Null /\ y # x => heap[y] # Null
  BY <1>3, <1>6 DEF Puts, Sound, WellTyped
<1>10. IsContainer(g, t)
  <2>1. g[t] = heap[t] /\ DOMAIN g = Addresses
    BY <1>1, <1>4, <1>7, <1>8 DEF IsContainer, WellTyped
  <2>2. QED
    BY <1>1, <1>4, <2>1 DEF IsContainer
<1>11. Kids(g, x) = {}
  <2>1. g[x].kids = <<>>
    BY <1>3, <1>4, <1>6 DEF Puts, NewItem, Sound, WellTyped
  <2>2. QED
    BY <2>1, EmptySeq DEF Kids, ToSet
<1>12. /\ WellTyped(r.heap) /\ Closed(r.heap)
       /\ \A y \in Addresses : g[y] # Null => r.heap[y] # Null
  BY <1>2, <1>4, <1>5, <1>7, <1>8, <1>10, AddToSound DEF AnyPolicy
<1>13. /\ \A y \in Addresses : y # t /\ y # x => r.heap[y] = g[y]
       /\ Kids(r.heap, x) = Kids(g, x)
       /\ Kids(r.heap, t) \subseteq Kids(g, t) \cup {x}
  BY <1>2, <1>4, <1>5, <1>7, <1>8, <1>10, AddElse DEF AnyPolicy
<1>14. \A y \in Addresses : r.heap[y] # Null => g[y] # Null
  BY <1>7, <1>10, <1>13 DEF IsContainer
<1>15. \A y \in Ids : r.heap[y] # Null /\ y # x =>
          g[y] # Null /\ Kids(r.heap, y) \subseteq Kids(g, y) \cup {x}
  BY <1>13, <1>14 DEF Kids, Addresses
<1>16. Acyclic(r.heap)
  BY <1>2, <1>8, <1>11, <1>12, <1>13, <1>15, AcyclicLeaf
<1>17. \A y \in Addresses : g[y] # Null =>
          r.heap[y].kind = g[y].kind /\ r.heap[y].val = g[y].val
  <2>1. \A y \in Addresses : g[y] # Null => r.heap[y].val = g[y].val
    BY <1>2, <1>4, <1>5, <1>7, <1>8, <1>10, AddKeepsLooks
  <2> DEFINE rh == r.heap
  <2>2. rh = AddTo(g, t, x, p).heap
    BY <1>5
  <2> HIDE DEF rh
  <2>3. \A y \in Addresses : g[y] # Null => rh[y].kind = g[y].kind
    BY <1>2, <1>4, <1>7, <1>8, <1>10, <2>2, AddToKeeps DEF AnyPolicy
  <2>4. QED
    BY <2>1, <2>3 DEF rh
<1>18. Shaped(g)
  <2>1. ASSUME NEW y \in Ids, g[y] # Null
        PROVE  IF g[y].kind \in ContainerKinds THEN g[y].val = NoVal ELSE g[y].val \in Vals
    <3>1. CASE y = x
      BY <1>7, <3>1
    <3>2. CASE y # x
      <4>1. heap[y] # Null /\ g[y] = heap[y]
        BY <1>7, <1>9, <2>1, <3>2 DEF Addresses
      <4>2. QED
        BY <1>6, <4>1 DEF Shaped
    <3>3. QED
      BY <3>1, <3>2
  <2>2. QED
    BY <2>1 DEF Shaped
<1>19. Shaped(r.heap)
  <2>1. \A y \in Ids : y \in Addresses
    BY DEF Addresses
  <2>2. QED
    BY <1>14, <1>17, <1>18, <2>1 DEF Shaped
<1>20. Proper(r.heap)
  BY <1>12, <1>16, <1>19 DEF Proper, Sound
<1>21. none = {}
  OBVIOUS
<1> HIDE DEF none
<1>22. QED
  BY <1>1, <1>20, <1>21, SettledProper

LEMMA RemoveAtIndexProper ==
    ASSUME Proper(heap), NEW t, NEW k, RemoveAtIndex(t, k)
    PROVE  Proper(heap')
<1> DEFINE kids == heap[t].kids
           g    == [heap EXCEPT ![t].kids = RemoveAt(kids, k)]
           none == {}
<1>1. /\ t \in Ids \cup {Source} /\ IsContainer(heap, t) /\ k \in DOMAIN kids
      /\ heap' = Settled(g, none)
  BY DEF RemoveAtIndex
<1>2. WellTyped(heap) /\ Closed(heap) /\ Acyclic(heap) /\ Shaped(heap) /\ t \in Addresses
  BY <1>1, FileAssumption DEF Proper, Sound, Addresses
<1>3. heap[t] # Null /\ kids \in Seq(Ids) /\ heap[t].kind \in ContainerKinds
  BY <1>1, <1>2, ItemFields DEF IsContainer
<1>4. k \in 1..Len(kids)
  BY <1>1, <1>3, LenProperties
<1>5. PutsKids(heap, t, RemoveAt(heap[t].kids, k), g)
  BY DEF PutsKids
<1>6. /\ RemoveAt(kids, k) \in Seq(Ids)
      /\ ToSet(RemoveAt(heap[t].kids, k)) \subseteq Kids(heap, t)
  BY <1>2, <1>3, <1>4, RemoveAtIsErase, ErasedKids
<1> HIDE DEF g
<1>7. WellTyped(g) /\ Closed(g)
  BY <1>1, <1>2, <1>4, <1>5, EraseSound
<1>8. \A y \in Addresses : y # t => g[y] = heap[y]
  BY <1>2, <1>5 DEF PutsKids, WellTyped
<1>9. g[t] = [heap[t] EXCEPT !.kids = RemoveAt(kids, k)]
  BY <1>2, <1>5 DEF PutsKids, WellTyped
<1>10. heap[t] \in Item
  BY <1>2, <1>3, ItemFields
<1>11. g[t].kids = RemoveAt(kids, k) /\ g[t].kind = heap[t].kind /\ g[t].val = heap[t].val
  BY <1>9, <1>10 DEF Item
<1>12. \A y \in Ids : g[y] # Null => heap[y] # Null /\ Kids(g, y) \subseteq Kids(heap, y)
  BY <1>3, <1>6, <1>8, <1>11 DEF Kids, Addresses
<1>13. Acyclic(g)
  BY <1>2, <1>12, AcyclicLess
<1>14. Shaped(g)
  BY <1>2, <1>3, <1>8, <1>11 DEF Shaped, Addresses
<1>15. Proper(g) /\ none = {}
  BY <1>7, <1>13, <1>14 DEF Proper, Sound
<1> HIDE DEF none
<1>16. QED
  BY <1>1, <1>15, SettledProper

LEMMA EditProper ==
    ASSUME Proper(heap), Edit
    PROVE  Proper(heap')
<1>1. WellTyped(heap) /\ Shaped(heap) /\ UsedPolicies \subseteq Policies
  BY FileAssumption DEF Proper, Sound
<1>2. ASSUME NEW t \in Addresses, NEW p \in UsedPolicies, NEW name \in AnyName,
             NEW v \in Vals, NEW kind \in UsedKinds \ ContainerKinds,
             AddNew(t, kind, name, v, p)
      PROVE  Proper(heap')
  BY <1>1, <1>2, AddNewProper, FileAssumption
<1>3. ASSUME NEW t \in Addresses, NEW p \in UsedPolicies, NEW name \in AnyName,
             NEW kind \in UsedKinds \cap ContainerKinds, AddNew(t, kind, name, NoVal, p)
      PROVE  Proper(heap')
  BY <1>1, <1>3, AddNewProper, FileAssumption
<1>4. ASSUME NEW x \in Ids, NEW name \in AnyName, Rename(x, name)
      PROVE  Proper(heap')
  <2> DEFINE item == [heap[x] EXCEPT !.name = name]
  <2>1. heap[x] # Null /\ heap[x] \in Item /\ x \in Addresses
    BY <1>1, <1>4, ItemFields DEF Rename, Live, Addresses
  <2>2. /\ item \in Item /\ item.kind = heap[x].kind /\ item.kids = heap[x].kids
        /\ item.val = heap[x].val
    BY <2>1 DEF Item
  <2>3. Puts(heap, x, item, heap')
    BY <1>1, <1>4 DEF Rename, Puts
  <2> HIDE DEF item
  <2>4. QED
    BY <2>1, <2>2, <2>3, ProperTouch
<1>5. ASSUME NEW x \in Ids, NEW v \in Vals, Assign(x, v)
      PROVE  Proper(heap')
  <2> DEFINE item == [heap[x] EXCEPT !.val = v]
  <2>1. heap[x] # Null /\ heap[x] \in Item /\ x \in Addresses /\ heap[x].kind = "Value"
    BY <1>1, <1>5, ItemFields DEF Assign, Live, Addresses
  <2>2. /\ item \in Item /\ item.kind = heap[x].kind /\ item.kids = heap[x].kids
        /\ item.val \in Vals
    BY <2>1 DEF Item
  <2>3. Puts(heap, x, item, heap') /\ heap[x].kind \notin ContainerKinds
    BY <1>1, <1>5, <2>1 DEF Assign, Puts, ContainerKinds
  <2> HIDE DEF item
  <2>4. QED
    BY <2>1, <2>2, <2>3, ProperTouch
<1>6. ASSUME NEW p \in UsedPolicies, OnExistingAction(p)
      PROVE  Proper(heap')
  <2> DEFINE item == [heap[Source] EXCEPT !.policy = p]
  <2>1. heap[Source] # Null /\ heap[Source] \in Item /\ Source \in Addresses
    BY <1>1, FileAssumption, ItemFields DEF WellTyped, Addresses
  <2>2. /\ item \in Item /\ item.kind = heap[Source].kind /\ item.kids = heap[Source].kids
        /\ item.val = heap[Source].val
    BY <1>1, <2>1 DEF Item, AnyPolicy
  <2>3. Puts(heap, Source, item, heap')
    BY <1>1, <1>6 DEF OnExistingAction, Puts
  <2> HIDE DEF item
  <2>4. QED
    BY <2>1, <2>2, <2>3, ProperTouch
<1>7. ASSUME NEW t \in Addresses, NEW k \in 1..MaxKids, RemoveAtIndex(t, k)
      PROVE  Proper(heap')
  BY <1>7, RemoveAtIndexProper
<1>8. QED
  BY <1>2, <1>3, <1>4, <1>5, <1>6, <1>7 DEF Edit

-----------------------------------------------------------------------------
(* A load leaves the document that was saved alone *)

\* Its addresses; that h has it as o does; that no activation fills any of it.
Part(o) == {Source} \cup Reach(o, Kids(o, Source))

Intact(o, h) == \A x \in Part(o) : h[x] = o[x]

Apart(o, fs) == \A k \in 1..Len(fs) : fs[k].at \notin Part(o)

LEMMA PartClosed ==
    ASSUME NEW o, WellTyped(o), Closed(o)
    PROVE  /\ Part(o) \subseteq Addresses /\ Source \in Part(o) /\ Loaded \notin Part(o)
           /\ Reach(o, Kids(o, Source)) \subseteq Ids /\ Kids(o, Source) \subseteq Ids
           /\ \A x \in Part(o) : o[x] # Null /\ Kids(o, x) \subseteq Reach(o, Kids(o, Source))
<1> DEFINE R == Kids(o, Source)
           live == Reach(o, R)
           alive == {y \in Ids : o[y] # Null}
<1>1. /\ Source \in Configs /\ Loaded \in Configs /\ Source # Loaded
      /\ Source \in Addresses /\ Configs \cap Ids = {}
  BY FileAssumption, AddressesAssumption DEF Addresses
<1>2. R \in SUBSET Ids
  BY <1>1, KidsAreIds
<1>3. R \subseteq alive /\ \A y \in alive : Kids(o, y) \subseteq alive
  BY <1>1, <1>2, KidsAreIds DEF Closed, Addresses
<1>4. alive \in SUBSET Ids
  OBVIOUS
<1> HIDE DEF R, alive
<1>5. /\ R \subseteq live /\ live \subseteq Ids
      /\ \A y \in live : Kids(o, y) \subseteq live
  BY <1>2, ReachClosed
<1>6. live \subseteq alive
  BY <1>2, <1>3, <1>4, Outside
<1> HIDE DEF live
<1>7. Part(o) = {Source} \cup live
  BY DEF Part, live, R
<1>8. \A x \in Part(o) : o[x] # Null /\ Kids(o, x) \subseteq live
  <2>1. o[Source] # Null /\ Kids(o, Source) \subseteq live
    BY <1>1, <1>5 DEF WellTyped, R
  <2>2. QED
    BY <1>5, <1>6, <1>7, <2>1 DEF alive
<1>9. Part(o) \subseteq Addresses /\ Source \in Part(o) /\ Loaded \notin Part(o)
  BY <1>1, <1>5, <1>7 DEF Addresses
<1>10. QED
  BY <1>2, <1>5, <1>8, <1>9 DEF live, R

LEMMA IntactReach ==
    ASSUME NEW o, WellTyped(o), Closed(o), NEW h, WellTyped(h), Intact(o, h)
    PROVE  /\ Kids(h, Source) = Kids(o, Source)
           /\ Reach(h, Kids(h, Source)) = Reach(o, Kids(o, Source))
<1>1. /\ Source \in Part(o) /\ Kids(o, Source) \in SUBSET Ids
  BY PartClosed
<1>2. Kids(h, Source) = Kids(o, Source)
  BY <1>1 DEF Intact, Kids
<1>3. \A x \in Reach(o, Kids(o, Source)) : Kids(h, x) = Kids(o, x)
  BY DEF Intact, Kids, Part
<1>4. Reach(h, Kids(o, Source)) = Reach(o, Kids(o, Source))
  BY <1>1, <1>3, ReachSame
<1>5. QED
  BY <1>2, <1>4

LEMMA IntactSettled ==
    ASSUME NEW o, WellTyped(o), Closed(o), NEW h, WellTyped(h), Intact(o, h),
           NEW held \in SUBSET Ids, NEW g, g = Settled(h, held)
    PROVE  Intact(o, g)
<1> DEFINE U == (UNION {Kids(h, c) : c \in Configs}) \cup held
           live == Reach(h, U)
           R == Kids(h, Source)
<1>1. Source \in Configs /\ Source \in Addresses
  BY FileAssumption DEF Addresses
<1>2. U \in SUBSET Ids /\ R \subseteq U
  BY <1>1, KidsAreIds DEF Addresses
<1>3. g = [x \in Addresses |-> IF x \in Configs \cup live THEN h[x] ELSE Null]
  BY DEF Settled
<1> HIDE DEF U, R
<1>4. U \subseteq live /\ live \in SUBSET Ids /\ \A y \in live : Kids(h, y) \subseteq live
  BY <1>2, ReachClosed
<1> HIDE DEF live
<1>5. R \subseteq live
  BY <1>2, <1>4
<1>6. Reach(h, R) \subseteq live
  BY <1>4, <1>5, Outside
<1>7. Part(o) \subseteq {Source} \cup live /\ Part(o) \subseteq Addresses
  BY <1>6, IntactReach, PartClosed DEF R, Part
<1>8. QED
  BY <1>1, <1>3, <1>7 DEF Intact

\* What is left when the Config being loaded is cleared is the document.
LEMMA ClearedIntact ==
    ASSUME FileSound, NEW o, Proper(o), Intact(o, heap),
           NEW g, g = Settled([heap EXCEPT ![Loaded] = EmptyRoot], {})
    PROVE  Intact(o, g) /\ Proper(g)
<1> DEFINE f    == [heap EXCEPT ![Loaded] = EmptyRoot]
           none == {}
           R    == Kids(f, Source)
           empty == <<>>
<1>1. /\ WellTyped(heap) /\ Closed(heap) /\ g = Settled(f, none)
      /\ \A c \in Configs \ {Source, Loaded} : Kids(heap, c) = {}
      /\ WellTyped(o) /\ Closed(o) /\ Acyclic(o) /\ Shaped(o)
  BY DEF FileSound, Good, Control, Proper, Sound
<1>2. /\ EmptyRoot \in Item /\ EmptyRoot.kind = "Group" /\ EmptyRoot.kids = empty
      /\ EmptyRoot.kind \in ContainerKinds
  BY EmptySeq DEF EmptyRoot, NewItem, Item, Kinds, ContainerKinds, AnyPolicy, Policies, AnyName
<1>3. Len(empty) = 0 /\ ToSet(empty) = {}
  BY EmptySeq DEF ToSet
<1>4. Puts(heap, Loaded, EmptyRoot, f)
  BY DEF Puts
<1> HIDE DEF f, empty
<1>5. /\ Loaded \in Addresses /\ Source \in Addresses /\ Source # Loaded
      /\ \A k \in 1..Len(EmptyRoot.kids) : heap[EmptyRoot.kids[k]] # Null
  BY <1>2, <1>3, FileAssumption DEF Addresses
<1>6. /\ WellTyped(f) /\ Closed(f) /\ f[Loaded] = EmptyRoot
      /\ \A y \in Addresses \ {Loaded} : f[y] = heap[y]
  BY <1>1, <1>2, <1>4, <1>5, PutItem
<1>7. Intact(o, f)
  BY <1>1, <1>6, PartClosed DEF Intact
<1>8. none \in SUBSET Ids /\ \A q \in none : f[q] # Null
  OBVIOUS
<1>9. (UNION {Kids(f, c) : c \in Configs}) \cup none = R
  <2>1. \A c \in Configs \ {Source} : Kids(f, c) = {}
    BY <1>1, <1>2, <1>3, <1>6 DEF Kids, Addresses
  <2>2. QED
    BY <2>1, FileAssumption DEF R
<1>10. g = [x \in Addresses |-> IF x \in Configs \cup Reach(f, R) THEN f[x] ELSE Null]
  BY <1>1, <1>9 DEF Settled
<1> HIDE DEF none
<1>11. Intact(o, g)
  BY <1>1, <1>6, <1>7, <1>8, IntactSettled
<1>12. WellTyped(g) /\ Closed(g)
  BY <1>1, <1>6, <1>8, SettledKeeps
<1>13. \A x \in Ids : g[x] # Null => g[x] = o[x]
  <2>1. Reach(f, R) = Reach(o, Kids(o, Source))
    BY <1>1, <1>6, <1>7, IntactReach DEF R
  <2>2. \A x \in Ids : g[x] # Null => x \in Part(o)
    BY <1>10, <2>1, AddressesAssumption DEF Part, Addresses
  <2>3. QED
    BY <1>11, <2>2 DEF Intact
<1>14. \A x \in Ids : g[x] # Null => o[x] # Null /\ Kids(g, x) \subseteq Kids(o, x)
  BY <1>13 DEF Kids
<1>15. Acyclic(g)
  BY <1>1, <1>14, AcyclicLess
<1>16. Shaped(g)
  BY <1>1, <1>13 DEF Shaped
<1>17. QED
  BY <1>11, <1>12, <1>15, <1>16 DEF Proper, Sound

LEMMA RefusedIntact ==
    ASSUME FileSound, NEW o, Proper(o), Intact(o, heap), Refuse
    PROVE  Intact(o, heap') /\ Apart(o, frames')
<1> DEFINE empty == <<>>
<1>1. Intact(o, heap')
  BY ClearedIntact DEF Refuse
<1>2. frames' = empty /\ Len(empty) = 0
  BY EmptySeq DEF Refuse
<1> HIDE DEF empty
<1>3. QED
  BY <1>1, <1>2 DEF Apart

LEMMA DeliverIntact ==
    ASSUME FileSound, NEW o, Proper(o), Intact(o, heap),
           NEW h, WellTyped(h), Closed(h), Intact(o, h),
           NEW fs, Stacked(h, fs), fs # <<>>, Apart(o, fs), Last(fs).left > 0,
           NEW x \in Ids, h[x] # Null, x \notin Part(o), x # Last(fs).at,
           Deliver(h, x, fs)
    PROVE  Intact(o, heap') /\ Apart(o, frames')
<1> DEFINE t == Last(fs).at
           p == h[t].policy
           r == AddTo(h, t, x, p)
           f == [at |-> t, left |-> Last(fs).left - 1]
           gs == Append(Front(fs), f)
           held == Locals(fs)
<1>1. \/ r.out \in AddErrors /\ Refuse
      \/ heap' = Settled(r.heap, held) /\ frames' = gs
  BY DEF Deliver
<1>2. fs \in Seq(Opening) /\ \A k \in 1..Len(fs) : IsContainer(h, fs[k].at)
  BY DEF Stacked
<1>3. /\ Len(fs) \in Nat /\ Len(fs) \in 1..Len(fs) /\ Last(fs) = fs[Len(fs)]
      /\ Last(fs) \in Opening /\ Front(fs) \in Seq(Opening) /\ Len(Front(fs)) = Len(fs) - 1
      /\ \A k \in 1..(Len(fs) - 1) : Front(fs)[k] = fs[k]
  BY <1>2, FrontAndLast
<1>4. t \in Addresses /\ IsContainer(h, t) /\ h[t] # Null /\ t \notin Part(o)
  BY <1>2, <1>3 DEF Opening, IsContainer, Apart
<1>5. p \in AnyPolicy
  BY <1>4, ItemFields
<1>6. held \in SUBSET Ids
  BY LocalsHeld
<1>7. r = AddTo(h, t, x, p)
  OBVIOUS
<1>8. f \in Opening /\ f.at = t
  BY <1>3 DEF Opening
<1> HIDE DEF p, r, held, f
<1>9. Apart(o, gs)
  <2>1. /\ Len(gs) = Len(Front(fs)) + 1 /\ gs[Len(Front(fs)) + 1] = f
        /\ \A k \in 1..Len(Front(fs)) : gs[k] = Front(fs)[k]
    BY <1>3, <1>8, AppendKeeps
  <2>2. Len(gs) = Len(fs) /\ gs[Len(fs)] = f /\ \A k \in 1..(Len(fs) - 1) : gs[k] = fs[k]
    BY <1>3, <2>1
  <2> HIDE DEF gs, t
  <2>3. ASSUME NEW k \in 1..Len(gs)
        PROVE  gs[k].at \notin Part(o)
    <3>1. CASE k = Len(fs)
      BY <1>4, <1>8, <2>2, <3>1
    <3>2. CASE k # Len(fs)
      <4>1. k \in 1..(Len(fs) - 1) /\ k \in 1..Len(fs)
        BY <1>3, <2>2, <2>3, <3>2
      <4>2. QED
        BY <2>2, <4>1 DEF Apart
    <3>3. QED
      BY <3>1, <3>2
  <2>4. QED
    BY <2>3 DEF Apart
<1> HIDE DEF t, gs
<1>10. WellTyped(o) /\ Closed(o)
  BY DEF Proper, Sound
<1>11. x # t
  BY DEF t
<1>12. \A y \in Part(o) : r.heap[y] = o[y]
  <2>1. \A y \in Addresses : y # t /\ y # x => r.heap[y] = h[y]
    BY <1>4, <1>5, <1>7, <1>11, AddElse
  <2>2. QED
    BY <1>4, <1>10, <2>1, PartClosed DEF Intact
<1>13. Intact(o, r.heap) /\ WellTyped(r.heap)
  BY <1>4, <1>5, <1>7, <1>12, AddToSound DEF Intact
<1>14. CASE Refuse
  BY <1>14, RefusedIntact
<1>15. CASE heap' = Settled(r.heap, held) /\ frames' = gs
  BY <1>6, <1>9, <1>10, <1>13, <1>15, IntactSettled
<1>16. QED
  BY <1>1, <1>14, <1>15

-----------------------------------------------------------------------------
(* A load of a file that is whole *)

Whole == damage \in {"none", "longer"}

\* The file is that of the document o, with or without something behind it.
FileOf(o) ==
    /\ file[1] = Field("magic", "STBTCF") /\ file[2] = Field("version", 1)
    /\ file[3] = Field("policy", policy[Source])
    /\ Lies(file, 4, Written(o, Source))

\* The policy of the container that activation k fills.
Rule(p, k) == IF k = 1 THEN p ELSE "ThrowException"

\* Activation k reads the container y[k], which is written up to b[k]; all but the
\* innermost are at the item that the next one reads, and go on behind it.
Under(f, p, h, o, fs, y, b) ==
    /\ y[1] = Source
    /\ \A k \in 1..Len(fs) : y[k] \in Part(o) /\ Filled(h, o, fs[k], y[k], Rule(p, k))
    /\ \A k \in 1..(Len(fs) - 1) :
          /\ y[k + 1] = o[y[k]].kids[Done(o, fs[k], y[k]) + 1]
          /\ h[fs[k + 1].at].name = o[y[k + 1]].name /\ h[fs[k + 1].at].val = NoVal
          /\ Laid(f, o, y[k], Done(o, fs[k], y[k]) + 1, b[k + 1], b[k])

\* The innermost is at pos.
Loading(o) ==
    \E y, b :
        /\ Under(file, policy[Source], heap, o, frames, y, b)
        /\ Laid(file, o, y[Len(frames)],
                Done(o, frames[Len(frames)], y[Len(frames)]), pos, b[Len(frames)])

LEMMA UnderTyped ==
    ASSUME NEW o, Sound(o), NEW h, NEW fs, Stacked(h, fs), NEW f, NEW p, NEW y, NEW b,
           Under(f, p, h, o, fs, y, b), NEW k \in 1..Len(fs)
    PROVE  /\ y[k] \in Addresses /\ o[y[k]] # Null /\ y[k] \in Part(o)
           /\ Len(o[y[k]].kids) \in Nat /\ fs[k].left \in Nat
           /\ Done(o, fs[k], y[k]) \in 0..Len(o[y[k]].kids)
           /\ fs[k].left > 0 => Done(o, fs[k], y[k]) + 1 \in 1..Len(o[y[k]].kids)
           /\ k > 1 => y[k] \in Reach(o, Kids(o, Source)) /\ y[k] \in Ids
<1>1. WellTyped(o) /\ Closed(o)
  BY DEF Sound
<1>2. ASSUME NEW j \in 1..Len(fs)
      PROVE  /\ y[j] \in Addresses /\ o[y[j]] # Null /\ y[j] \in Part(o)
             /\ Len(o[y[j]].kids) \in Nat /\ fs[j].left \in Nat
             /\ Done(o, fs[j], y[j]) \in 0..Len(o[y[j]].kids)
             /\ fs[j].left > 0 => Done(o, fs[j], y[j]) + 1 \in 1..Len(o[y[j]].kids)
  <2>1. y[j] \in Part(o) /\ Filled(h, o, fs[j], y[j], Rule(p, j))
    BY DEF Under
  <2>2. y[j] \in Addresses /\ o[y[j]] # Null
    BY <1>1, <2>1, PartClosed
  <2>3. Len(o[y[j]].kids) \in Nat
    BY <1>1, <2>2, TreesInIs
  <2>4. fs[j].left \in Nat
    <3>1. fs \in Seq(Opening)
      BY DEF Stacked
    <3>2. fs[j] \in Opening
      BY <1>2, <3>1, ElementOfSeq
    <3>3. QED
      BY <3>2 DEF Opening
  <2>5. fs[j].left <= Len(o[y[j]].kids)
    BY <2>1 DEF Filled
  <2>6. QED
    BY <2>1, <2>2, <2>3, <2>4, <2>5 DEF Done
<1>3. ASSUME k > 1
      PROVE  y[k] \in Reach(o, Kids(o, Source)) /\ y[k] \in Ids
  <2> DEFINE j == k - 1
             i == Done(o, fs[j], y[j]) + 1
  <2>1. Len(fs) \in Nat
    BY LenProperties DEF Stacked
  <2>2. j \in 1..Len(fs) /\ j \in 1..(Len(fs) - 1) /\ j + 1 = k
    BY <1>3, <2>1
  <2> HIDE DEF j
  <2>3. fs[j].left > 0
    BY <2>2 DEF Stacked
  <2>4. i \in 1..Len(o[y[j]].kids)
    BY <1>2, <2>2, <2>3
  <2>5. y[k] = o[y[j]].kids[i]
    BY <2>2 DEF Under
  <2> HIDE DEF i
  <2>6. y[j] \in Addresses /\ o[y[j]] # Null /\ y[j] \in Part(o)
    BY <1>2, <2>2
  <2>7. y[k] \in Ids /\ y[k] \in Kids(o, y[j])
    BY <1>1, <2>4, <2>5, <2>6, TreesInIs
  <2>8. QED
    BY <1>1, <2>6, <2>7, PartClosed
<1>4. QED
  BY <1>2, <1>3

\* An item refused there is one that keeps the document from being loaded.
LEMMA RefusedForCause ==
    ASSUME NEW o, Sound(o), NEW h, NEW fs, Stacked(h, fs), NEW f, NEW p, NEW y, NEW b,
           Under(f, p, h, o, fs, y, b), NEW k \in 1..Len(fs), ~Takes(o, y[k], Rule(p, k))
    PROVE  ~Loadable(o, p)
<1>1. CASE k = 1
  <2>1. y[k] = Source /\ Rule(p, k) = p
    BY <1>1 DEF Under, Rule
  <2>2. QED
    BY <2>1, LoadableIs
<1>2. CASE k # 1
  <2>1. Rule(p, k) = "ThrowException" /\ k > 1
    BY <1>2 DEF Rule
  <2>2. y[k] \in Reach(o, Kids(o, Source))
    BY <2>1, UnderTyped
  <2>3. QED
    BY <2>1, <2>2, LoadableIs
<1>3. QED
  BY <1>1, <1>2

\* The next item, when it is complete, is delivered to the innermost activation,
\* or nothing can load the document.
LEMMA DeliverLoads ==
    ASSUME FileSound, NEW o, Proper(o), NEW h, Sound(h),
           NEW fs, Stacked(h, fs), fs # <<>>, NEW n, n = Len(fs), fs[n].left > 0,
           NEW p, p = policy[Source], NEW y, NEW b, Under(file, p, h, o, fs, y, b),
           NEW x \in Ids, h[x] # Null, Holding(h, x) = {}, \A k \in 1..n : fs[k].at # x,
           NEW i, i = Done(o, fs[n], y[n]) + 1, Restores(o, o[y[n]].kids[i]),
           Offering(h, x, Rule(p, n)) = Offers(o, y[n], Rule(p, n))[i],
           Laid(file, o, y[n], i, pos', b[n]), Deliver(h, x, fs)
    PROVE  /\ UNCHANGED <<policy, file, damage>>
           /\ \/ /\ phase' = "over" /\ ret' = "DeserializeError"
                 /\ ~Loadable(o, p)
              \/ /\ UNCHANGED phase /\ frames' # <<>>
                 /\ Sound(heap') /\ Loading(o)'
<1> DEFINE f  == fs[n]
           f1 == [at |-> f.at, left |-> f.left - 1]
           q  == Rule(p, n)
           gs == Append(Front(fs), f1)
<1>1. UNCHANGED <<policy, file, damage>>
  BY DEF Deliver, Refuse
<1>2. Sound(o) /\ fs \in Seq(Opening)
  BY DEF Proper, Stacked
<1>3. /\ n \in Nat /\ n \in 1..n /\ Last(fs) = f /\ f \in Opening
      /\ Front(fs) \in Seq(Opening) /\ Len(Front(fs)) = n - 1
      /\ \A k \in 1..(n - 1) : Front(fs)[k] = fs[k]
  BY <1>2, FrontAndLast
<1>4. /\ y[n] \in Addresses /\ o[y[n]] # Null /\ Len(o[y[n]].kids) \in Nat
      /\ f.left \in Nat
  BY <1>2, <1>3, UnderTyped
<1>5. q \in Policies /\ Filled(h, o, f, y[n], q)
  <2>1. policy[Source] \in Policies
    BY FileAssumption DEF FileSound, Control, PoliciesTyped
  <2>2. Filled(h, o, f, y[n], q)
    BY <1>3 DEF Under
  <2>3. QED
    BY <2>1, <2>2 DEF Rule, Policies
<1>6. f1 = [at |-> f.at, left |-> f.left - 1]
  OBVIOUS
<1> HIDE DEF f, f1, q
<1>7. \/ /\ phase' = "over" /\ ret' = "DeserializeError" /\ frames' = <<>>
         /\ ~Takes(o, y[n], q)
      \/ /\ UNCHANGED <<policy, file, damage, phase, ret>>
         /\ frames' = gs
         /\ Sound(heap') /\ Filled(heap', o, f1, y[n], q)
         /\ \A k \in 1..Len(fs) : Keeps(heap', h, fs[k].at)
         /\ \A k \in 1..(Len(fs) - 1) :
               TreesIn(heap', fs[k].at) = TreesIn(h, fs[k].at)
  <2>1. /\ f = Last(fs) /\ f.left > 0 /\ i = Done(o, f, y[n]) + 1
        /\ Offering(h, x, q) = Offers(o, y[n], q)[i]
        /\ \A k \in 1..Len(fs) : fs[k].at # x
    BY <1>3 DEF f, q
  <2>2. QED
    BY <1>2, <1>4, <1>5, <1>6, <2>1, DeliverFills, SMTT(30)
<1>8. CASE phase' = "over" /\ ret' = "DeserializeError" /\ ~Takes(o, y[n], q)
  <2>1. ~Loadable(o, p)
    BY <1>2, <1>3, <1>8, RefusedForCause DEF q
  <2>2. QED
    BY <1>1, <1>8, <2>1
<1>9. CASE /\ UNCHANGED phase /\ frames' = gs
           /\ Sound(heap') /\ Filled(heap', o, f1, y[n], q)
           /\ \A k \in 1..Len(fs) : Keeps(heap', h, fs[k].at)
           /\ \A k \in 1..(Len(fs) - 1) :
                 TreesIn(heap', fs[k].at) = TreesIn(h, fs[k].at)
  <2>1. f1 \in Opening /\ f1.at = f.at /\ f1.left = f.left - 1 /\ f.left > 0
    BY <1>3, <1>4 DEF f1, f, Opening
  <2>2. /\ Len(gs) = n /\ gs[n] = f1 /\ \A k \in 1..(n - 1) : gs[k] = fs[k]
    <3>1. /\ Len(gs) = Len(Front(fs)) + 1 /\ gs[Len(Front(fs)) + 1] = f1
          /\ \A k \in 1..Len(Front(fs)) : gs[k] = Front(fs)[k]
      BY <1>3, <2>1, AppendKeeps
    <3>2. QED
      BY <1>3, <3>1
  <2>3. gs # <<>>
    BY <1>3, <2>2, EmptySeq
  <2> HIDE DEF gs
  <2>4. \A k \in 1..n : gs[k].at = fs[k].at
    <3>1. ASSUME NEW k \in 1..n
          PROVE  gs[k].at = fs[k].at
      <4>1. CASE k = n
        BY <2>1, <2>2, <4>1 DEF f
      <4>2. CASE k # n
        BY <1>3, <2>2, <4>2
      <4>3. QED
        BY <4>1, <4>2
    <3>2. QED
      BY <3>1
  <2>5. Under(file, p, heap', o, gs, y, b)
    <3>1. ASSUME NEW k \in 1..Len(gs)
          PROVE  y[k] \in Part(o) /\ Filled(heap', o, gs[k], y[k], Rule(p, k))
      <4>1. y[k] \in Part(o) /\ Filled(h, o, fs[k], y[k], Rule(p, k)) /\ k \in 1..Len(fs)
        BY <2>2, <3>1 DEF Under
      <4>2. CASE k = n
        BY <1>9, <2>2, <4>1, <4>2 DEF q
      <4>3. CASE k # n
        <5>1. k \in 1..(n - 1) /\ k \in 1..(Len(fs) - 1)
          BY <1>3, <4>1, <4>3
        <5>2. Filled(heap', o, fs[k], y[k], Rule(p, k))
          BY <1>9, <4>1, <5>1, FilledSame
        <5>3. QED
          BY <2>2, <4>1, <5>1, <5>2
      <4>4. QED
        BY <4>2, <4>3
    <3>2. ASSUME NEW k \in 1..(Len(gs) - 1)
          PROVE  /\ y[k + 1] = o[y[k]].kids[Done(o, gs[k], y[k]) + 1]
                 /\ heap'[gs[k + 1].at].name = o[y[k + 1]].name
                 /\ heap'[gs[k + 1].at].val = NoVal
                 /\ Laid(file, o, y[k], Done(o, gs[k], y[k]) + 1, b[k + 1], b[k])
      <4>1. k \in 1..(n - 1) /\ k \in 1..(Len(fs) - 1) /\ k + 1 \in 1..n
        BY <1>3, <2>2, <3>2
      <4>2. gs[k] = fs[k] /\ gs[k + 1].at = fs[k + 1].at
        BY <2>2, <2>4, <4>1
      <4>3. Keeps(heap', h, fs[k + 1].at)
        BY <1>9, <4>1
      <4>4. /\ y[k + 1] = o[y[k]].kids[Done(o, fs[k], y[k]) + 1]
            /\ h[fs[k + 1].at].name = o[y[k + 1]].name /\ h[fs[k + 1].at].val = NoVal
            /\ Laid(file, o, y[k], Done(o, fs[k], y[k]) + 1, b[k + 1], b[k])
        BY <4>1 DEF Under
      <4>5. QED
        BY <4>2, <4>3, <4>4 DEF Keeps
    <3>3. QED
      BY <3>1, <3>2 DEF Under
  <2>6. Done(o, f1, y[n]) = i
    BY <1>4, <2>1 DEF Done, f
  <2>7. Laid(file, o, y[Len(gs)], Done(o, gs[Len(gs)], y[Len(gs)]), pos', b[Len(gs)])
    BY <2>2, <2>6
  <2>8. file' = file /\ policy'[Source] = p /\ frames' = gs
    BY <1>1, <1>9
  <2>9. \E z, c :
           /\ Under(file', policy'[Source], heap', o, frames', z, c)
           /\ Laid(file', o, z[Len(frames')],
                   Done(o, frames'[Len(frames')], z[Len(frames')]), pos', c[Len(frames')])
    BY <2>5, <2>7, <2>8
  <2>10. Loading(o)'
    BY <2>9 DEF Loading
  <2>11. QED
    BY <1>1, <1>9, <2>3, <2>8, <2>10
<1>10. QED
  BY <1>7, <1>8, <1>9

\* The first field of an item that is no container tells which kind it is.
LEMMA LeafType ==
    ASSUME NEW o, Proper(o), NEW d \in Ids, o[d] # Null, o[d].kind \notin ContainerKinds
    PROVE  /\ TypeOf(o[d]) \notin {"Container", "other"} /\ o[d].val \in Vals
           /\ o[d].kind = IF TypeOf(o[d]) = "Comment" THEN "Comment" ELSE "Value"
<1>1. o[d].kind \in Kinds /\ o[d].val \in Vals
  BY ItemFields DEF Proper, Sound, Shaped, Addresses
<1>2. CASE o[d].kind = "Comment"
  <2>1. TypeOf(o[d]) = "Comment"
    BY <1>2 DEF TypeOf, ContainerKinds
  <2>2. QED
    BY <1>1, <1>2, <2>1
<1>3. CASE o[d].kind = "Value"
  <2>1. TypeOf(o[d]) = KindOf[o[d].val]
    BY <1>3 DEF TypeOf, ContainerKinds
  <2>2. QED
    BY <1>1, <1>3, <2>1, FileAssumption
<1>4. QED
  BY <1>1, <1>2, <1>3 DEF Kinds, ContainerKinds

\* What the reader finds where a container is written.
LEMMA ContainerAhead ==
    ASSUME FileSound, NEW o, Proper(o), NEW d \in Ids, o[d] # Null,
           o[d].kind \in ContainerKinds, Lies(file, pos, Written(o, d))
    PROVE  /\ GoodContainer /\ ~GoodLeaf /\ Taken(2) = o[d].name
           /\ Taken(3) = o[d].kind /\ Taken(4) = Len(o[d].kids) /\ o[d].val = NoVal
           /\ Laid(file, o, d, 0, pos + 4, pos + Len(Written(o, d)))
<1>1. Sound(o) /\ WellTyped(o) /\ Shaped(o)
  BY DEF Proper, Sound
<1>2. /\ file \in Seq(TypedField) /\ pos \in Nat \ {0} /\ Len(file) \in Nat
  <2>1. file \in Seq(TypedField) /\ pos \in 1..(Len(file) + 1)
    BY DEF FileSound, Control
  <2>2. Len(file) \in Nat
    BY <2>1, LenProperties
  <2>3. QED
    BY <2>1, <2>2
<1>3. d \in Addresses
  BY DEF Addresses
<1> DEFINE at == pos + 4
           e  == pos + Len(Written(o, d))
           t3 == pos + 3
<1>4. /\ t3 <= Len(file)
      /\ file[pos] = Field("type", TypeOf(o[d])) /\ file[pos + 1] = Field("name", o[d].name)
      /\ file[pos + 2] = Field("container", o[d].kind)
      /\ file[t3] = Field("count", Len(o[d].kids))
      /\ Laid(file, o, d, 0, at, e)
  <2> DEFINE a == pos
  <2>1. file \in Seq(TypedField) /\ Lies(file, a, Written(o, d))
    BY <1>2
  <2> HIDE DEF a
  <2>2. /\ a + 3 <= Len(file)
        /\ file[a] = Field("type", TypeOf(o[d])) /\ file[a + 1] = Field("name", o[d].name)
        /\ file[a + 2] = Field("container", o[d].kind)
        /\ file[a + 3] = Field("count", Len(o[d].kids))
        /\ Laid(file, o, d, 0, a + 4, a + Len(Written(o, d)))
    BY <1>1, <1>3, <2>1, ContainerLies
  <2>3. QED
    BY <2>2 DEF a
<1>5. TypeOf(o[d]) = "Container"
  BY DEF TypeOf, ContainerKinds
<1>6. /\ pos + 1 - 1 = pos /\ pos + 2 - 1 = pos + 1 /\ pos + 3 - 1 = pos + 2
      /\ pos + 4 - 1 = t3
  BY <1>2
<1>7. /\ at \in Nat \ {0} /\ at = t3 + 1 /\ t3 \in Nat
      /\ pos <= t3 /\ pos + 1 <= t3 /\ pos + 2 <= t3
  BY <1>2
<1> HIDE DEF at, e, t3
<1>8. at <= Len(file) + 1
  BY <1>2, <1>4, <1>7
<1>9. /\ file[pos].of = "type" /\ file[pos].is = "Container"
      /\ file[pos + 1].of = "name" /\ file[pos + 1].is = o[d].name
      /\ file[pos + 2].of = "container" /\ file[pos + 2].is = o[d].kind
      /\ file[t3].of = "count" /\ file[t3].is = Len(o[d].kids)
  BY <1>4, <1>5 DEF Field
<1>10. /\ Taken(1) = "Container" /\ Taken(2) = o[d].name /\ Taken(3) = o[d].kind
      /\ Taken(4) = Len(o[d].kids)
  BY <1>6, <1>9 DEF Taken
<1>11. /\ pos <= Len(file) /\ pos + 1 <= Len(file) /\ pos + 2 <= Len(file)
  BY <1>2, <1>4, <1>7
<1>12. Ready(ContainerFields)
  BY <1>4, <1>6, <1>9, <1>11 DEF Ready, ContainerFields
<1>13. Len(o[d].kids) <= Len(file) + 1 - at
  BY <1>1, <1>2, <1>3, <1>4, <1>7, <1>8, LaidRoom
<1>14. Taken(4) <= Remaining(4)
  <2>1. Len(o[d].kids) \in Nat
    BY <1>1, <1>3, TreesInIs
  <2>2. Remaining(4) = Len(file) - t3
    BY <1>6 DEF Remaining
  <2>3. QED
    BY <1>2, <1>7, <1>10, <1>13, <2>1, <2>2
<1>15. GoodContainer /\ ~GoodLeaf
  BY <1>10, <1>12, <1>14 DEF GoodLeaf, GoodContainer
<1>16. o[d].val = NoVal
  BY <1>1, <1>3 DEF Shaped
<1>17. Laid(file, o, d, 0, pos + 4, pos + Len(Written(o, d)))
  BY <1>4 DEF at, e
<1>18. QED
  BY <1>10, <1>15, <1>16, <1>17

\* What the reader finds where an item is written.
LEMMA NextItem ==
    ASSUME FileSound, NEW o, Proper(o), NEW y \in Addresses, o[y] # Null,
           NEW i \in 0..(Len(o[y].kids) - 1), NEW b, Laid(file, o, y, i, pos, b),
           NEW d, d = o[y].kids[i + 1]
    PROVE  /\ d \in Ids /\ o[d] # Null /\ d \in Kids(o, y)
           /\ Laid(file, o, y, i + 1, pos + Len(Written(o, d)), b)
           /\ o[d].kind \notin ContainerKinds =>
                 /\ GoodLeaf /\ ~GoodContainer /\ Len(Written(o, d)) = 3
                 /\ (IF Taken(1) = "Comment" THEN "Comment" ELSE "Value") = o[d].kind
                 /\ Taken(2) = o[d].name /\ Taken(3) = o[d].val /\ o[d].val \in Vals
           /\ o[d].kind \in ContainerKinds =>
                 /\ GoodContainer /\ ~GoodLeaf /\ Taken(2) = o[d].name
                 /\ Taken(3) = o[d].kind /\ Taken(4) = Len(o[d].kids) /\ o[d].val = NoVal
                 /\ Laid(file, o, d, 0, pos + 4, pos + Len(Written(o, d)))
<1>1. Sound(o) /\ WellTyped(o) /\ Closed(o) /\ Shaped(o)
  BY DEF Proper, Sound
<1>2. /\ file \in Seq(TypedField) /\ pos \in Nat \ {0} /\ Len(file) \in Nat
  <2>1. file \in Seq(TypedField) /\ pos \in 1..(Len(file) + 1)
    BY DEF FileSound, Control
  <2>2. Len(file) \in Nat
    BY <2>1, LenProperties
  <2>3. QED
    BY <2>1, <2>2
<1>3. Len(o[y].kids) \in Nat /\ i + 1 \in 1..Len(o[y].kids)
  BY <1>1, TreesInIs
<1>4. d \in Ids /\ d \in Kids(o, y)
  BY <1>1, <1>3, TreesInIs
<1>5. o[d] # Null /\ d \in Addresses
  BY <1>1, <1>4 DEF Closed, Addresses
<1>6. /\ Lies(file, pos, Written(o, d))
      /\ Laid(file, o, y, i + 1, pos + Len(Written(o, d)), b)
  BY <1>1, LaidStep
<1>7. ASSUME o[d].kind \notin ContainerKinds
      PROVE  /\ GoodLeaf /\ ~GoodContainer /\ Len(Written(o, d)) = 3
             /\ (IF Taken(1) = "Comment" THEN "Comment" ELSE "Value") = o[d].kind
             /\ Taken(2) = o[d].name /\ Taken(3) = o[d].val /\ o[d].val \in Vals
  <2>1. /\ Len(Written(o, d)) = 3 /\ pos + 2 <= Len(file)
        /\ file[pos] = Field("type", TypeOf(o[d])) /\ file[pos + 1] = Field("name", o[d].name)
        /\ file[pos + 2] = Field("payload", o[d].val)
    BY <1>1, <1>2, <1>5, <1>6, <1>7, LeafLies, SMTT(30)
  <2>2. /\ TypeOf(o[d]) \notin {"Container", "other"} /\ o[d].val \in Vals
        /\ o[d].kind = IF TypeOf(o[d]) = "Comment" THEN "Comment" ELSE "Value"
    BY <1>4, <1>5, <1>7, LeafType
  <2>3. pos + 1 - 1 = pos /\ pos + 2 - 1 = pos + 1 /\ pos + 3 - 1 = pos + 2
    BY <1>2
  <2>4. Taken(1) = TypeOf(o[d]) /\ Taken(2) = o[d].name /\ Taken(3) = o[d].val
    BY <2>1, <2>3 DEF Taken, Field
  <2>5. /\ file[pos].of = "type" /\ file[pos + 1].of = "name" /\ file[pos + 2].of = "payload"
        /\ pos <= Len(file) /\ pos + 1 <= Len(file)
    BY <1>2, <2>1 DEF Field
  <2>6. Ready(LeafFields)
    BY <1>2, <2>1, <2>3, <2>5 DEF Ready, LeafFields
  <2>7. GoodLeaf /\ ~GoodContainer
    BY <2>2, <2>4, <2>6 DEF GoodLeaf, GoodContainer
  <2>8. QED
    BY <2>1, <2>2, <2>4, <2>7
<1>8. ASSUME o[d].kind \in ContainerKinds
      PROVE  /\ GoodContainer /\ ~GoodLeaf /\ Taken(2) = o[d].name
             /\ Taken(3) = o[d].kind /\ Taken(4) = Len(o[d].kids) /\ o[d].val = NoVal
             /\ Laid(file, o, d, 0, pos + 4, pos + Len(Written(o, d)))
  BY <1>4, <1>5, <1>6, <1>8, ContainerAhead
<1>9. QED
  BY <1>4, <1>5, <1>6, <1>7, <1>8

\* What it finds where the root is written.
LEMMA RootItem ==
    ASSUME FileSound, NEW o, Proper(o), FileOf(o), pos = 3
    PROVE  /\ GoodRoot /\ Taken(1) = policy[Source] /\ policy[Source] \in Policies
           /\ Taken(5) = Len(o[Source].kids) /\ Taken(3) \in AnyName
           /\ \E e : Laid(file, o, Source, 0, pos + 5, e)
<1>1. Sound(o) /\ WellTyped(o)
  BY DEF Proper, Sound
<1>2. /\ file \in Seq(TypedField) /\ Len(file) \in Nat /\ policy[Source] \in Policies
  BY LenProperties, FileAssumption DEF FileSound, Control, PoliciesTyped
<1>3. Source \in Addresses /\ o[Source] # Null /\ o[Source].kind = "Group"
  BY <1>1, FileAssumption DEF WellTyped, Addresses
<1>4. o[Source].kind \in ContainerKinds /\ TypeOf(o[Source]) = "Container"
  BY <1>3 DEF TypeOf, ContainerKinds
<1>5. /\ 7 <= Len(file)
      /\ file[4] = Field("type", TypeOf(o[Source])) /\ file[5] = Field("name", o[Source].name)
      /\ file[6] = Field("container", o[Source].kind)
      /\ file[7] = Field("count", Len(o[Source].kids))
      /\ Laid(file, o, Source, 0, 8, 4 + Len(Written(o, Source)))
  <2> DEFINE a == 4
  <2>1. Lies(file, a, Written(o, Source))
    BY DEF FileOf
  <2> HIDE DEF a
  <2>2. /\ a + 3 <= Len(file)
        /\ file[a] = Field("type", TypeOf(o[Source]))
        /\ file[a + 1] = Field("name", o[Source].name)
        /\ file[a + 2] = Field("container", o[Source].kind)
        /\ file[a + 3] = Field("count", Len(o[Source].kids))
        /\ Laid(file, o, Source, 0, a + 4, a + Len(Written(o, Source)))
    BY <1>1, <1>2, <1>3, <1>4, <2>1, ContainerLies
  <2>3. a = 4 /\ a + 1 = 5 /\ a + 2 = 6 /\ a + 3 = 7 /\ a + 4 = 8
    BY DEF a
  <2>4. QED
    BY <2>2, <2>3
<1>6. file[3] = Field("policy", policy[Source])
  BY DEF FileOf
<1>7. /\ pos + 1 - 1 = 3 /\ pos + 2 - 1 = 4 /\ pos + 3 - 1 = 5 /\ pos + 4 - 1 = 6
      /\ pos + 5 - 1 = 7 /\ pos + 5 = 8
  OBVIOUS
<1>8. /\ Taken(1) = policy[Source] /\ Taken(2) = "Container" /\ Taken(3) = o[Source].name
      /\ Taken(4) = "Group" /\ Taken(5) = Len(o[Source].kids)
  BY <1>3, <1>4, <1>5, <1>6, <1>7 DEF Taken, Field
<1>9. /\ file[3].of = "policy" /\ file[4].of = "type" /\ file[5].of = "name"
      /\ file[6].of = "container" /\ file[7].of = "count"
  BY <1>5, <1>6 DEF Field
<1>10. Ready(RootFields)
  BY <1>2, <1>5, <1>7, <1>9 DEF Ready, RootFields
<1> DEFINE at == 8
           e  == 4 + Len(Written(o, Source))
<1>11. at \in Nat \ {0} /\ at <= Len(file) + 1 /\ Laid(file, o, Source, 0, at, e)
  BY <1>2, <1>5
<1> HIDE DEF at, e
<1>12. Len(o[Source].kids) <= Len(file) + 1 - at
  BY <1>1, <1>2, <1>3, <1>11, LaidRoom
<1>13. Taken(5) <= Remaining(5)
  BY <1>2, <1>7, <1>8, <1>12 DEF Remaining, at
<1>14. o[Source].name \in AnyName
  BY <1>1, <1>3, ItemFields
<1>15. Laid(file, o, Source, 0, pos + 5, e)
  BY <1>7, <1>11 DEF at
<1>16. QED
  BY <1>2, <1>8, <1>10, <1>13, <1>14, <1>15 DEF GoodRoot

-----------------------------------------------------------------------------
(* The steps of a load *)

\* What a load of the file of o must come to.
Restored(o) ==
    IF Loadable(o, policy[Source])
    THEN /\ ret = "loaded"
         /\ TreesIn(heap, Loaded) =
               Kept("Group", Offers(o, Source, policy[Source]), 0, policy[Source])
         /\ policy[Loaded] = policy[Source] /\ heap[Loaded].policy = policy[Source]
    ELSE ret = "DeserializeError"

\* A load of it is on the way there,
Faithful(o) ==
    /\ phase = "load" => Sound(heap)
    /\ phase = "load" /\ frames = <<>> => pos = 3 /\ FileOf(o)
    /\ phase = "load" /\ frames # <<>> => Loading(o)
    /\ phase = "over" => Restored(o)

\* and a load of whatever file leaves o alone.
Reads(o) == Intact(o, heap) /\ Apart(o, frames) /\ (Whole => Faithful(o))

Restoring ==
    /\ phase \in {"edit", "saved"} => Proper(heap)
    /\ phase = "saved" /\ Whole => FileOf(heap)
    /\ phase \in {"load", "over"} => \E o : Proper(o) /\ Reads(o)

LEMMA UnderSame ==
    ASSUME NEW f, NEW p, NEW h, NEW o, NEW fs, Len(fs) \in Nat, NEW y, NEW b,
           Under(f, p, h, o, fs, y, b),
           NEW g, \A k \in 1..Len(fs) : /\ Keeps(g, h, fs[k].at)
                                        /\ TreesIn(g, fs[k].at) = TreesIn(h, fs[k].at)
    PROVE  Under(f, p, g, o, fs, y, b)
<1>1. ASSUME NEW k \in 1..Len(fs)
      PROVE  y[k] \in Part(o) /\ Filled(g, o, fs[k], y[k], Rule(p, k))
  BY <1>1, FilledSame DEF Under
<1>2. ASSUME NEW k \in 1..(Len(fs) - 1)
      PROVE  /\ y[k + 1] = o[y[k]].kids[Done(o, fs[k], y[k]) + 1]
             /\ g[fs[k + 1].at].name = o[y[k + 1]].name /\ g[fs[k + 1].at].val = NoVal
             /\ Laid(f, o, y[k], Done(o, fs[k], y[k]) + 1, b[k + 1], b[k])
  <2>1. k + 1 \in 1..Len(fs)
    BY <1>2
  <2>2. Keeps(g, h, fs[k + 1].at)
    BY <2>1
  <2>3. QED
    BY <1>2, <2>2 DEF Under, Keeps
<1>3. QED
  BY <1>1, <1>2 DEF Under

\* A new item changes nothing of what the activations have filled.
LEMMA FreshUnder ==
    ASSUME NEW f, NEW p, NEW h, Sound(h), NEW o, NEW fs, Stacked(h, fs), NEW y, NEW b,
           Under(f, p, h, o, fs, y, b), NEW x \in Ids, h[x] = Null,
           NEW kind \in Kinds, NEW name \in AnyName, NEW val \in Vals \cup {NoVal},
           NEW g, Puts(h, x, NewItem(kind, name, val), g)
    PROVE  /\ Sound(g) /\ Holding(g, x) = {} /\ Under(f, p, g, o, fs, y, b)
           /\ \A z \in Addresses : h[z] # Null => g[z] = h[z]
<1>1. /\ Sound(g) /\ g[x] # Null /\ Holding(g, x) = {} /\ TreesIn(g, x) = <<>>
      /\ \A z \in Addresses : h[z] # Null =>
            z # x /\ g[z] = h[z] /\ TreesIn(g, z) = TreesIn(h, z)
  BY FreshTrees
<1>2. \A z \in Addresses : Kids(g, z) \subseteq Kids(h, z)
  <2>1. g[x].kids = <<>>
    BY DEF Puts, NewItem, Sound, WellTyped, Addresses
  <2>2. Kids(g, x) = {}
    BY <2>1, EmptySeq DEF Kids, ToSet
  <2>3. \A z \in Addresses : z # x => g[z] = h[z]
    BY DEF Puts, Sound, WellTyped
  <2>4. QED
    BY <2>2, <2>3 DEF Kids
<1>3. \A z \in Addresses : Holding(g, z) \subseteq Holding(h, z)
  BY <1>2 DEF Holding
<1>4. Len(fs) \in Nat
  BY LenProperties DEF Stacked
<1>5. \A k \in 1..Len(fs) : fs[k].at \in Addresses /\ h[fs[k].at] # Null
  BY LocalsHeld
<1>6. \A k \in 1..Len(fs) : /\ Keeps(g, h, fs[k].at)
                            /\ TreesIn(g, fs[k].at) = TreesIn(h, fs[k].at)
  BY <1>1, <1>3, <1>5 DEF Keeps
<1>7. Under(f, p, g, o, fs, y, b)
  BY <1>4, <1>6, UnderSame
<1>8. QED
  BY <1>1, <1>7

LEMMA ReadLeafReads ==
    ASSUME FileSound, NEW o, Proper(o), Reads(o), ReadLeaf
    PROVE  Reads(o)'
<1> DEFINE x    == Fresh
           kind == IF Taken(1) = "Comment" THEN "Comment" ELSE "Value"
           name == Taken(2)
           val  == Taken(3)
           g    == [heap EXCEPT ![x] = NewItem(kind, name, val)]
           n    == Len(frames)
           p    == policy[Source]
<1>1. /\ Free # {} /\ phase = "load" /\ frames # <<>> /\ Last(frames).left > 0
      /\ Ready(LeafFields) /\ pos' = pos + 3 /\ Deliver(g, x, frames) /\ GoodLeaf
  BY DEF ReadLeaf, Reading, Top, GoodLeaf
<1>2. x \in Ids /\ heap[x] = Null /\ x \in Addresses
  BY <1>1, FreshIsFree DEF Addresses
<1>3. name \in AnyName /\ val \in Vals \cup {NoVal}
  <2>1. /\ DOMAIN LeafFields = 1..3 /\ 3 \in Nat \ {0}
        /\ file \in Seq(TypedField) /\ pos \in 1..(Len(file) + 1)
    BY DEF FileSound, Control, LeafFields
  <2>2. \A k \in 1..3 : Taken(k) \in Admits(LeafFields[k])
    BY <1>1, <2>1, ReadyTyped
  <2>3. Taken(2) \in Admits("name") /\ Taken(3) \in Admits("payload")
    BY <2>2 DEF LeafFields
  <2>4. QED
    BY <2>3 DEF Admits
<1>4. kind \in Kinds /\ Puts(heap, x, NewItem(kind, name, val), g)
  BY DEF Kinds, Puts
<1>5. kind = (IF Taken(1) = "Comment" THEN "Comment" ELSE "Value") /\ name = Taken(2)
      /\ val = Taken(3) /\ n = Len(frames) /\ p = policy[Source]
  OBVIOUS
<1> HIDE DEF x, kind, name, val, g, n, p
<1>6. /\ WellTyped(g) /\ Closed(g) /\ Stacked(g, frames) /\ g[x] # Null
      /\ \A k \in 1..Len(frames) : frames[k].at # x
  BY <1>2, <1>3, <1>4, FreshGood DEF FileSound
<1>7. /\ Stacked(heap, frames) /\ WellTyped(heap) /\ WellTyped(o) /\ Closed(o) /\ Sound(o)
      /\ Intact(o, heap) /\ Apart(o, frames)
  BY DEF FileSound, Good, Proper, Sound, Reads
<1>8. x \notin Part(o)
  BY <1>2, <1>7, PartClosed DEF Intact
<1>9. g[x] = NewItem(kind, name, val) /\ \A z \in Addresses : z # x => g[z] = heap[z]
  BY <1>2, <1>4, <1>7 DEF Puts, WellTyped
<1>10. Intact(o, g)
  BY <1>7, <1>8, <1>9, PartClosed DEF Intact
<1>11. n \in 1..n /\ n \in Nat /\ Last(frames) = frames[n]
  BY <1>1, <1>5, <1>7, FrontAndLast DEF Stacked
<1>12. Intact(o, heap') /\ Apart(o, frames')
  <2>1. x # Last(frames).at
    BY <1>5, <1>6, <1>11
  <2>2. QED
    BY <1>1, <1>2, <1>6, <1>7, <1>8, <1>10, <2>1, DeliverIntact
<1>13. UNCHANGED <<policy, file, damage>>
  BY <1>1 DEF Deliver, Refuse
<1>14. ASSUME Whole
       PROVE  Faithful(o)'
  <2>1. Sound(heap) /\ Loading(o)
    BY <1>1, <1>14 DEF Reads, Faithful
  <2>2. PICK y, b : /\ Under(file, p, heap, o, frames, y, b)
                    /\ Laid(file, o, y[n], Done(o, frames[n], y[n]), pos, b[n])
    BY <1>5, <2>1 DEF Loading
  <2> DEFINE j == Done(o, frames[n], y[n])
             i == j + 1
             d == o[y[n]].kids[i]
  <2>3. /\ y[n] \in Addresses /\ o[y[n]] # Null /\ Len(o[y[n]].kids) \in Nat
        /\ j \in 0..Len(o[y[n]].kids) /\ i \in 1..Len(o[y[n]].kids)
    BY <1>1, <1>5, <1>7, <1>11, <2>2, UnderTyped
  <2>4. j \in 0..(Len(o[y[n]].kids) - 1) /\ d = o[y[n]].kids[j + 1] /\ i = j + 1
    BY <2>3
  <2>5. Laid(file, o, y[n], j, pos, b[n]) /\ i = Done(o, frames[n], y[n]) + 1
    BY <2>2
  <2> HIDE DEF j, i, d
  <2>6. /\ d \in Ids /\ o[d] # Null
        /\ Laid(file, o, y[n], j + 1, pos + Len(Written(o, d)), b[n])
        /\ o[d].kind \notin ContainerKinds =>
              /\ Len(Written(o, d)) = 3
              /\ (IF Taken(1) = "Comment" THEN "Comment" ELSE "Value") = o[d].kind
              /\ Taken(2) = o[d].name /\ Taken(3) = o[d].val
        /\ o[d].kind \in ContainerKinds => ~GoodLeaf
    BY <2>3, <2>4, <2>5, NextItem
  <2>7. o[d].kind \notin ContainerKinds
    BY <1>1, <2>6
  <2>8. kind = o[d].kind /\ name = o[d].name /\ val = o[d].val
    BY <1>5, <2>6, <2>7
  <2>9. Laid(file, o, y[n], i, pos', b[n])
    BY <1>1, <2>4, <2>6, <2>7
  <2>10. Sound(g) /\ Holding(g, x) = {} /\ Under(file, p, g, o, frames, y, b)
    BY <1>2, <1>3, <1>4, <1>7, <2>1, <2>2, FreshUnder
  <2> DEFINE q == Rule(p, n)
  <2>11. Offering(g, x, q) = Offers(o, y[n], q)[i]
    <3>1. d = o[y[n]].kids[i] /\ g[x] = NewItem(o[d].kind, o[d].name, o[d].val)
      BY <1>9, <2>4, <2>8
    <3> HIDE DEF q
    <3>2. QED
      BY <1>2, <1>6, <1>7, <2>3, <2>7, <3>1, LeafOffered
  <2>12. Restores(o, d)
    BY <1>7, <2>6, <2>7, RestoresLeaf
  <2>13. Restores(o, o[y[n]].kids[i])
    BY <2>4, <2>12
  <2>14. frames[n].left > 0 /\ \A k \in 1..n : frames[k].at # x
    BY <1>1, <1>5, <1>6, <1>11
  <2>15. \/ /\ phase' = "over" /\ ret' = "DeserializeError" /\ ~Loadable(o, p)
         \/ UNCHANGED phase /\ frames' # <<>> /\ Sound(heap') /\ Loading(o)'
    BY <1>1, <1>2, <1>5, <1>6, <2>5, <2>9, <2>10, <2>11, <2>13, <2>14, DeliverLoads
  <2>16. policy'[Source] = p
    BY <1>5, <1>13
  <2>17. CASE phase' = "over" /\ ret' = "DeserializeError" /\ ~Loadable(o, p)
    <3>1. Restored(o)'
      BY <2>16, <2>17 DEF Restored
    <3>2. QED
      BY <2>17, <3>1 DEF Faithful
  <2>18. CASE UNCHANGED phase /\ frames' # <<>> /\ Sound(heap') /\ Loading(o)'
    BY <1>1, <2>18 DEF Faithful
  <2>19. QED
    BY <2>15, <2>17, <2>18
<1>15. Whole' => Whole
  BY <1>13 DEF Whole
<1>16. QED
  BY <1>12, <1>14, <1>15 DEF Reads

\* The activation act is for the item d, which ends before field e and is the one
\* that the innermost of fs is at.
Opens(f, h, o, fs, y, b, act, d, e) ==
    /\ d = o[y[Len(fs)]].kids[Done(o, fs[Len(fs)], y[Len(fs)]) + 1]
    /\ d \in Part(o) /\ Filled(h, o, act, d, "ThrowException")
    /\ h[act.at].name = o[d].name /\ h[act.at].val = NoVal
    /\ Laid(f, o, y[Len(fs)], Done(o, fs[Len(fs)], y[Len(fs)]) + 1, e, b[Len(fs)])

Prolongs(z, y, n, d) == z[n + 1] = d /\ \A k \in 1..n : z[k] = y[k]

LEMMA UnderMore ==
    ASSUME NEW f, NEW p, NEW h, NEW o, NEW fs \in Seq(Opening),
           NEW n \in Nat \ {0}, n = Len(fs), NEW y, NEW b, Under(f, p, h, o, fs, y, b),
           NEW act \in Opening, NEW d, NEW e, Opens(f, h, o, fs, y, b, act, d, e),
           NEW gs, Appends(gs, fs, act),
           NEW z, Prolongs(z, y, n, d), NEW c, Prolongs(c, b, n, e)
    PROVE  Under(f, p, h, o, gs, z, c) /\ Len(gs) = n + 1 /\ gs[n + 1] = act
<1>1. /\ Len(gs) = n + 1 /\ gs[n + 1] = act /\ \A k \in 1..n : gs[k] = fs[k]
  BY AppendKeeps DEF Appends
<1>2. /\ z[n + 1] = d /\ c[n + 1] = e
      /\ \A k \in 1..n : z[k] = y[k] /\ c[k] = b[k]
  BY DEF Prolongs
<1>3. z[1] = Source
  <2>1. 1 \in 1..n
    OBVIOUS
  <2>2. QED
    BY <1>2, <2>1 DEF Under
<1>4. ASSUME NEW k \in 1..Len(gs)
      PROVE  z[k] \in Part(o) /\ Filled(h, o, gs[k], z[k], Rule(p, k))
  <2>1. CASE k = n + 1
    <3>1. Rule(p, k) = "ThrowException"
      BY <2>1 DEF Rule
    <3>2. QED
      BY <1>1, <1>2, <2>1, <3>1 DEF Opens
  <2>2. CASE k # n + 1
    <3>1. k \in 1..n
      BY <1>1, <1>4, <2>2
    <3>2. y[k] \in Part(o) /\ Filled(h, o, fs[k], y[k], Rule(p, k))
      BY <3>1 DEF Under
    <3>3. QED
      BY <1>1, <1>2, <3>1, <3>2
  <2>3. QED
    BY <2>1, <2>2
<1>5. ASSUME NEW k \in 1..(Len(gs) - 1)
      PROVE  /\ z[k + 1] = o[z[k]].kids[Done(o, gs[k], z[k]) + 1]
             /\ h[gs[k + 1].at].name = o[z[k + 1]].name /\ h[gs[k + 1].at].val = NoVal
             /\ Laid(f, o, z[k], Done(o, gs[k], z[k]) + 1, c[k + 1], c[k])
  <2>1. k \in 1..n /\ n \in 1..n
    BY <1>1, <1>5
  <2>2. CASE k = n
    <3>1. gs[n] = fs[n] /\ z[n] = y[n] /\ c[n] = b[n]
      BY <1>1, <1>2, <2>1
    <3>2. QED
      BY <1>1, <1>2, <2>2, <3>1 DEF Opens
  <2>3. CASE k # n
    <3>1. k + 1 \in 1..n /\ k \in 1..(n - 1)
      BY <2>1, <2>3
    <3>2. /\ y[k + 1] = o[y[k]].kids[Done(o, fs[k], y[k]) + 1]
          /\ h[fs[k + 1].at].name = o[y[k + 1]].name /\ h[fs[k + 1].at].val = NoVal
          /\ Laid(f, o, y[k], Done(o, fs[k], y[k]) + 1, b[k + 1], b[k])
      BY <3>1 DEF Under
    <3>3. /\ gs[k] = fs[k] /\ gs[k + 1] = fs[k + 1] /\ z[k] = y[k] /\ z[k + 1] = y[k + 1]
          /\ c[k] = b[k] /\ c[k + 1] = b[k + 1]
      BY <1>1, <1>2, <2>1, <3>1
    <3>4. QED
      BY <3>2, <3>3
  <2>4. QED
    BY <2>2, <2>3
<1>6. Under(f, p, h, o, gs, z, c)
  BY <1>3, <1>4, <1>5 DEF Under
<1>7. QED
  BY <1>1, <1>2, <1>6

LEMMA OpenContainerReads ==
    ASSUME FileSound, NEW o, Proper(o), Reads(o), OpenContainer
    PROVE  Reads(o)'
<1> DEFINE x    == Fresh
           kind == Taken(3)
           name == Taken(2)
           f    == [at |-> x, left |-> Taken(4)]
           fs   == Append(frames, f)
           n    == Len(frames)
           p    == policy[Source]
<1>1. /\ Free # {} /\ phase = "load" /\ frames # <<>> /\ Last(frames).left > 0
      /\ Ready(ContainerFields) /\ pos' = pos + 4 /\ kind \in ContainerKinds
      /\ heap' = [heap EXCEPT ![x] = NewItem(kind, name, NoVal)] /\ frames' = fs
      /\ UNCHANGED <<policy, file, damage, phase, ret>> /\ GoodContainer
  BY DEF OpenContainer, Reading, Top, GoodContainer
<1>2. x \in Ids /\ heap[x] = Null /\ x \in Addresses
  BY <1>1, FreshIsFree DEF Addresses
<1>3. name \in AnyName /\ Taken(4) \in Nat
  <2>1. /\ DOMAIN ContainerFields = 1..4 /\ 4 \in Nat \ {0}
        /\ file \in Seq(TypedField) /\ pos \in 1..(Len(file) + 1)
    BY DEF FileSound, Control, ContainerFields
  <2>2. \A k \in 1..4 : Taken(k) \in Admits(ContainerFields[k])
    BY <1>1, <2>1, ReadyTyped
  <2>3. Taken(2) \in Admits("name") /\ Taken(4) \in Admits("count")
    BY <2>2 DEF ContainerFields
  <2>4. QED
    BY <2>3 DEF Admits
<1>4. /\ kind \in Kinds /\ NoVal \in Vals \cup {NoVal}
      /\ Puts(heap, x, NewItem(kind, name, NoVal), heap')
  BY <1>1 DEF Kinds, Puts
<1>5. f \in Opening /\ f.at = x /\ f.left = Taken(4)
  BY <1>2, <1>3 DEF Opening, Addresses
<1>6. kind = Taken(3) /\ name = Taken(2) /\ n = Len(frames) /\ p = policy[Source]
  OBVIOUS
<1> HIDE DEF x, kind, name, f, n, p
<1>7. /\ Stacked(heap, frames) /\ WellTyped(heap) /\ WellTyped(o) /\ Closed(o) /\ Sound(o)
      /\ Intact(o, heap) /\ Apart(o, frames) /\ frames \in Seq(Opening)
  BY DEF FileSound, Good, Proper, Sound, Reads, Stacked
<1>8. x \notin Part(o)
  BY <1>2, <1>7, PartClosed DEF Intact
<1>9. Intact(o, heap')
  <2>1. \A z \in Addresses : z # x => heap'[z] = heap[z]
    BY <1>2, <1>4, <1>7 DEF Puts, WellTyped
  <2>2. QED
    BY <1>7, <1>8, <2>1, PartClosed DEF Intact
<1>10. n \in 1..n /\ n \in Nat \ {0} /\ Last(frames) = frames[n]
  <2>1. n \in 1..n /\ n \in Nat /\ Last(frames) = frames[n]
    BY <1>1, <1>6, <1>7, FrontAndLast
  <2>2. QED
    BY <2>1
<1>11. Apart(o, frames')
  <2>1. /\ Len(fs) = n + 1 /\ fs[n + 1] = f /\ \A k \in 1..n : fs[k] = frames[k]
    BY <1>5, <1>6, <1>7, AppendKeeps
  <2> HIDE DEF fs
  <2>2. ASSUME NEW k \in 1..Len(fs)
        PROVE  fs[k].at \notin Part(o)
    <3>1. CASE k = n + 1
      BY <1>5, <1>8, <2>1, <3>1
    <3>2. CASE k # n + 1
      <4>1. k \in 1..n
        BY <1>10, <2>1, <3>2
      <4>2. QED
        BY <1>6, <1>7, <2>1, <4>1 DEF Apart
    <3>3. QED
      BY <3>1, <3>2
  <2>3. QED
    BY <1>1, <2>2 DEF Apart
<1>12. ASSUME Whole
       PROVE  Faithful(o)'
  <2>1. Sound(heap) /\ Loading(o)
    BY <1>1, <1>12 DEF Reads, Faithful
  <2>2. PICK y, b : /\ Under(file, p, heap, o, frames, y, b)
                    /\ Laid(file, o, y[n], Done(o, frames[n], y[n]), pos, b[n])
    BY <1>6, <2>1 DEF Loading
  <2> DEFINE j == Done(o, frames[n], y[n])
             i == j + 1
             d == o[y[n]].kids[i]
             e == pos + Len(Written(o, d))
  <2>3. /\ y[n] \in Addresses /\ o[y[n]] # Null /\ y[n] \in Part(o)
        /\ Len(o[y[n]].kids) \in Nat
        /\ j \in 0..Len(o[y[n]].kids) /\ i \in 1..Len(o[y[n]].kids)
    BY <1>1, <1>6, <1>7, <1>10, <2>2, UnderTyped
  <2>4. j \in 0..(Len(o[y[n]].kids) - 1) /\ d = o[y[n]].kids[j + 1] /\ i = j + 1
    BY <2>3
  <2>5. /\ Laid(file, o, y[n], j, pos, b[n]) /\ i = Done(o, frames[n], y[n]) + 1
        /\ d = o[y[n]].kids[i]
    BY <2>2
  <2>6. e = pos + Len(Written(o, d))
    OBVIOUS
  <2> HIDE DEF j, i, d, e
  <2>7. /\ d \in Ids /\ o[d] # Null /\ d \in Kids(o, y[n])
        /\ Laid(file, o, y[n], j + 1, pos + Len(Written(o, d)), b[n])
        /\ o[d].kind \notin ContainerKinds => ~GoodContainer
        /\ o[d].kind \in ContainerKinds =>
              /\ Taken(2) = o[d].name /\ Taken(3) = o[d].kind
              /\ Taken(4) = Len(o[d].kids) /\ o[d].val = NoVal
              /\ Laid(file, o, d, 0, pos + 4, pos + Len(Written(o, d)))
    BY <2>3, <2>4, <2>5, NextItem, SMTT(30)
  <2>8. o[d].kind \in ContainerKinds
    BY <1>1, <2>7
  <2>9. /\ kind = o[d].kind /\ name = o[d].name /\ f.left = Len(o[d].kids)
        /\ Laid(file, o, d, 0, pos', e)
    BY <1>1, <1>5, <1>6, <2>6, <2>7, <2>8
  <2>10. Laid(file, o, y[n], i, e, b[n])
    BY <2>4, <2>5, <2>6, <2>7
  <2>11. Sound(heap') /\ Under(file, p, heap', o, frames, y, b)
    BY <1>2, <1>3, <1>4, <1>7, <2>1, <2>2, FreshUnder
  <2>12. /\ heap'[x].kind = kind /\ heap'[x].name = name /\ heap'[x].val = NoVal
         /\ heap'[x].policy = "ThrowException" /\ Holding(heap', x) = {}
         /\ TreesIn(heap', x) = <<>>
    BY <1>2, <1>3, <1>4, <2>1, FreshTrees
  <2>13. d \in Addresses /\ d \in Part(o)
    BY <1>7, <2>3, <2>7, PartClosed DEF Part, Addresses
  <2>14. Filled(heap', o, f, d, "ThrowException")
    BY <1>5, <1>7, <2>7, <2>9, <2>12, <2>13, FilledNone
  <2> DEFINE z == [k \in Nat |-> IF k = n + 1 THEN d ELSE y[k]]
             c == [k \in Nat |-> IF k = n + 1 THEN e ELSE b[k]]
  <2>15. Prolongs(z, y, n, d) /\ Prolongs(c, b, n, e) /\ Appends(fs, frames, f)
    BY <1>10 DEF Prolongs, Appends
  <2>16. z[n + 1] = d /\ c[n + 1] = e
    BY <2>15 DEF Prolongs
  <2> HIDE DEF z, c, fs
  <2>24. Opens(file, heap', o, frames, y, b, f, d, e)
    BY <1>5, <1>6, <2>5, <2>9, <2>10, <2>12, <2>13, <2>14 DEF Opens
  <2>25. Under(file, p, heap', o, fs, z, c) /\ Len(fs) = n + 1 /\ fs[n + 1] = f
    <3>1. \A act \in Opening : \A d1, e1, gs :
             Opens(file, heap', o, frames, y, b, act, d1, e1) /\ Appends(gs, frames, act)
             => \A z1, c1 : Prolongs(z1, y, n, d1) /\ Prolongs(c1, b, n, e1)
                            => Under(file, p, heap', o, gs, z1, c1)
      BY <1>6, <1>7, <1>10, <2>11, UnderMore
    <3>2. Under(file, p, heap', o, fs, z, c)
      BY <1>5, <2>15, <2>24, <3>1
    <3>3. \A s \in Seq(Opening) : \A act \in Opening : \A gs :
             Appends(gs, s, act) => Len(gs) = Len(s) + 1 /\ gs[Len(s) + 1] = act
      BY AppendKeeps DEF Appends
    <3>4. QED
      BY <1>5, <1>6, <1>7, <2>15, <3>2, <3>3
  <2>17. Done(o, f, d) = 0
    <3>1. Len(o[d].kids) \in Nat
      BY <1>7, <2>7, <2>13, TreesInIs
    <3>2. QED
      BY <2>9, <3>1 DEF Done
  <2>18. Laid(file, o, z[Len(fs)], Done(o, fs[Len(fs)], z[Len(fs)]), pos', c[Len(fs)])
    BY <2>9, <2>16, <2>25, <2>17
  <2>19. file' = file /\ policy'[Source] = p /\ frames' = fs
    BY <1>1, <1>6
  <2>20. \E u, v :
           /\ Under(file', policy'[Source], heap', o, frames', u, v)
           /\ Laid(file', o, u[Len(frames')],
                   Done(o, frames'[Len(frames')], u[Len(frames')]), pos', v[Len(frames')])
    BY <2>25, <2>18, <2>19
  <2>21. Loading(o)'
    BY <2>20 DEF Loading
  <2>22. frames' # <<>> /\ phase' = "load"
    <3>1. Len(fs) # 0
      BY <1>10, <2>25
    <3>2. QED
      BY <1>1, <2>19, <3>1, EmptySeq
  <2>23. QED
    BY <2>11, <2>21, <2>22 DEF Faithful
<1>13. Whole' => Whole
  BY <1>1 DEF Whole
<1>14. QED
  BY <1>9, <1>11, <1>12, <1>13 DEF Reads

\* Activation m of fs is at the item that activation n reads.
Suspended(f, h, o, fs, y, b, m, n) ==
    /\ y[n] = o[y[m]].kids[Done(o, fs[m], y[m]) + 1]
    /\ h[fs[n].at].name = o[y[n]].name /\ h[fs[n].at].val = NoVal
    /\ Laid(f, o, y[m], Done(o, fs[m], y[m]) + 1, b[n], b[m])

LEMMA UnderFront ==
    ASSUME NEW f, NEW p, NEW h, NEW o, NEW fs \in Seq(Opening),
           fs # <<>>, Len(fs) # 1, NEW y, NEW b, Under(f, p, h, o, fs, y, b),
           NEW gs, gs = Front(fs), NEW n, n = Len(fs), NEW m, m = Len(gs)
    PROVE  Under(f, p, h, o, gs, y, b) /\ Suspended(f, h, o, fs, y, b, m, n)
<1>1. /\ n \in Nat /\ Last(fs) = fs[n] /\ gs \in Seq(Opening) /\ Len(gs) = n - 1
      /\ \A k \in 1..(n - 1) : gs[k] = fs[k]
  BY FrontAndLast
<1>2. /\ m \in Nat /\ m \in 1..m /\ n = m + 1 /\ m \in 1..n /\ n \in 1..n /\ n > 1
      /\ m \in Nat \ {0} /\ n \in Nat \ {0} /\ m \in 1..(Len(fs) - 1)
      /\ \A k \in 1..m : k \in 1..n /\ k \in 1..Len(fs) /\ gs[k] = fs[k]
      /\ \A k \in 1..(m - 1) : k \in 1..(Len(fs) - 1) /\ k \in 1..m /\ k + 1 \in 1..m
  BY <1>1
<1>4. ASSUME NEW k \in 1..Len(gs)
      PROVE  y[k] \in Part(o) /\ Filled(h, o, gs[k], y[k], Rule(p, k))
  BY <1>2, <1>4 DEF Under
<1>5. ASSUME NEW k \in 1..(Len(gs) - 1)
      PROVE  /\ y[k + 1] = o[y[k]].kids[Done(o, gs[k], y[k]) + 1]
             /\ h[gs[k + 1].at].name = o[y[k + 1]].name /\ h[gs[k + 1].at].val = NoVal
             /\ Laid(f, o, y[k], Done(o, gs[k], y[k]) + 1, b[k + 1], b[k])
  <2>1. k \in 1..(Len(fs) - 1) /\ gs[k] = fs[k] /\ gs[k + 1] = fs[k + 1]
    BY <1>2, <1>5
  <2>2. /\ y[k + 1] = o[y[k]].kids[Done(o, fs[k], y[k]) + 1]
        /\ h[fs[k + 1].at].name = o[y[k + 1]].name /\ h[fs[k + 1].at].val = NoVal
        /\ Laid(f, o, y[k], Done(o, fs[k], y[k]) + 1, b[k + 1], b[k])
    BY <2>1 DEF Under
  <2>3. QED
    BY <2>1, <2>2
<1>6. Under(f, p, h, o, gs, y, b)
  BY <1>4, <1>5 DEF Under
<1>7. /\ y[m + 1] = o[y[m]].kids[Done(o, fs[m], y[m]) + 1]
      /\ h[fs[m + 1].at].name = o[y[m + 1]].name /\ h[fs[m + 1].at].val = NoVal
      /\ Laid(f, o, y[m], Done(o, fs[m], y[m]) + 1, b[m + 1], b[m])
  BY <1>2 DEF Under
<1>8. Suspended(f, h, o, fs, y, b, m, n)
  BY <1>2, <1>7 DEF Suspended
<1>9. QED
  BY <1>6, <1>8

\* The activation act has filled x, a nested container, with all that d holds;
Complete(h, o, act, x, d) ==
    /\ act.at = x /\ act.left = 0 /\ IsContainer(h, x)
    /\ Filled(h, o, act, d, "ThrowException")
    /\ h[x].name = o[d].name /\ h[x].val = NoVal

\* x is what is to be added for d, item i of the one at y.
Ripe(h, o, x, y, i, d) ==
    /\ \A q : Offering(h, x, q) = Offers(o, y, q)[i]
    /\ Restores(o, d) /\ Holding(h, x) = {}

LEMMA FilledOffers ==
    ASSUME NEW o, Proper(o), NEW h, NEW y \in Addresses, o[y] # Null,
           NEW i \in 1..Len(o[y].kids), NEW d \in Ids, d = o[y].kids[i], o[d] # Null,
           NEW act, NEW x, Complete(h, o, act, x, d)
    PROVE  Ripe(h, o, x, y, i, d)
<1>1. Sound(o) /\ WellTyped(o) /\ d \in Addresses
  BY DEF Proper, Sound, Addresses
<1>2. /\ TreesIn(h, x) = Offers(o, d, "ThrowException")
      /\ Takes(o, d, "ThrowException") /\ \A e \in Kids(o, d) : Restores(o, e)
  BY <1>1, FilledWhole DEF Complete
<1>3. /\ h[x].kind = o[d].kind /\ o[d].kind \in ContainerKinds
      /\ h[x].name = o[d].name /\ Holding(h, x) = {}
  BY DEF Complete, Filled, IsContainer
<1>4. h[x].val = o[d].val
  BY <1>3 DEF Complete, Proper, Shaped
<1>5. Restores(o, d)
  BY <1>1, <1>2, RestoresUp
<1>6. \A q : Offering(h, x, q) = Offers(o, y, q)[i]
  BY <1>1, <1>2, <1>3, <1>4, ContainerOffered
<1>7. QED
  BY <1>3, <1>5, <1>6 DEF Ripe

LEMMA CloseContainerReads ==
    ASSUME FileSound, NEW o, Proper(o), Reads(o), CloseContainer
    PROVE  Reads(o)'
<1> DEFINE x  == Last(frames).at
           fs == Front(frames)
           n  == Len(frames)
           m  == Len(fs)
           p  == policy[Source]
           act == frames[n]
<1>1. /\ phase = "load" /\ frames # <<>> /\ Len(frames) > 1 /\ Last(frames).left = 0
      /\ UNCHANGED pos /\ Deliver(heap, x, fs)
  BY DEF CloseContainer, Reading, Top
<1>2. /\ Stacked(heap, frames) /\ WellTyped(heap) /\ Closed(heap) /\ WellTyped(o)
      /\ Closed(o) /\ Sound(o) /\ Intact(o, heap) /\ Apart(o, frames)
      /\ frames \in Seq(Opening)
  BY DEF FileSound, Good, Proper, Sound, Reads, Stacked
<1>3. /\ Stacked(heap, fs) /\ fs # <<>> /\ Last(fs).left > 0 /\ x \in Locals(frames)
      /\ \A k \in 1..Len(fs) : fs[k].at # x
  BY <1>1, <1>2, StackedFront
<1>4. x \in Ids /\ heap[x] # Null
  BY <1>2, <1>3, LocalsHeld
<1>5. /\ n \in Nat /\ n \in 1..n /\ Last(frames) = act /\ m = n - 1
      /\ fs \in Seq(Opening) /\ \A k \in 1..(n - 1) : fs[k] = frames[k]
  BY <1>1, <1>2, FrontAndLast
<1>6. fs = Front(frames) /\ n = Len(frames) /\ m = Len(fs) /\ p = policy[Source]
      /\ x = act.at
  BY <1>5
<1> HIDE DEF x, fs, n, m, p, act
<1>7. x \notin Part(o)
  BY <1>2, <1>5, <1>6 DEF Apart, act
<1>8. Apart(o, fs)
  <2>1. ASSUME NEW k \in 1..Len(fs)
        PROVE  fs[k].at \notin Part(o)
    <3>1. k \in 1..Len(frames) /\ fs[k] = frames[k]
      BY <1>5, <1>6
    <3>2. QED
      BY <1>2, <3>1 DEF Apart
  <2>2. QED
    BY <2>1 DEF Apart
<1>9. x # Last(fs).at
  <2>1. Last(fs) = fs[Len(fs)] /\ Len(fs) \in 1..Len(fs)
    BY <1>3, <1>5, FrontAndLast
  <2>2. QED
    BY <1>3, <2>1
<1>10. Intact(o, heap') /\ Apart(o, frames')
  BY <1>1, <1>2, <1>3, <1>4, <1>7, <1>8, <1>9, DeliverIntact
<1>11. UNCHANGED <<policy, file, damage>>
  BY <1>1 DEF Deliver, Refuse
<1>12. ASSUME Whole
       PROVE  Faithful(o)'
  <2>1. Sound(heap) /\ Loading(o)
    BY <1>1, <1>12 DEF Reads, Faithful
  <2>2. PICK y, b : /\ Under(file, p, heap, o, frames, y, b)
                    /\ Laid(file, o, y[n], Done(o, frames[n], y[n]), pos, b[n])
    BY <1>6, <2>1 DEF Loading
  <2> DEFINE i == Done(o, fs[m], y[m]) + 1
             d == y[n]
  <2> HIDE DEF i, d
  <2>3. /\ Under(file, p, heap, o, fs, y, b)
        /\ m \in 1..n /\ m \in 1..m /\ n > 1 /\ Last(fs) = fs[m] /\ fs[m] = frames[m]
        /\ d = o[y[m]].kids[i]
        /\ heap[act.at].name = o[d].name /\ heap[act.at].val = NoVal
        /\ Laid(file, o, y[m], i, b[n], b[m])
    <3>1. Under(file, p, heap, o, fs, y, b) /\ Suspended(file, heap, o, frames, y, b, m, n)
      <4>1. frames \in Seq(Opening) /\ frames # <<>> /\ Len(frames) # 1
        BY <1>1, <1>2, <1>5, <1>6
      <4>2. fs = Front(frames) /\ n = Len(frames) /\ m = Len(fs)
        BY <1>6
      <4>3. Under(file, p, heap, o, frames, y, b)
        BY <2>2
      <4>4. QED
        BY <4>1, <4>2, <4>3, UnderFront
    <3>2. m \in 1..n /\ m \in 1..m /\ n > 1 /\ fs[m] = frames[m]
      BY <1>1, <1>5, <1>6
    <3>3. Last(fs) = fs[Len(fs)]
      BY <1>3, <1>5, FrontAndLast
    <3>4. QED
      BY <1>6, <3>1, <3>2, <3>3 DEF Suspended, act, i, d
  <2>4. /\ y[m] \in Addresses /\ o[y[m]] # Null /\ i \in 1..Len(o[y[m]].kids)
    BY <1>2, <1>3, <1>6, <2>3, UnderTyped DEF i
  <2>5. /\ d \in Addresses /\ o[d] # Null /\ d \in Ids /\ d \in Part(o)
    BY <1>2, <1>5, <1>6, <2>2, <2>3, UnderTyped, SMTT(30) DEF d
  <2>6. Filled(heap, o, act, d, "ThrowException")
    BY <1>5, <1>6, <2>2, <2>3 DEF Under, Rule, act, d
  <2>7. act.left = 0 /\ IsContainer(heap, act.at)
    BY <1>1, <1>2, <1>5, <1>6 DEF Stacked, act
  <2>8. i = Done(o, fs[m], y[m]) + 1
    BY DEF i
  <2>9. Laid(file, o, y[m], i, pos', b[m])
    <3>1. Len(o[d].kids) \in Nat
      BY <1>2, <2>5, TreesInIs
    <3>2. Done(o, act, d) = Len(o[d].kids)
      BY <2>7, <3>1 DEF Done
    <3>3. Laid(file, o, d, Len(o[d].kids), pos, b[n])
      BY <2>2, <3>2 DEF act, d
    <3>4. pos = b[n]
      BY <3>3, LaidDone
    <3>5. QED
      BY <1>1, <2>3, <3>4
  <2>10. /\ \A q : Offering(heap, x, q) = Offers(o, y[m], q)[i]
         /\ Restores(o, d) /\ Holding(heap, x) = {}
    <3>1. Complete(heap, o, act, x, d)
      BY <1>6, <2>3, <2>6, <2>7 DEF Complete
    <3>2. d \in Ids /\ o[d] # Null /\ d = o[y[m]].kids[i]
      BY <2>3, <2>5
    <3>3. Ripe(heap, o, x, y[m], i, d)
      BY <2>4, <3>1, <3>2, FilledOffers
    <3>4. QED
      BY <3>3 DEF Ripe
  <2>11. /\ Restores(o, o[y[m]].kids[i])
         /\ Offering(heap, x, Rule(p, m)) = Offers(o, y[m], Rule(p, m))[i]
    BY <2>3, <2>10
  <2>13. fs[m].left > 0 /\ \A k \in 1..m : fs[k].at # x
    BY <1>3, <1>6, <2>3
  <2>14. \/ /\ phase' = "over" /\ ret' = "DeserializeError" /\ ~Loadable(o, p)
         \/ UNCHANGED phase /\ frames' # <<>> /\ Sound(heap') /\ Loading(o)'
    <3>1. m = Len(fs) /\ p = policy[Source]
      BY <1>6
    <3>2. Deliver(heap, x, fs) /\ Sound(heap) /\ Under(file, p, heap, o, fs, y, b)
      BY <1>1, <2>1, <2>3
    <3>3. QED
      BY <1>3, <1>4, <2>8, <2>9, <2>10, <2>11, <2>13, <3>1, <3>2, DeliverLoads
  <2>15. policy'[Source] = p
    BY <1>6, <1>11
  <2>16. CASE phase' = "over" /\ ret' = "DeserializeError" /\ ~Loadable(o, p)
    <3>1. Restored(o)'
      BY <2>15, <2>16 DEF Restored
    <3>2. QED
      BY <2>16, <3>1 DEF Faithful
  <2>17. CASE UNCHANGED phase /\ frames' # <<>> /\ Sound(heap') /\ Loading(o)'
    BY <1>1, <2>17 DEF Faithful
  <2>18. QED
    BY <2>14, <2>16, <2>17
<1>13. Whole' => Whole
  BY <1>11 DEF Whole
<1>14. QED
  BY <1>10, <1>12, <1>13 DEF Reads

LEMMA RefuseItemReads ==
    ASSUME FileSound, NEW o, Proper(o), Reads(o), RefuseItem
    PROVE  Reads(o)'
<1> DEFINE n  == Len(frames)
<1>1. /\ phase = "load" /\ frames # <<>> /\ Last(frames).left > 0 /\ Refuse
      /\ ~GoodLeaf /\ ~GoodContainer
  BY DEF RefuseItem, Reading, Top
<1>2. Intact(o, heap') /\ Apart(o, frames')
  BY <1>1, RefusedIntact DEF Reads
<1>3. ~Whole
  <2>1. ASSUME Whole
        PROVE  FALSE
    <3>1. Loading(o)
      BY <1>1, <2>1 DEF Reads, Faithful
    <3>2. PICK y, b : /\ Under(file, policy[Source], heap, o, frames, y, b)
                      /\ Laid(file, o, y[n], Done(o, frames[n], y[n]), pos, b[n])
      BY <3>1 DEF Loading
    <3>3. Stacked(heap, frames) /\ frames \in Seq(Opening) /\ Sound(o)
      BY DEF FileSound, Good, Stacked, Proper
    <3>4. n \in 1..n /\ Last(frames) = frames[n]
      BY <1>1, <3>3, FrontAndLast
    <3> DEFINE j == Done(o, frames[n], y[n])
    <3>5. /\ y[n] \in Addresses /\ o[y[n]] # Null /\ Len(o[y[n]].kids) \in Nat
          /\ j \in 0..Len(o[y[n]].kids) /\ j + 1 \in 1..Len(o[y[n]].kids)
      BY <1>1, <3>2, <3>3, <3>4, UnderTyped
    <3>6. j \in 0..(Len(o[y[n]].kids) - 1) /\ Laid(file, o, y[n], j, pos, b[n])
      BY <3>2, <3>5
    <3> HIDE DEF j, n
    <3>7. \A d : d = o[y[n]].kids[j + 1] => GoodLeaf \/ GoodContainer
      BY <3>5, <3>6, NextItem
    <3>8. QED
      BY <1>1, <3>7
  <2>2. QED
    BY <2>1
<1>4. ~Whole'
  BY <1>1, <1>3 DEF Refuse, Whole
<1>5. QED
  BY <1>2, <1>4 DEF Reads

LEMMA EndLoadReads ==
    ASSUME FileSound, NEW o, Proper(o), Reads(o), EndLoad
    PROVE  Reads(o)'
<1> DEFINE none == <<>>
           p    == policy[Source]
           act  == frames[1]
<1>1. /\ phase = "load" /\ frames # <<>> /\ Last(frames).left = 0 /\ Len(frames) = 1
      /\ policy' = [policy EXCEPT ![Loaded] = heap[Loaded].policy]
      /\ phase' = "over" /\ frames' = none /\ ret' = "loaded"
      /\ UNCHANGED <<heap, file, damage, pos>>
  BY DEF EndLoad, Reading, Top
<1>2. frames' # <<>> => FALSE
  BY <1>1
<1>3. Apart(o, none)
  BY EmptySeq DEF Apart
<1> HIDE DEF none
<1>4. Intact(o, heap') /\ Apart(o, frames')
  BY <1>1, <1>3 DEF Reads
<1>5. ASSUME Whole
      PROVE  Restored(o)'
  <2>1. Loading(o)
    BY <1>1, <1>5 DEF Reads, Faithful
  <2>2. PICK y, b : Under(file, p, heap, o, frames, y, b)
    BY <2>1 DEF Loading
  <2>3. /\ Stacked(heap, frames) /\ frames \in Seq(Opening) /\ Sound(o) /\ WellTyped(o)
        /\ PoliciesTyped(policy)
    BY DEF FileSound, Good, Control, Stacked, Proper, Sound
  <2>4. Last(frames) = act /\ 1 \in 1..Len(frames)
    BY <1>1, <2>3, FrontAndLast
  <2>5. y[1] = Source /\ Filled(heap, o, act, Source, p)
    BY <2>2, <2>4 DEF Under, Rule
  <2>6. act.at = Loaded /\ act.left = 0
    BY <1>1, <2>3, <2>4 DEF Stacked
  <2>7. /\ Source \in Addresses /\ o[Source] # Null /\ o[Source].kind = "Group"
        /\ Source \in Configs /\ Loaded \in Configs /\ Source # Loaded
    BY <2>3, FileAssumption DEF WellTyped, Addresses
  <2> HIDE DEF act, p
  <2>8. /\ TreesIn(heap, act.at) = Kept(o[Source].kind, Offers(o, Source, p), 0, p)
        /\ Takes(o, Source, p) /\ \A x \in Kids(o, Source) : Restores(o, x)
    BY <2>3, <2>5, <2>6, <2>7, FilledWhole
  <2>9. \A z \in Reach(o, Kids(o, Source)) : Takes(o, z, "ThrowException")
    <3>1. Kids(o, Source) \in SUBSET Ids
      BY <2>3, <2>7, KidsAreIds
    <3>2. QED
      BY <2>3, <2>8, <3>1, RestoresAll
  <2>10. Loadable(o, p)
    BY <2>3, <2>8, <2>9, LoadableIs
  <2>11. heap[Loaded].policy = p
    BY <2>5, <2>6 DEF Filled
  <2>12. policy'[Source] = p /\ policy'[Loaded] = p
    BY <1>1, <2>3, <2>7, <2>11 DEF PoliciesTyped, p
  <2>13. TreesIn(heap, Loaded) = Kept("Group", Offers(o, Source, p), 0, p)
    BY <2>6, <2>7, <2>8
  <2>14. QED
    BY <1>1, <2>10, <2>11, <2>12, <2>13 DEF Restored
<1>6. Whole' => Whole
  BY <1>1 DEF Whole
<1>7. QED
  BY <1>1, <1>4, <1>5, <1>6 DEF Reads, Faithful

\* The root that the reader makes, in the Config that Load returns.
LEMMA RootBegun ==
    ASSUME NEW h, WellTyped(h), Closed(h), Acyclic(h), NEW p,
           NEW item \in Item, item.kind = "Group", item.kids = <<>>, item.policy = p,
           NEW g, Puts(h, Loaded, item, g)
    PROVE  /\ Sound(g) /\ g[Loaded].kind = "Group" /\ g[Loaded].policy = p
           /\ Holding(g, Loaded) = {} /\ TreesIn(g, Loaded) = <<>>
           /\ \A y \in Addresses \ {Loaded} : g[y] = h[y]
<1> DEFINE none == <<>>
<1>1. item.kids = none /\ item.kind \in ContainerKinds
  BY DEF ContainerKinds
<1>3. Len(none) = 0 /\ DOMAIN none = {} /\ ToSet(none) = {}
  BY EmptySeq DEF ToSet
<1> HIDE DEF none
<1>4. Loaded \in Addresses /\ Loaded \in Configs /\ Loaded \notin Ids
  BY FileAssumption, AddressesAssumption DEF Addresses
<1>5. \A k \in 1..Len(item.kids) : h[item.kids[k]] # Null
  BY <1>1, <1>3
<1>6. /\ WellTyped(g) /\ Closed(g) /\ g[Loaded] = item
      /\ \A y \in Addresses \ {Loaded} : g[y] = h[y]
  BY <1>1, <1>4, <1>5, PutItem
<1>7. Acyclic(g)
  <2>1. \A x \in Ids : g[x] # Null /\ Kids(g, x) # {} =>
           h[x] # Null /\ Kids(g, x) \subseteq Kids(h, x)
    BY <1>4, <1>6 DEF Addresses, Kids
  <2>2. QED
    BY <2>1, AcyclicLess
<1>8. Holding(g, Loaded) = {}
  BY <1>4, <1>6, HeldByNone
<1>9. TreesIn(g, Loaded) = <<>>
  <2>1. TreesIn(g, Loaded) = [k \in DOMAIN none |-> TreeAt(g, none[k])]
    BY <1>1, <1>6 DEF TreesIn
  <2>2. QED
    BY <1>3, <2>1
<1>10. QED
  BY <1>1, <1>6, <1>7, <1>8, <1>9 DEF Sound

LEMMA ReadRootReads ==
    ASSUME FileSound, NEW o, Proper(o), Reads(o), ReadRoot
    PROVE  Reads(o)'
<1> DEFINE none == <<>>
<1>1. phase = "load" /\ frames = none
  BY DEF ReadRoot
<1>2. /\ WellTyped(heap) /\ Closed(heap) /\ WellTyped(o) /\ Closed(o) /\ Sound(o)
      /\ Intact(o, heap)
  BY DEF FileSound, Good, Proper, Sound, Reads
<1>3. CASE Refuse /\ ~GoodRoot
  <2>1. Intact(o, heap') /\ Apart(o, frames')
    BY <1>2, <1>3, RefusedIntact
  <2>2. ~Whole
    BY <1>1, <1>3, RootItem DEF Reads, Faithful
  <2>3. ~Whole'
    BY <1>3, <2>2 DEF Refuse, Whole
  <2>4. QED
    BY <2>1, <2>3 DEF Reads
<1>4. ASSUME GoodRoot,
             NEW p, p = IF Taken(1) = "absent" THEN "ThrowException" ELSE Taken(1),
             heap' = [heap EXCEPT ![Loaded] = [NewItem("Group", Taken(3), NoVal) EXCEPT !.policy = p]],
             frames' = <<[at |-> Loaded, left |-> Taken(5)]>>, pos' = pos + 5,
             UNCHANGED <<policy, file, damage, phase, ret>>
      PROVE  Reads(o)'
  <2> DEFINE f    == [at |-> Loaded, left |-> Taken(5)]
             item == [NewItem("Group", Taken(3), NoVal) EXCEPT !.policy = p]
  <2>1. Puts(heap, Loaded, item, heap')
    BY <1>4 DEF Puts
  <2>2. /\ Loaded \in Addresses /\ Loaded \notin Part(o) /\ Part(o) \subseteq Addresses
    BY <1>2, PartClosed, FileAssumption, AddressesAssumption DEF Addresses
  <2>3. /\ Len(<<f>>) = 1 /\ <<f>>[1] = f /\ f.at = Loaded /\ f.left = Taken(5)
        /\ frames' = <<f>>
    BY <1>4
  <2>10. item.kind = "Group" /\ item.kids = <<>> /\ item.policy = p
    BY DEF NewItem
  <2>11. Taken(3) \in AnyName /\ p \in Policies => item \in Item
    BY EmptySeq DEF NewItem, Item, AnyPolicy, Kinds, ContainerKinds
  <2> HIDE DEF f, item
  <2>4. \A y \in Addresses \ {Loaded} : heap'[y] = heap[y]
    BY <1>2, <2>1 DEF Puts, WellTyped
  <2>5. Intact(o, heap')
    BY <1>2, <2>2, <2>4 DEF Intact
  <2>6. Apart(o, frames')
    BY <2>2, <2>3 DEF Apart
  <2>7. ASSUME Whole
        PROVE  Faithful(o)'
    <3>1. pos = 3 /\ FileOf(o) /\ Sound(heap)
      BY <1>1, <2>7 DEF Reads, Faithful
    <3>2. /\ Taken(1) = policy[Source] /\ policy[Source] \in Policies
          /\ Taken(5) = Len(o[Source].kids) /\ Taken(3) \in AnyName
          /\ \E e : Laid(file, o, Source, 0, pos + 5, e)
      BY <3>1, RootItem
    <3>3. p = policy[Source]
      BY <1>4, <3>2 DEF Policies
    <3>4. /\ Sound(heap') /\ heap'[Loaded].kind = "Group" /\ heap'[Loaded].policy = p
          /\ Holding(heap', Loaded) = {} /\ TreesIn(heap', Loaded) = <<>>
      <4>1. item \in Item
        BY <2>11, <3>2, <3>3
      <4>2. WellTyped(heap) /\ Closed(heap) /\ Acyclic(heap)
        BY <3>1 DEF Sound
      <4>3. QED
        BY <2>1, <2>10, <4>1, <4>2, RootBegun
    <3>5. Source \in Addresses /\ o[Source] # Null /\ o[Source].kind = "Group"
      BY <1>2, FileAssumption DEF Addresses, WellTyped
    <3>6. Filled(heap', o, f, Source, p)
      BY <1>2, <2>3, <3>2, <3>4, <3>5, FilledNone
    <3>7. Done(o, f, Source) = 0
      <4>1. Len(o[Source].kids) \in Nat
        BY <1>2, <3>5, TreesInIs
      <4>2. QED
        BY <2>3, <3>2, <4>1 DEF Done
    <3>8. PICK e : Laid(file, o, Source, 0, pos + 5, e)
      BY <3>2
    <3> DEFINE y == [k \in {1} |-> Source]
               b == [k \in {1} |-> e]
    <3>9. y[1] = Source /\ b[1] = e
      OBVIOUS
    <3> HIDE DEF y, b
    <3>10. Under(file, p, heap', o, <<f>>, y, b)
      <4>1. \A k \in 1..Len(<<f>>) : k = 1
        BY <2>3
      <4>2. \A k \in 1..Len(<<f>>) :
               y[k] \in Part(o) /\ Filled(heap', o, <<f>>[k], y[k], Rule(p, k))
        BY <2>3, <3>6, <3>9, <4>1 DEF Rule, Part
      <4>3. \A k \in 1..(Len(<<f>>) - 1) : FALSE
        BY <2>3
      <4>4. QED
        BY <3>9, <4>2, <4>3 DEF Under
    <3>11. Laid(file, o, y[1], Done(o, <<f>>[1], y[1]), pos', b[1])
      BY <1>4, <2>3, <3>7, <3>8, <3>9
    <3>12. file' = file /\ policy'[Source] = p /\ Len(frames') = 1 /\ frames' = <<f>>
      BY <1>4, <2>3, <3>3
    <3>13. \E u, v :
              /\ Under(file', policy'[Source], heap', o, frames', u, v)
              /\ Laid(file', o, u[Len(frames')],
                      Done(o, frames'[Len(frames')], u[Len(frames')]), pos', v[Len(frames')])
      BY <3>10, <3>11, <3>12
    <3>14. Loading(o)'
      BY <3>13 DEF Loading
    <3>15. frames' # <<>> /\ phase' = "load"
      BY <1>1, <1>4, <3>12, EmptySeq
    <3>16. QED
      BY <3>4, <3>14, <3>15 DEF Faithful
  <2>8. Whole' => Whole
    BY <1>4 DEF Whole
  <2>9. QED
    BY <2>5, <2>6, <2>7, <2>8 DEF Reads
<1>5. QED
  BY <1>3, <1>4 DEF ReadRoot

-----------------------------------------------------------------------------
(* The document that was saved is what a load of its file comes to *)

LEMMA InitRestoring ==
    ASSUME Init
    PROVE  Restoring
<1>1. /\ heap = [x \in Addresses |-> IF x \in Configs THEN EmptyRoot ELSE Null]
      /\ phase = "edit"
  BY DEF Init
<1>2. \A x \in Ids : heap[x] = Null
  BY <1>1, AddressesAssumption DEF Addresses
<1>3. WellTyped(heap) /\ Closed(heap)
  BY InitSound DEF FileSound, Good
<1>4. Acyclic(heap)
  <2> DEFINE r == [x \in Ids |-> 0]
  <2>1. Descends(heap, r)
    BY <1>2 DEF Descends
  <2>2. QED
    BY <2>1 DEF Acyclic
<1>5. Shaped(heap)
  BY <1>2 DEF Shaped
<1>6. QED
  BY <1>1, <1>3, <1>4, <1>5 DEF Restoring, Proper, Sound

LEMMA EditRestoring ==
    ASSUME Restoring, Edit
    PROVE  Restoring'
<1>1. phase = "edit" /\ phase' = "edit"
  BY DEF Edit, AddNew, RemoveAtIndex, Rename, Assign, OnExistingAction, Editing
<1>2. Proper(heap')
  BY <1>1, EditProper DEF Restoring
<1>3. QED
  BY <1>1, <1>2 DEF Restoring

LEMMA SaveRestoring ==
    ASSUME FileSound, Restoring, Save
    PROVE  Restoring'
<1> DEFINE body == Written(heap, Source)
           root == Field("policy", policy[Source])
           head == <<root>>
<1>1. /\ phase = "edit" /\ file' = Header \o head \o body /\ phase' = "saved"
      /\ heap' = heap /\ policy' = policy
  BY DEF Save
<1>2. /\ Proper(heap) /\ WellTyped(heap) /\ Closed(heap) /\ Source \in Addresses
      /\ heap[Source] # Null /\ policy[Source] \in Policies
  BY <1>1, FileAssumption
     DEF FileSound, Good, Control, PoliciesTyped, Addresses, WellTyped, Restoring
<1>3. body \in Seq(TypedField)
  BY <1>2, WrittenPiece DEF Piece
<1>4. Header \in Seq(TypedField) /\ head \in Seq(TypedField)
  <2>1. /\ "STBTCF" \in Admits("magic") /\ 1 \in Admits("version")
        /\ policy[Source] \in Admits("policy")
    BY <1>2 DEF Admits, AnyPolicy
  <2>2. /\ Field("magic", "STBTCF") \in TypedField /\ Field("version", 1) \in TypedField
        /\ root \in TypedField
    <3>1. \A of \in Fields : \A is \in Admits(of) : Field(of, is) \in TypedField
      BY FieldTyped
    <3>2. QED
      BY <2>1, <3>1 DEF Fields
  <2> HIDE DEF root
  <2>3. QED
    BY <2>2 DEF Header
<1> HIDE DEF body, root
<1>5. /\ Len(Header) = 2 /\ Len(head) = 1 /\ head[1] = root
      /\ Header[1] = Field("magic", "STBTCF") /\ Header[2] = Field("version", 1)
  BY DEF Header
<1> HIDE DEF head
<1> DEFINE top == Header \o head
<1>6. /\ top \in Seq(TypedField) /\ Len(top) = 3 /\ top[3] = root
      /\ top[1] = Field("magic", "STBTCF") /\ top[2] = Field("version", 1)
  <2>1. /\ top \in Seq(TypedField) /\ Len(top) = Len(Header) + Len(head)
        /\ \A k \in 1..Len(Header) : top[k] = Header[k]
        /\ \A k \in 1..Len(head) : top[Len(Header) + k] = head[k]
    BY <1>4, ConcatProperties
  <2> HIDE DEF top
  <2>2. 1 \in 1..2 /\ 2 \in 1..2 /\ 1 \in 1..1 /\ 2 + 1 = 3
    OBVIOUS
  <2>3. QED
    BY <1>5, <2>1, <2>2
<1>7. file' = top \o body
  BY <1>1
<1> HIDE DEF top
<1>8. /\ file' \in Seq(TypedField) /\ Len(file') = 3 + Len(body) /\ Len(body) \in Nat
      /\ \A k \in 1..3 : file'[k] = top[k]
      /\ \A k \in 1..Len(body) : file'[3 + k] = body[k]
  <2>1. top \in Seq(TypedField)
    BY <1>6
  <2>2. /\ file' \in Seq(TypedField) /\ Len(file') = Len(top) + Len(body)
        /\ \A k \in 1..Len(top) : file'[k] = top[k]
        /\ \A k \in 1..Len(body) : file'[Len(top) + k] = body[k]
    BY <1>3, <1>7, <2>1, ConcatProperties
  <2>3. Len(body) \in Nat
    BY <1>3, LenProperties
  <2>4. QED
    BY <1>6, <2>2, <2>3
<1>9. Lies(file', 4, body)
  <2>1. ASSUME NEW k \in 1..Len(body)
        PROVE  file'[4 + k - 1] = body[k]
    <3>1. 4 + k - 1 = 3 + k
      OBVIOUS
    <3>2. QED
      BY <1>8, <3>1
  <2>2. QED
    BY <1>8, <2>1 DEF Lies
<1>10. FileOf(heap)'
  <2>1. /\ file'[1] = Field("magic", "STBTCF") /\ file'[2] = Field("version", 1)
        /\ file'[3] = Field("policy", policy'[Source])
    BY <1>1, <1>6, <1>8 DEF root
  <2>2. Lies(file', 4, Written(heap', Source))
    BY <1>1, <1>9 DEF body
  <2>3. QED
    BY <2>1, <2>2 DEF FileOf
<1>11. QED
  BY <1>1, <1>2, <1>10 DEF Restoring

LEMMA DamageRestoring ==
    ASSUME FileSound, Restoring, Damage
    PROVE  Restoring'
<1>1. /\ phase = "saved" /\ phase' = "saved" /\ damage = "none"
      /\ heap' = heap /\ policy' = policy
      /\ \/ damage' \in {"cut", "altered"}
         \/ damage' = "longer" /\ file' = Append(file, Field("junk", 0))
  BY DEF Damage, Truncate, Extend, Alter, Damaged
<1>2. Proper(heap) /\ FileOf(heap)
  BY <1>1 DEF Restoring, Whole
<1>3. ASSUME damage' = "longer", file' = Append(file, Field("junk", 0))
      PROVE  FileOf(heap)'
  <2> DEFINE w == Written(heap, Source)
  <2>1. file \in Seq(TypedField) /\ Field("junk", 0) \in TypedField
    <3>1. 0 \in Admits("junk") /\ "junk" \in Fields
      BY DEF Admits, Fields
    <3>2. QED
      BY <3>1, FieldTyped DEF FileSound, Control
  <2>2. /\ Len(file) \in Nat /\ Len(file') = Len(file) + 1
        /\ \A k \in 1..Len(file) : file'[k] = file[k]
    BY <1>3, <2>1, AppendKeeps, LenProperties
  <2>3. Sound(heap) /\ Source \in Addresses /\ heap[Source] # Null
    BY <1>2, FileAssumption DEF Proper, Sound, WellTyped, Addresses
  <2>4. Len(w) \in Nat /\ Len(w) > 0
    BY <2>3, WrittenHead
  <2> HIDE DEF w
  <2>5. 4 + Len(w) <= Len(file) + 1 /\ \A k \in 1..Len(w) : file[4 + k - 1] = w[k]
    BY <1>2 DEF FileOf, Lies, w
  <2>6. /\ 1 \in 1..Len(file) /\ 2 \in 1..Len(file) /\ 3 \in 1..Len(file)
        /\ \A k \in 1..Len(w) : 4 + k - 1 \in 1..Len(file)
    BY <2>2, <2>4, <2>5
  <2>7. Lies(file', 4, w)
    BY <2>2, <2>4, <2>5, <2>6 DEF Lies
  <2>8. file'[1] = file[1] /\ file'[2] = file[2] /\ file'[3] = file[3]
    BY <2>2, <2>6
  <2>9. Lies(file', 4, Written(heap', Source)) /\ policy'[Source] = policy[Source]
    BY <1>1, <2>7 DEF w
  <2>10. QED
    BY <1>2, <2>8, <2>9 DEF FileOf
<1>4. Whole' => FileOf(heap)'
  BY <1>1, <1>3 DEF Whole
<1>5. QED
  BY <1>1, <1>2, <1>4 DEF Restoring

LEMMA StartLoadRestoring ==
    ASSUME FileSound, Restoring, StartLoad
    PROVE  Restoring'
<1> DEFINE none == <<>>
<1>1. /\ phase = "saved" /\ Proper(heap) /\ pos = 1 /\ frames = none
      /\ Whole => FileOf(heap)
  BY DEF StartLoad, Restoring, FileSound, Control
<1>2. ASSUME NEW o, o = heap
      PROVE  Restoring'
  <2>1. Proper(o) /\ Intact(o, heap)
    BY <1>1, <1>2 DEF Intact
  <2>2. CASE GoodHeader /\ phase' = "load" /\ pos' = pos + 2
             /\ UNCHANGED <<heap, policy, file, damage, frames, ret>>
    <3>1. Apart(o, none)
      BY EmptySeq DEF Apart
    <3>2. Intact(o, heap') /\ Apart(o, frames')
      BY <1>1, <2>1, <2>2, <3>1
    <3>3. Whole' => FileOf(o)'
      BY <1>1, <1>2, <2>2 DEF Whole, FileOf
    <3>4. Sound(heap') /\ frames' = none /\ pos' = 3
      BY <1>1, <2>2 DEF Proper
    <3>5. Whole' => Faithful(o)'
      BY <2>2, <3>3, <3>4 DEF Faithful
    <3>6. Reads(o)'
      BY <3>2, <3>5 DEF Reads
    <3>7. QED
      BY <2>1, <2>2, <3>6 DEF Restoring
  <2>3. CASE ~GoodHeader /\ Refuse
    <3>1. Intact(o, heap') /\ Apart(o, frames')
      BY <2>1, <2>3, RefusedIntact
    <3>2. ASSUME Whole
          PROVE  FALSE
      <4>1. /\ file[1] = Field("magic", "STBTCF") /\ file[2] = Field("version", 1)
            /\ Lies(file, 4, Written(heap, Source))
        BY <1>1, <3>2 DEF FileOf
      <4>2. Sound(heap) /\ Source \in Addresses /\ heap[Source] # Null
        BY <1>1, FileAssumption DEF Proper, Sound, WellTyped, Addresses
      <4>3. Len(file) \in Nat /\ 4 <= Len(file)
        <5>1. Len(file) \in Nat
          BY LenProperties DEF FileSound, Control
        <5>2. Len(Written(heap, Source)) \in Nat /\ Len(Written(heap, Source)) > 0
          BY <4>2, WrittenHead
        <5>3. 4 + Len(Written(heap, Source)) <= Len(file) + 1
          BY <4>1 DEF Lies
        <5>4. QED
          BY <5>1, <5>2, <5>3
      <4>4. pos + 1 - 1 = 1 /\ pos + 2 - 1 = 2
        BY <1>1
      <4>5. Taken(1) = "STBTCF" /\ Taken(2) = 1
        BY <4>1, <4>4 DEF Taken, Field
      <4>6. Ready(<<"magic", "version">>)
        <5> DEFINE kinds == <<"magic", "version">>
        <5>1. DOMAIN kinds = 1..2 /\ kinds[1] = "magic" /\ kinds[2] = "version"
          OBVIOUS
        <5> HIDE DEF kinds
        <5>2. file[1].of = "magic" /\ file[2].of = "version" /\ 1 <= Len(file) /\ 2 <= Len(file)
          BY <4>1, <4>3 DEF Field
        <5>3. ASSUME NEW k \in DOMAIN kinds
              PROVE  pos + k - 1 <= Len(file) /\ file[pos + k - 1].of = kinds[k]
          <6>1. k = 1 \/ k = 2
            BY <5>1
          <6>2. QED
            BY <4>4, <5>1, <5>2, <6>1
        <5>4. Ready(kinds)
          BY <5>3 DEF Ready
        <5>5. QED
          BY <5>4 DEF kinds
      <4>7. QED
        BY <2>3, <4>5, <4>6 DEF GoodHeader
    <3>3. ~Whole'
      BY <2>3, <3>2 DEF Refuse, Whole
    <3>4. Reads(o)' /\ phase' = "over"
      BY <2>3, <3>1, <3>3 DEF Reads, Refuse
    <3>5. QED
      BY <2>1, <3>4 DEF Restoring
  <2>4. QED
    BY <2>2, <2>3 DEF StartLoad
<1>3. QED
  BY <1>2

LEMMA DiscardRestoring ==
    ASSUME FileSound, Restoring, Discard
    PROVE  Restoring'
<1>1. /\ phase = "over" /\ phase' = "edit"
      /\ heap' = Settled([heap EXCEPT ![Loaded] = EmptyRoot], {})
  BY DEF Discard
<1>2. PICK o : Proper(o) /\ Intact(o, heap)
  BY <1>1 DEF Restoring, Reads
<1>3. Proper(heap')
  BY <1>1, <1>2, ClearedIntact
<1>4. QED
  BY <1>1, <1>3 DEF Restoring

LEMMA LoadStepRestoring ==
    ASSUME FileSound, Restoring, LoadStep
    PROVE  Restoring'
<1>1. phase = "load"
  BY DEF LoadStep, ReadRoot, ReadLeaf, OpenContainer, CloseContainer, RefuseItem,
         EndLoad, Reading
<1>2. phase' \in {"load", "over"}
  BY <1>1 DEF LoadStep, ReadRoot, ReadLeaf, OpenContainer, CloseContainer, RefuseItem,
              EndLoad, Deliver, Refuse
<1>3. PICK o : Proper(o) /\ Reads(o)
  BY <1>1 DEF Restoring
<1>4. Reads(o)'
  BY <1>3, ReadRootReads, ReadLeafReads, OpenContainerReads, CloseContainerReads,
     RefuseItemReads, EndLoadReads DEF LoadStep
<1>5. QED
  BY <1>2, <1>3, <1>4 DEF Restoring

LEMMA NextRestoring ==
    ASSUME FileSound, Restoring, [Next]_vars
    PROVE  Restoring'
<1>1. CASE UNCHANGED vars
  BY <1>1 DEF vars, Restoring, Reads, Faithful, FileOf, Whole, Loading, Restored
<1>2. CASE Next
  BY <1>2, EditRestoring, SaveRestoring, DamageRestoring, StartLoadRestoring,
     LoadStepRestoring, DiscardRestoring DEF Next
<1>3. QED
  BY <1>1, <1>2

\* What a document that is intact in h has to offer is the same there.
LEMMA IntactOffers ==
    ASSUME NEW o, Sound(o), NEW h, WellTyped(h), Intact(o, h), NEW x \in Part(o), NEW p
    PROVE  Offers(h, x, p) = Offers(o, x, p)
<1> DEFINE S == Reach(o, Kids(o, Source))
           s == Stored(o)
           g == Stored(h)
<1>1. WellTyped(o) /\ Closed(o)
  BY DEF Sound
<1>2. /\ S \in SUBSET Ids /\ Part(o) \subseteq Addresses /\ Part(o) = {Source} \cup S
      /\ \A z \in Part(o) : o[z] # Null /\ Kids(o, z) \subseteq S
  BY <1>1, PartClosed DEF Part
<1>3. /\ Sound(s) /\ \A z \in Addresses : o[z] # Null => s[z] # Null
      /\ \A z \in Addresses : Kids(s, z) = Kids(o, z)
  BY StoredSound
<1>4. \A z \in S : z \in Addresses /\ z \in Part(o) /\ h[z] = o[z]
  BY <1>2 DEF Intact
<1>5. \A z \in S : g[z] = s[z]
  BY <1>4 DEF Stored
<1> HIDE DEF S, s, g
<1>6. \A z \in S : s[z] # Null /\ g[z] = s[z] /\ Kids(s, z) \subseteq S
  BY <1>2, <1>3, <1>4, <1>5
<1>7. \A d \in S : TreeAt(g, d) = TreeAt(s, d)
  BY <1>2, <1>3, <1>6, TreeAtSame
<1>8. x \in Addresses /\ o[x] # Null /\ h[x] = o[x] /\ Kids(o, x) \subseteq S
  BY <1>2 DEF Intact
<1>9. \A k \in DOMAIN o[x].kids : o[x].kids[k] \in S
  BY <1>1, <1>8, TreesInIs
<1>10. \A k \in DOMAIN o[x].kids :
          Adopted(TreeAt(g, o[x].kids[k]), p) = Adopted(TreeAt(s, o[x].kids[k]), p)
  BY <1>7, <1>9
<1>11. QED
  BY <1>8, <1>10 DEF Offers, s, g

LEMMA IntactLoadable ==
    ASSUME NEW o, Sound(o), NEW h, WellTyped(h), Intact(o, h), NEW p
    PROVE  Loadable(h, p) <=> Loadable(o, p)
<1>1. WellTyped(o) /\ Closed(o)
  BY DEF Sound
<1>2. /\ Source \in Part(o) /\ Reach(h, Kids(h, Source)) = Reach(o, Kids(o, Source))
      /\ Reach(o, Kids(o, Source)) \subseteq Part(o)
  BY <1>1, PartClosed, IntactReach DEF Part
<1>3. \A x \in Part(o) : \A q : Offers(h, x, q) = Offers(o, x, q)
  BY IntactOffers
<1>4. \A x \in Part(o) : Restorable(h, x) <=> Restorable(o, x)
  BY <1>3 DEF Restorable, Intact
<1>5. QED
  BY <1>2, <1>3, <1>4 DEF Loadable

\* A load of a file that is whole gives back the document that was saved, the same
\* items with the same names and payloads in the same order, as far as Add lets it;
\* it is an error only where a change made in place, after an item was added, has
\* left what Add refuses: ReaderV1::Read and Binary::Writer agree on the layout.
THEOREM LoadsRestore == Spec => []LoadRestores
<1>1. FileSound /\ Restoring => LoadRestores
  <2>1. ASSUME FileSound, Restoring, phase = "over", damage \in {"none", "longer"}
        PROVE  IF Loadable(heap, policy[Source])
               THEN /\ ret = "loaded"
                    /\ TreesIn(heap, Loaded) =
                          Kept("Group", Offers(heap, Source, policy[Source]), 0, policy[Source])
                    /\ policy[Loaded] = policy[Source]
                    /\ heap[Loaded].policy = policy[Source]
               ELSE ret = "DeserializeError"
    <3>1. PICK o : Proper(o) /\ Intact(o, heap) /\ Restored(o)
      BY <2>1 DEF Restoring, Reads, Whole, Faithful
    <3>2. Sound(o) /\ WellTyped(heap) /\ Source \in Part(o)
      BY <2>1, <3>1 DEF Proper, FileSound, Good, Part
    <3>3. Offers(heap, Source, policy[Source]) = Offers(o, Source, policy[Source])
      BY <3>1, <3>2, IntactOffers
    <3>4. Loadable(heap, policy[Source]) <=> Loadable(o, policy[Source])
      BY <3>1, <3>2, IntactLoadable
    <3>5. QED
      BY <3>1, <3>3, <3>4 DEF Restored
  <2>2. QED
    BY <2>1 DEF LoadRestores
<1>2. Init => Restoring
  BY InitRestoring
<1>3. FileSound /\ Restoring /\ [Next]_vars => Restoring'
  BY NextRestoring
<1>4. QED
  BY <1>1, <1>2, <1>3, FileSoundness, PTL DEF Spec
=============================================================================
