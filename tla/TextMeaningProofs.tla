------------------------- MODULE TextMeaningProofs -------------------------
(***************************************************************************)
(* Proofs that TextRead delivers what the text of a document means, and     *)
(* refuses only what it has cause to.                                       *)
(***************************************************************************)
EXTENDS TextMeaning, TextReadGrammar, TreesProofs

(* Where the items of a document stand *)

\* E is D with one token more.
IsLonger(D, t, E, n) ==
    /\ E \in Seq(Token) /\ n \in Nat /\ Len(E) = n + 1 /\ E[n + 1] = t
    /\ DOMAIN D = 1..n /\ DOMAIN E = 1..(n + 1)
    /\ \A k \in 1..n : E[k] = D[k]
    /\ \A k \in 0..n : Depth(E, k) = Depth(D, k) /\ Depth(D, k) \in Int
    /\ Depth(E, n + 1) = CASE t.type \in Openers -> Depth(D, n) + 1
                           [] t.type \in Closers -> Depth(D, n) - 1
                           [] OTHER -> Depth(D, n)
    /\ Depth(E, n + 1) \in Int
    /\ \A k \in 1..(n + 1) : Around(E, k) = Around(D, k) /\ Around(D, k) \in 0..(k - 1)

LEMMA Longer ==
    ASSUME NEW D \in Seq(Token), NEW t \in Token, NEW E, Appends(E, D, t), NEW n, n = Len(D)
    PROVE  IsLonger(D, t, E, n)
<1> USE DEF Appends
<1>1. /\ E \in Seq(Token) /\ n \in Nat /\ Len(E) = n + 1 /\ E[n + 1] = t
      /\ DOMAIN D = 1..n /\ DOMAIN E = 1..(n + 1)
      /\ \A k \in 1..n : E[k] = D[k]
  BY LenProperties, AppendKeeps
<1>2. \A k \in 0..n : Depth(E, k) = Depth(D, k) /\ Depth(D, k) \in Int
  BY <1>1, DepthMore, DepthIs
<1>3. /\ Depth(E, n + 1) = CASE t.type \in Openers -> Depth(D, n) + 1
                             [] t.type \in Closers -> Depth(D, n) - 1
                             [] OTHER -> Depth(D, n)
      /\ Depth(E, n + 1) \in Int
  BY <1>1, DepthMore, DepthIs
<1>4. \A k \in 1..(n + 1) : Around(E, k) = Around(D, k)
  BY AroundMore
<1>5. \A k \in 1..(n + 1) : Around(D, k) \in 0..(k - 1)
  BY <1>1, AroundIs
<1>6. QED
  BY <1>1, <1>2, <1>3, <1>4, <1>5 DEF IsLonger

\* The bracket since which the document has been no less deep is the one around
\* what comes next.
LEMMA AroundTop ==
    ASSUME NEW D, NEW k \in Nat \ {0}, NEW j \in 0..(k - 1),
           j # 0 => D[j].type \in Openers /\ Depth(D, j) = Depth(D, k - 1),
           \A i \in j..(k - 1) : Depth(D, i) >= Depth(D, k - 1)
    PROVE  Around(D, k) = j
<1> DEFINE a == Around(D, k)
<1>b. a \in 0..(k - 1)
  BY AroundIs
<1>1. /\ a # 0 => Encloses(D, a, k)
      /\ \A i \in 1..(k - 1) : Encloses(D, i, k) => i <= a
  BY AroundIs
<1>2. \A i \in 0..(k - 1) : Depth(D, i) \in Int
  BY DepthIs
<1> HIDE DEF a
<1>c. k \in Nat /\ j \in Nat /\ j <= k - 1
  OBVIOUS
<1>a. a \in Nat /\ a <= k - 1 /\ j \in Nat /\ j <= k - 1 /\ k \in Nat
  BY ONLY <1>b, <1>c
<1>3. j <= a
  <2>1. CASE j = 0
    BY <1>a, <2>1
  <2>2. CASE j # 0
    <3>1. j \in 1..(k - 1)
      BY <2>2
    <3>2. Encloses(D, j, k)
      BY <2>2, <3>1 DEF Encloses
    <3>3. QED
      BY <1>1, <3>1, <3>2
  <2>3. QED
    BY <2>1, <2>2
<1>4. ASSUME j < a
      PROVE  FALSE
  <2>1. a \in 1..(k - 1) /\ a - 1 \in j..(k - 1) /\ k - 1 \in a..(k - 1) /\ a \in Nat \ {0}
    BY <1>a, <1>4
  <2>2. D[a].type \in Openers /\ Depth(D, k - 1) >= Depth(D, a)
    BY <1>1, <2>1 DEF Encloses
  <2>3. Depth(D, a) = Depth(D, a - 1) + 1
    BY <2>1, <2>2, OpenerDeepens
  <2>4. Depth(D, a - 1) >= Depth(D, k - 1)
    BY <2>1
  <2>5. a - 1 \in 0..(k - 1) /\ a \in 0..(k - 1) /\ k - 1 \in 0..(k - 1)
    BY <2>1
  <2>6. QED
    BY <1>2, <2>2, <2>3, <2>4, <2>5
<1>5. a = j
  BY <1>a, <1>3, <1>4
<1>6. QED
  BY <1>5 DEF a

\* The positions of the items directly inside the bracket at j.
Inside(D, j) ==
    {k \in DOMAIN D : /\ D[k].type \in ItemTokens /\ Around(D, k) = j
                      /\ D[k].type \in Openers => IsClosed(D, k)}

LEMMA ItemsInIs ==
    ASSUME NEW D \in Seq(Token), NEW j, NEW s, s = ItemsIn(D, j)
    PROVE  /\ s = InOrder(Inside(D, j), Len(D))
           /\ s \in Seq(Nat) /\ Len(s) \in Nat /\ DOMAIN s = 1..Len(s)
           /\ Len(D) \in Nat /\ DOMAIN D = 1..Len(D)
           /\ \A i \in 1..Len(s) : /\ s[i] \in 1..Len(D) /\ s[i] \in Inside(D, j)
                                   /\ Around(D, s[i]) = j /\ j \in 0..(s[i] - 1)
                                   /\ D[s[i]].type \in Openers => IsClosed(D, s[i])
<1>1. s = InOrder(Inside(D, j), Len(D))
  BY DEF ItemsIn, Inside
<1>2. Len(D) \in Nat /\ DOMAIN D = 1..Len(D)
  BY LenProperties
<1>3. /\ s \in Seq(Nat) /\ Len(s) \in Nat /\ DOMAIN s = 1..Len(s)
      /\ \A i \in 1..Len(s) : s[i] \in Inside(D, j) /\ s[i] \in 1..Len(D)
  BY <1>1, <1>2, InOrderSeq
<1>4. \A k \in Inside(D, j) : /\ Around(D, k) = j /\ k \in 1..Len(D)
                              /\ D[k].type \in Openers => IsClosed(D, k)
  BY <1>2 DEF Inside
<1>5. \A k \in 1..Len(D) : Around(D, k) \in 0..(k - 1)
  BY <1>2, AroundIs
<1>6. QED
  BY <1>1, <1>2, <1>3, <1>4, <1>5

-----------------------------------------------------------------------------
(* What the items of a document mean *)

\* What the item at k means, if f says so of those after it.
MeaningBy(D, p, f, k) ==
    LET kind   == IF D[k].type = "LBrace" THEN "Group" ELSE "List"
        inside == ItemsIn(D, k)
    IN  IF D[k].type \in Openers
        THEN Node(kind, Label(D, k), NoVal, p,
                  Kept(kind, [i \in DOMAIN inside |-> f[inside[i]]], 0, p))
        ELSE Node(D[k].type, Label(D, k), D[k].text, "ThrowException", <<>>)

LEMMA MeaningByLater ==
    ASSUME NEW D \in Seq(Token), NEW p, NEW f, NEW g, NEW k \in 1..Len(D),
           \A x \in 1..Len(D) : k < x => f[x] = g[x]
    PROVE  MeaningBy(D, p, f, k) = MeaningBy(D, p, g, k)
<1> DEFINE s == ItemsIn(D, k)
<1>1. /\ DOMAIN s = 1..Len(s) /\ Len(D) \in Nat
      /\ \A i \in 1..Len(s) : s[i] \in 1..Len(D) /\ k \in 0..(s[i] - 1)
  BY ItemsInIs
<1>2. s = ItemsIn(D, k)
  OBVIOUS
<1> HIDE DEF s
<1>3. \A i \in DOMAIN s : f[s[i]] = g[s[i]]
  <2>1. ASSUME NEW i \in 1..Len(s)
        PROVE  f[s[i]] = g[s[i]]
    <3>1. s[i] \in 1..Len(D) /\ k \in 0..(s[i] - 1)
      BY <1>1
    <3>2. k < s[i]
      BY <3>1
    <3>3. QED
      BY <3>1, <3>2
  <2>2. QED
    BY <1>1, <2>1
<1>4. [i \in DOMAIN s |-> f[s[i]]] = [i \in DOMAIN s |-> g[s[i]]]
  BY <1>3
<1>5. QED
  BY <1>2, <1>4 DEF MeaningBy

\* The meanings of the items from j on.
MeaningsFrom(D, p, j, f) == f = [k \in j..Len(D) |-> MeaningBy(D, p, f, k)]

LEMMA MeaningsExist ==
    ASSUME NEW D \in Seq(Token), NEW p
    PROVE  \E f : MeaningsFrom(D, p, 1, f)
<1> DEFINE L == Len(D)
           Bad == {i \in 0..L : ~\E f : MeaningsFrom(D, p, L + 1 - i, f)}
<1>1. L \in Nat
  BY LenProperties
<1>2. Bad = {}
  <2>1. SUFFICES ASSUME Bad # {}
                 PROVE  FALSE
    OBVIOUS
  <2>2. PICK j \in Bad : \A i \in Bad : j <= i
    <3>1. Bad \in SUBSET Nat
      BY <1>1
    <3> HIDE DEF Bad
    <3>2. QED
      BY <2>1, <3>1, LeastElement
  <2>3. j \in 0..L /\ ~\E f : MeaningsFrom(D, p, L + 1 - j, f)
    OBVIOUS
  <2>4. CASE j = 0
    <3> DEFINE f == [k \in (L + 1)..L |-> k]
    <3>1. \A k \in (L + 1)..L : FALSE
      BY <1>1
    <3>2. f = [k \in (L + 1)..L |-> MeaningBy(D, p, f, k)]
      BY <3>1
    <3> HIDE DEF f
    <3>3. L + 1 - j = L + 1
      BY <1>1, <2>4
    <3>4. QED
      BY <2>3, <3>2, <3>3 DEF MeaningsFrom
  <2>5. CASE j # 0
    <3>1. j - 1 \in 0..L /\ j - 1 \notin Bad
      BY <1>1, <2>2, <2>3, <2>5
    <3> DEFINE m == L + 1 - j
    <3>2. /\ m \in 1..L /\ L + 1 - (j - 1) = m + 1
          /\ \A k \in m..L : k \in 1..L /\ (k = m \/ k \in (m + 1)..L)
          /\ \A k \in (m + 1)..L : k \in m..L /\ k # m
      BY <1>1, <2>3, <2>5
    <3>3. PICK f : MeaningsFrom(D, p, m + 1, f)
      BY <3>1, <3>2
    <3> HIDE DEF m
    <3>4. \A k \in (m + 1)..L : f[k] = MeaningBy(D, p, f, k)
      BY <3>3 DEF MeaningsFrom
    <3> DEFINE g == [k \in m..L |-> IF k = m THEN MeaningBy(D, p, f, m) ELSE f[k]]
    <3>5. g = [k \in m..L |-> g[k]]
      OBVIOUS
    <3>6. /\ m \in m..L => g[m] = MeaningBy(D, p, f, m)
          /\ \A k \in (m + 1)..L : g[k] = f[k]
      BY <3>2
    <3>7. m \in m..L
      BY <1>1, <3>2
    <3> HIDE DEF g
    <3>8. ASSUME NEW k \in m..L
          PROVE  g[k] = MeaningBy(D, p, g, k)
      <4>1. k \in 1..L
        BY <3>2
      <4>2. \A x \in 1..L : k < x => f[x] = g[x]
        <5>1. \A x \in 1..L : k < x => x \in (m + 1)..L
          BY <1>1, <3>2
        <5>2. QED
          BY <3>6, <5>1
      <4>3. MeaningBy(D, p, f, k) = MeaningBy(D, p, g, k)
        BY <4>1, <4>2, MeaningByLater
      <4>4. g[k] = MeaningBy(D, p, f, k)
        BY <3>2, <3>4, <3>6, <3>7
      <4>5. QED
        BY <4>3, <4>4
    <3>9. g = [k \in m..L |-> MeaningBy(D, p, g, k)]
      BY <3>5, <3>8
    <3>10. QED
      BY <2>3, <3>9 DEF MeaningsFrom, m
  <2>6. QED
    BY <2>4, <2>5
<1>3. L \in 0..L /\ L + 1 - L = 1
  BY <1>1
<1>4. QED
  BY <1>2, <1>3

LEMMA MeaningIs ==
    ASSUME NEW D \in Seq(Token), NEW p, NEW k \in 1..Len(D)
    PROVE  Meaning(D, k, p) = MeaningBy(D, p, Meanings(D, p), k)
<1> DEFINE Is(f) == f = [i \in DOMAIN D |-> MeaningBy(D, p, f, i)]
<1>1. DOMAIN D = 1..Len(D)
  BY LenProperties
<1>2. \E f : Is(f)
  BY <1>1, MeaningsExist DEF MeaningsFrom
<1>3. Meanings(D, p) = CHOOSE f : Is(f)
  BY DEF Meanings, MeaningBy
<1> HIDE DEF Is
<1>4. Is(Meanings(D, p))
  BY <1>2, <1>3
<1>5. Meanings(D, p)[k] = MeaningBy(D, p, Meanings(D, p), k)
  BY <1>1, <1>4 DEF Is
<1>6. QED
  BY <1>5 DEF Meaning

\* The trees of what is directly inside the bracket at j.
Within(D, j, p) == [i \in DOMAIN ItemsIn(D, j) |-> Meaning(D, ItemsIn(D, j)[i], p)]

\* An item of one token, and a container.
LEMMA MeaningOf ==
    ASSUME NEW D \in Seq(Token), NEW p, NEW k \in 1..Len(D)
    PROVE  /\ D[k].type \notin Openers =>
                 Meaning(D, k, p) =
                    Node(D[k].type, Label(D, k), D[k].text, "ThrowException", <<>>)
           /\ D[k].type \in Openers =>
                 LET kind == IF D[k].type = "LBrace" THEN "Group" ELSE "List"
                 IN  Meaning(D, k, p) =
                        Node(kind, Label(D, k), NoVal, p, Kept(kind, Within(D, k, p), 0, p))
<1>1. Meaning(D, k, p) = MeaningBy(D, p, Meanings(D, p), k)
  BY MeaningIs
<1> DEFINE s == ItemsIn(D, k)
<1>2. Within(D, k, p) = [i \in DOMAIN s |-> Meanings(D, p)[s[i]]]
  BY DEF Within, Meaning
<1>3. QED
  BY <1>1, <1>2 DEF MeaningBy

-----------------------------------------------------------------------------
(* One token later *)

LEMMA ClosedMore ==
    ASSUME NEW D \in Seq(Token), NEW t \in Token, NEW E, Appends(E, D, t), NEW n, n = Len(D)
    PROVE  /\ \A k \in 1..n : IsClosed(E, k) <=> IsClosed(D, k) \/ Depth(E, n + 1) < Depth(D, k)
           /\ ~IsClosed(E, n + 1)
<1>0. IsLonger(D, t, E, n)
  BY Longer
<1>1. /\ n \in Nat /\ Len(E) = n + 1 /\ \A k \in 0..n : Depth(E, k) = Depth(D, k)
  BY <1>0 DEF IsLonger
<1>2. ASSUME NEW k \in 1..n
      PROVE  IsClosed(E, k) <=> IsClosed(D, k) \/ Depth(E, n + 1) < Depth(D, k)
  <2>1. \A m \in (k + 1)..(n + 1) : m \in (k + 1)..n \/ m = n + 1
    BY <1>1
  <2>2. /\ \A m \in (k + 1)..n : m \in (k + 1)..(n + 1) /\ m \in 0..n
        /\ n + 1 \in (k + 1)..(n + 1) /\ k \in 0..n
    BY <1>1
  <2>3. QED
    BY <1>1, <2>1, <2>2 DEF IsClosed
<1>3. ~IsClosed(E, n + 1)
  <2>1. \A m \in (n + 1 + 1)..(n + 1) : FALSE
    BY <1>1
  <2>2. QED
    BY <1>1, <2>1 DEF IsClosed
<1>4. QED
  BY <1>2, <1>3

\* What is in a bracket that has been closed stays as it is.
LEMMA ClosedItems ==
    ASSUME NEW D \in Seq(Token), NEW t \in Token, NEW E, Appends(E, D, t), NEW n, n = Len(D),
           NEW k \in 1..n, IsClosed(D, k)
    PROVE  ItemsIn(E, k) = ItemsIn(D, k)
<1>0. IsLonger(D, t, E, n)
  BY Longer
<1>1. /\ n \in Nat /\ Len(E) = n + 1 /\ \A i \in 1..n : E[i] = D[i]
      /\ DOMAIN D = 1..n /\ DOMAIN E = 1..(n + 1)
      /\ \A i \in 0..n : Depth(D, i) \in Int
      /\ \A i \in 1..(n + 1) : Around(E, i) = Around(D, i)
  BY <1>0 DEF IsLonger
<1>2. PICK m \in (k + 1)..n : Depth(D, m) < Depth(D, k)
  BY DEF IsClosed
<1>3. m \in 1..n /\ k \in 0..n /\ m \in 0..n /\ k < m
  BY <1>1, <1>2
\* Only what comes before the bracket is closed is inside of it.
<1>4. ASSUME NEW x \in 1..(n + 1), Around(D, x) = k
      PROVE  x <= m
  <2>1. SUFFICES ASSUME m < x
                 PROVE  FALSE
    BY <1>3, <1>4
  <2>2. Encloses(D, k, x)
    BY <1>3, <1>4, AroundIs
  <2>3. m \in k..(x - 1)
    BY <1>3, <2>1
  <2>4. Depth(D, m) >= Depth(D, k)
    BY <2>2, <2>3 DEF Encloses
  <2>5. QED
    BY <1>1, <1>2, <1>3, <2>4
<1>5. ASSUME NEW x \in 1..n, Around(D, x) = k, D[x].type \in Openers
      PROVE  IsClosed(D, x)
  <2>1. Encloses(D, k, x)
    BY <1>3, <1>5, AroundIs
  <2>2. k \in 1..(x - 1) /\ x - 1 \in k..(x - 1) /\ x \in Nat \ {0}
    BY <2>1 DEF Encloses
  <2>3. Depth(D, x - 1) >= Depth(D, k)
    BY <2>1, <2>2 DEF Encloses
  <2>4. Depth(D, x) = Depth(D, x - 1) + 1
    BY <1>5, <2>2, OpenerDeepens
  <2>5. x <= m /\ x \in 0..n /\ x - 1 \in 0..n
    BY <1>1, <1>4, <1>5
  <2>6. Depth(D, m) < Depth(D, x) /\ x # m
    BY <1>1, <1>2, <1>3, <2>3, <2>4, <2>5
  <2>7. m \in (x + 1)..n
    BY <1>3, <2>5, <2>6
  <2>8. QED
    BY <2>6, <2>7 DEF IsClosed
<1>6. \A x \in 1..n : IsClosed(D, x) => IsClosed(E, x)
  BY ClosedMore
<1>7. \A x \in Nat \ {0} : x \in Inside(D, k) /\ x <= n <=> x \in Inside(E, k) /\ x <= n + 1
  <2>1. ASSUME NEW x \in Nat \ {0}
        PROVE  x \in Inside(D, k) /\ x <= n <=> x \in Inside(E, k) /\ x <= n + 1
    <3>1. CASE x <= n
      <4>1. x \in 1..n /\ x \in 1..(n + 1) /\ x <= n + 1
        BY <1>1, <3>1
      <4>2. E[x] = D[x] /\ Around(E, x) = Around(D, x)
        BY <1>1, <4>1
      <4>3. Around(D, x) = k /\ D[x].type \in Openers => IsClosed(D, x) /\ IsClosed(E, x)
        BY <1>5, <1>6, <4>1
      <4>4. QED
        BY <1>1, <3>1, <4>1, <4>2, <4>3 DEF Inside
    <3>2. CASE x = n + 1
      <4>1. x \in 1..(n + 1) /\ ~(x <= m) /\ ~(x <= n)
        BY <1>1, <1>3, <3>2
      <4>2. Around(E, x) # k
        BY <1>1, <1>4, <4>1
      <4>3. QED
        BY <4>1, <4>2 DEF Inside
    <3>3. CASE n + 1 < x
      BY <1>1, <3>3
    <3>4. QED
      BY <1>1, <3>1, <3>2, <3>3
  <2>2. QED
    BY <2>1
<1>8. InOrder(Inside(E, k), n + 1) = InOrder(Inside(D, k), n)
  <2>1. n + 1 \in Nat
    BY <1>1
  <2>2. QED
    BY <1>1, <1>7, <2>1, InOrderSame
<1>9. QED
  BY <1>1, <1>8 DEF ItemsIn, Inside

LEMMA LabelSame ==
    ASSUME NEW D \in Seq(Token), NEW t \in Token, NEW E, Appends(E, D, t), NEW n, n = Len(D),
           Viable(D), NEW k \in 1..n
    PROVE  Label(E, k) = Label(D, k)
<1>0. IsLonger(D, t, E, n)
  BY Longer
<1>1. n \in Nat /\ DOMAIN D = 1..n /\ \A i \in 1..n : E[i] = D[i]
  BY <1>0 DEF IsLonger
<1>2. k > 1 => E[k - 1] = D[k - 1]
  BY <1>1
<1>3. Follows(E, k, {"Equal"}) <=> Follows(D, k, {"Equal"})
  BY <1>2 DEF Follows
<1>4. ASSUME Follows(D, k, {"Equal"})
      PROVE  E[k - 2] = D[k - 2]
  <2>1. k > 1 /\ D[k - 1].type = "Equal" /\ k - 1 \in 1..n
    BY <1>1, <1>4 DEF Follows
  <2>2. Follows(D, k - 1, {"Identifier"})
    BY <1>1, <2>1 DEF Viable
  <2>3. k - 2 \in 1..n
    BY <1>1, <2>1, <2>2 DEF Follows
  <2>4. QED
    BY <1>1, <2>3
<1>5. QED
  BY <1>3, <1>4 DEF Label

\* An item of one token, or one whose bracket has been closed.
Whole(D, k) == D[k].type \in Openers => IsClosed(D, k)

\* It keeps its meaning.
LEMMA MeaningSame ==
    ASSUME NEW D \in Seq(Token), NEW t \in Token, NEW E, Appends(E, D, t), NEW n, n = Len(D),
           Viable(D), NEW p, NEW k \in 1..n, Whole(D, k)
    PROVE  Meaning(E, k, p) = Meaning(D, k, p)
<1> DEFINE Bad == {i \in 0..n : /\ n - i \in 1..n /\ Whole(D, n - i)
                                /\ Meaning(E, n - i, p) # Meaning(D, n - i, p)}
<1>0. IsLonger(D, t, E, n)
  BY Longer
<1>1. /\ n \in Nat /\ Len(E) = n + 1 /\ \A i \in 1..n : E[i] = D[i]
      /\ E \in Seq(Token)
  BY <1>0 DEF IsLonger
<1>2. Bad = {}
  <2>1. SUFFICES ASSUME Bad # {}
                 PROVE  FALSE
    OBVIOUS
  <2>2. PICK j \in Bad : \A i \in Bad : j <= i
    <3>1. Bad \in SUBSET Nat
      BY <1>1
    <3> HIDE DEF Bad
    <3>2. QED
      BY <2>1, <3>1, LeastElement
  <2> DEFINE x == n - j
  <2>3. x \in 1..n /\ Whole(D, x) /\ Meaning(E, x, p) # Meaning(D, x, p) /\ j \in 0..n
    OBVIOUS
  <2>4. ASSUME NEW y \in 1..n, x < y, Whole(D, y)
        PROVE  Meaning(E, y, p) = Meaning(D, y, p)
    <3>1. n - y \in 0..n /\ n - (n - y) = y /\ ~(j <= n - y)
      BY <1>1, <2>3, <2>4
    <3>2. n - y \notin Bad
      BY <2>2, <3>1
    <3>3. QED
      BY <2>4, <3>1, <3>2
  <2> HIDE DEF x
  <2>5. /\ x \in 1..(n + 1) /\ E[x] = D[x] /\ Label(E, x) = Label(D, x)
    BY <1>1, <2>3, LabelSame
  <2>6. CASE D[x].type \in Openers
    <3>1. IsClosed(D, x)
      BY <2>3, <2>6 DEF Whole
    <3>2. ItemsIn(E, x) = ItemsIn(D, x)
      BY <2>3, <3>1, ClosedItems
    <3> DEFINE s == ItemsIn(D, x)
    <3>3. /\ DOMAIN s = 1..Len(s)
          /\ \A i \in 1..Len(s) : /\ s[i] \in 1..n /\ x \in 0..(s[i] - 1)
                                  /\ D[s[i]].type \in Openers => IsClosed(D, s[i])
      BY ItemsInIs
    <3>4. s = ItemsIn(D, x)
      OBVIOUS
    <3> HIDE DEF s
    <3>5. \A i \in DOMAIN s : Meaning(E, s[i], p) = Meaning(D, s[i], p)
      <4>1. ASSUME NEW i \in 1..Len(s)
            PROVE  Meaning(E, s[i], p) = Meaning(D, s[i], p)
        <5>1. s[i] \in 1..n /\ x \in 0..(s[i] - 1) /\ Whole(D, s[i])
          BY <3>3 DEF Whole
        <5>2. x < s[i]
          BY <5>1
        <5>3. QED
          BY <2>4, <5>1, <5>2
      <4>2. QED
        BY <3>3, <4>1
    <3>6. Within(E, x, p) = Within(D, x, p)
      <4>1. /\ Within(E, x, p) = [i \in DOMAIN s |-> Meaning(E, s[i], p)]
            /\ Within(D, x, p) = [i \in DOMAIN s |-> Meaning(D, s[i], p)]
        BY <3>2, <3>4 DEF Within
      <4>2. QED
        BY <3>5, <4>1
    <3>7. Meaning(E, x, p) = Meaning(D, x, p)
      <4> DEFINE kind == IF D[x].type = "LBrace" THEN "Group" ELSE "List"
      <4>1. Meaning(D, x, p) = Node(kind, Label(D, x), NoVal, p, Kept(kind, Within(D, x, p), 0, p))
        BY <2>3, <2>6, MeaningOf
      <4>2. Meaning(E, x, p) = Node(kind, Label(E, x), NoVal, p, Kept(kind, Within(E, x, p), 0, p))
        BY <1>1, <2>5, <2>6, MeaningOf
      <4>3. QED
        BY <2>5, <3>6, <4>1, <4>2
    <3>8. QED
      BY <2>3, <3>7
  <2>7. CASE D[x].type \notin Openers
    <3>1. Meaning(D, x, p) = Node(D[x].type, Label(D, x), D[x].text, "ThrowException", <<>>)
      BY <2>3, <2>7, MeaningOf
    <3>2. Meaning(E, x, p) = Node(E[x].type, Label(E, x), E[x].text, "ThrowException", <<>>)
      BY <1>1, <2>5, <2>7, MeaningOf
    <3>3. QED
      BY <2>3, <2>5, <3>1, <3>2
  <2>8. QED
    BY <2>6, <2>7
<1>3. n - k \in 0..n /\ n - (n - k) = k
  BY <1>1
<1>4. QED
  BY <1>2, <1>3

-----------------------------------------------------------------------------
(* The brackets that are open at the end of a document *)

\* pos[1] to pos[m] are where they are, from the outside in; 0 stands for the root.
Spine(D, pos, m) ==
    /\ m \in Nat \ {0}
    /\ Depth(D, Len(D)) = m - 1
    /\ \A i \in 1..m : /\ pos[i] \in 0..Len(D)
                       /\ Depth(D, pos[i]) = i - 1
                       /\ \A q \in pos[i]..Len(D) : Depth(D, q) >= i - 1
                       /\ i = 1 => pos[i] = 0
                       /\ i # 1 => pos[i] # 0 /\ D[pos[i]].type \in Openers

LEMMA SpineOrder ==
    ASSUME NEW D \in Seq(Token), NEW pos, NEW m, Spine(D, pos, m), NEW n, n = Len(D)
    PROVE  /\ n \in Nat /\ m \in 1..m /\ pos[1] = 0 /\ \A i \in 1..m : pos[i] \in 0..n
           /\ \A i, k \in 1..m : i < k => pos[i] < pos[k]
           /\ Around(D, n + 1) = pos[m]
           /\ \A i \in 1..m : i # 1 => Around(D, pos[i]) = pos[i - 1]
           /\ \A i \in 1..m : i # 1 => ~IsClosed(D, pos[i])
<1>1. /\ n \in Nat /\ m \in Nat /\ m \in 1..m /\ 1 \in 1..m /\ n + 1 \in Nat \ {0}
  BY LenProperties DEF Spine
<1>2. /\ pos[1] = 0 /\ Depth(D, n) = m - 1
      /\ \A i \in 1..m : /\ pos[i] \in 0..n /\ Depth(D, pos[i]) = i - 1
                         /\ \A q \in pos[i]..n : Depth(D, q) >= i - 1
                         /\ i # 1 => pos[i] # 0 /\ D[pos[i]].type \in Openers
  BY <1>1 DEF Spine
<1>3. ASSUME NEW i \in 1..m, NEW k \in 1..m, i < k
      PROVE  pos[i] < pos[k]
  <2>1. SUFFICES ASSUME pos[k] <= pos[i]
                 PROVE  FALSE
    BY <1>1, <1>2
  <2>2. pos[i] \in pos[k]..n
    BY <1>1, <1>2, <2>1
  <2>3. i - 1 >= k - 1
    BY <1>2, <2>2
  <2>4. QED
    BY <1>3, <2>3
<1>4. Around(D, n + 1) = pos[m]
  <2> DEFINE k == n + 1
             j == pos[m]
  <2>1. k \in Nat \ {0} /\ k - 1 = n
    BY <1>1
  <2>2. /\ j \in 0..n
        /\ j # 0 => D[j].type \in Openers /\ Depth(D, j) = m - 1
        /\ \A q \in j..n : Depth(D, q) >= m - 1
    <3>1. m = 1 => j = 0
      BY <1>2
    <3>2. QED
      BY <1>1, <1>2, <3>1
  <2> HIDE DEF k, j
  <2>3. /\ j \in 0..(k - 1)
        /\ j # 0 => D[j].type \in Openers /\ Depth(D, j) = Depth(D, k - 1)
        /\ \A q \in j..(k - 1) : Depth(D, q) >= Depth(D, k - 1)
    BY <1>2, <2>1, <2>2
  <2>4. Around(D, k) = j
    BY <2>1, <2>3, AroundTop
  <2>5. QED
    BY <2>4 DEF k, j
<1>5. ASSUME NEW i \in 1..m, i # 1
      PROVE  Around(D, pos[i]) = pos[i - 1]
  <2> DEFINE k == pos[i]
             j == pos[i - 1]
  <2>1. i - 1 \in 1..m /\ i - 1 < i
    BY <1>1, <1>5
  <2>2. k \in 0..n /\ j \in 0..n /\ j < k /\ D[k].type \in Openers /\ Depth(D, k) = i - 1
    BY <1>2, <1>3, <1>5, <2>1
  <2>3. /\ Depth(D, j) = (i - 1) - 1
        /\ \A q \in j..n : Depth(D, q) >= (i - 1) - 1
        /\ j # 0 => D[j].type \in Openers
    BY <1>2, <2>1
  <2> HIDE DEF k, j
  <2>4. k \in Nat \ {0} /\ j \in 0..(k - 1) /\ k - 1 \in 0..n
        /\ \A q \in j..(k - 1) : q \in j..n
    BY <1>1, <2>2
  <2>5. Depth(D, k) = Depth(D, k - 1) + 1 /\ Depth(D, k - 1) \in Int
    BY <2>2, <2>4, OpenerDeepens, DepthIs
  <2>6. Depth(D, k - 1) = (i - 1) - 1
    BY <2>2, <2>5
  <2>7. /\ j # 0 => D[j].type \in Openers /\ Depth(D, j) = Depth(D, k - 1)
        /\ \A q \in j..(k - 1) : Depth(D, q) >= Depth(D, k - 1)
    BY <2>3, <2>4, <2>6
  <2>8. Around(D, k) = j
    BY <2>4, <2>7, AroundTop
  <2>9. QED
    BY <2>8 DEF k, j
<1>6. ASSUME NEW i \in 1..m, i # 1
      PROVE  ~IsClosed(D, pos[i])
  <2>1. \A q \in (pos[i] + 1)..n : q \in pos[i]..n /\ q \in 0..n
    BY <1>1, <1>2
  <2>2. \A q \in 0..n : Depth(D, q) \in Int
    BY DepthIs
  <2>3. \A q \in (pos[i] + 1)..n : ~(Depth(D, q) < i - 1)
    BY <1>2, <2>1, <2>2
  <2>4. QED
    BY <1>2, <2>3 DEF IsClosed
<1>7. QED
  BY <1>1, <1>2, <1>3, <1>4, <1>5, <1>6

\* A bracket as deep as the document is the innermost that is open.
LEMMA InnermostOpen ==
    ASSUME NEW D \in Seq(Token), NEW pos, NEW m, Spine(D, pos, m), NEW n, n = Len(D),
           NEW x \in 1..n, D[x].type \in Openers, ~IsClosed(D, x), Depth(D, x) >= m - 1
    PROVE  m # 1 /\ x = pos[m]
<1> DEFINE k == pos[m]
<1>1. /\ n \in Nat /\ m \in Nat \ {0} /\ k \in 0..n /\ Depth(D, n) = m - 1 /\ n \in 0..n
      /\ Depth(D, k) = m - 1 /\ \A q \in k..n : Depth(D, q) >= m - 1
      /\ m # 1 => k # 0 /\ D[k].type \in Openers
      /\ m = 1 => k = 0
  BY SpineOrder DEF Spine
<1>2. \A q \in 0..n : Depth(D, q) \in Int
  BY DepthIs
<1>3. \A q \in (x + 1)..n : ~(Depth(D, q) < Depth(D, x))
  BY DEF IsClosed
<1>4. x \in 0..n /\ x - 1 \in 0..n /\ x \in Nat \ {0}
  BY <1>1
<1>5. Depth(D, x) = Depth(D, x - 1) + 1
  BY <1>4, OpenerDeepens
<1> HIDE DEF k
<1>6. \A q \in x..n : Depth(D, q) >= m - 1
  <2>1. ASSUME NEW q \in x..n
        PROVE  Depth(D, q) >= m - 1
    <3>1. q = x \/ q \in (x + 1)..n
      BY <1>1
    <3>2. q \in 0..n
      BY <1>1
    <3>3. QED
      BY <1>1, <1>2, <1>3, <1>4, <3>1, <3>2
  <2>2. QED
    BY <2>1
<1>7. Depth(D, x) = m - 1
  <2>1. x = n \/ n \in (x + 1)..n
    BY <1>1
  <2>2. QED
    BY <1>1, <1>2, <1>3, <1>4, <2>1
<1>8. ~(k < x)
  <2>1. k < x => x - 1 \in k..n
    BY <1>1, <1>4
  <2>2. QED
    BY <1>1, <1>2, <1>4, <1>5, <1>7, <2>1
<1>9. ~(x < k)
  <2>1. SUFFICES ASSUME x < k
                 PROVE  FALSE
    OBVIOUS
  <2>2. k \in Nat \ {0} /\ k - 1 \in x..n /\ k - 1 \in 0..n /\ m # 1
    BY <1>1, <1>4, <2>1
  <2>3. Depth(D, k) = Depth(D, k - 1) + 1
    BY <1>1, <2>2, OpenerDeepens
  <2>4. QED
    BY <1>1, <1>2, <1>6, <2>2, <2>3
<1>10. x = k
  BY <1>1, <1>4, <1>8, <1>9
<1>11. QED
  BY <1>1, <1>4, <1>10 DEF k

-----------------------------------------------------------------------------
(* The items inside a bracket, one token later *)

LEMMA InOrderAppends ==
    ASSUME NEW S, NEW m \in Nat, NEW T, NEW n \in Nat, NEW x \in 1..n,
           \A k \in 1..n : k \in T <=> (k \in S /\ k <= m) \/ k = x,
           m <= n, \A k \in 1..m : k \in S => k < x
    PROVE  Appends(InOrder(T, n), InOrder(S, m), x)
<1>1. InOrder(T, n) = Append(InOrder(S, m), x)
  BY InOrderMore
<1>2. QED
  BY <1>1 DEF Appends

LEMMA InsideMore ==
    ASSUME NEW D \in Seq(Token), NEW t \in Token, NEW E, Appends(E, D, t), NEW n, n = Len(D),
           NEW j
    PROVE  /\ \A x \in 1..n : x \in Inside(E, j) <=>
                 \/ x \in Inside(D, j)
                 \/ /\ D[x].type \in Openers /\ Around(D, x) = j /\ ~IsClosed(D, x)
                    /\ Depth(E, n + 1) < Depth(D, x)
           /\ n + 1 \in Inside(E, j) <=>
                 /\ t.type \in ItemTokens /\ t.type \notin Openers /\ Around(D, n + 1) = j
<1>0. IsLonger(D, t, E, n)
  BY Longer
<1>1. /\ n \in Nat /\ E[n + 1] = t /\ \A i \in 1..n : E[i] = D[i]
      /\ DOMAIN D = 1..n /\ DOMAIN E = 1..(n + 1)
      /\ \A i \in 1..(n + 1) : Around(E, i) = Around(D, i)
  BY <1>0 DEF IsLonger
<1>2. /\ \A k \in 1..n : IsClosed(E, k) <=> IsClosed(D, k) \/ Depth(E, n + 1) < Depth(D, k)
      /\ ~IsClosed(E, n + 1)
  BY ClosedMore
<1>3. ASSUME NEW x \in 1..n
      PROVE  x \in Inside(E, j) <=>
                \/ x \in Inside(D, j)
                \/ /\ D[x].type \in Openers /\ Around(D, x) = j /\ ~IsClosed(D, x)
                   /\ Depth(E, n + 1) < Depth(D, x)
  <2>1. x \in 1..(n + 1) /\ E[x] = D[x] /\ Around(E, x) = Around(D, x)
    BY <1>1
  <2>2. \A type \in Openers : type \in ItemTokens
    BY TypesDiffer
  <2>3. QED
    BY <1>1, <1>2, <2>1, <2>2 DEF Inside
<1>4. n + 1 \in Inside(E, j) <=>
         /\ t.type \in ItemTokens /\ t.type \notin Openers /\ Around(D, n + 1) = j
  <2>1. n + 1 \in 1..(n + 1) /\ Around(E, n + 1) = Around(D, n + 1)
    BY <1>1
  <2>2. QED
    BY <1>1, <1>2, <2>1 DEF Inside
<1>5. QED
  BY <1>3, <1>4

\* A token that is no closing bracket.
LEMMA ItemsMore ==
    ASSUME NEW D \in Seq(Token), NEW t \in Token, NEW E, Appends(E, D, t), NEW n, n = Len(D),
           t.type \notin Closers
    PROVE  /\ \A j \in 0..n :
                 IF j = Around(D, n + 1) /\ t.type \in ItemTokens \ Openers
                 THEN Appends(ItemsIn(E, j), ItemsIn(D, j), n + 1)
                 ELSE ItemsIn(E, j) = ItemsIn(D, j)
           /\ ItemsIn(E, n + 1) = <<>>
<1>0. IsLonger(D, t, E, n)
  BY Longer
<1>1. /\ n \in Nat /\ Len(E) = n + 1 /\ n + 1 \in Nat
      /\ \A k \in 0..n : Depth(E, k) = Depth(D, k) /\ Depth(D, k) \in Int
      /\ Depth(E, n + 1) \in Int /\ E \in Seq(Token) /\ n \in 0..n
      /\ Depth(E, n + 1) = CASE t.type \in Openers -> Depth(D, n) + 1
                             [] t.type \in Closers -> Depth(D, n) - 1
                             [] OTHER -> Depth(D, n)
      /\ \A i \in 1..(n + 1) : Around(E, i) = Around(D, i) /\ Around(D, i) \in 0..(i - 1)
  BY <1>0 DEF IsLonger
<1>2. Depth(E, n + 1) >= Depth(D, n)
  BY <1>1
<1>3. ASSUME NEW x \in 1..n, ~IsClosed(D, x)
      PROVE  ~(Depth(E, n + 1) < Depth(D, x))
  <2>1. x = n \/ n \in (x + 1)..n
    BY <1>1
  <2>2. Depth(D, n) >= Depth(D, x)
    <3>1. x \in 0..n
      BY <1>1
    <3>2. QED
      BY <1>1, <1>3, <2>1, <3>1 DEF IsClosed
  <2>3. x \in 0..n
    BY <1>1
  <2>4. QED
    BY <1>1, <1>2, <2>2, <2>3
<1>4. ASSUME NEW j
      PROVE  /\ \A x \in 1..n : x \in Inside(E, j) <=> x \in Inside(D, j)
             /\ n + 1 \in Inside(E, j) <=>
                   j = Around(D, n + 1) /\ t.type \in ItemTokens \ Openers
             /\ ItemsIn(D, j) = InOrder(Inside(D, j), n)
             /\ ItemsIn(E, j) = InOrder(Inside(E, j), n + 1)
  <2>1. /\ ItemsIn(D, j) = InOrder(Inside(D, j), n)
        /\ ItemsIn(E, j) = InOrder(Inside(E, j), n + 1)
    BY <1>1 DEF ItemsIn, Inside
  <2>2. /\ \A x \in 1..n : x \in Inside(E, j) <=>
                 \/ x \in Inside(D, j)
                 \/ /\ D[x].type \in Openers /\ Around(D, x) = j /\ ~IsClosed(D, x)
                    /\ Depth(E, n + 1) < Depth(D, x)
        /\ n + 1 \in Inside(E, j) <=>
                 /\ t.type \in ItemTokens /\ t.type \notin Openers /\ Around(D, n + 1) = j
    BY InsideMore
  <2>3. \A x \in 1..n : x \in Inside(E, j) <=> x \in Inside(D, j)
    BY <1>3, <2>2
  <2>4. QED
    BY <2>1, <2>2, <2>3
<1>5. ASSUME NEW j \in 0..n, j = Around(D, n + 1), t.type \in ItemTokens \ Openers
      PROVE  Appends(ItemsIn(E, j), ItemsIn(D, j), n + 1)
  <2>1. \A k \in 1..(n + 1) : k \in Inside(E, j) <=> (k \in Inside(D, j) /\ k <= n) \/ k = n + 1
    <3>1. \A k \in 1..(n + 1) : k \in 1..n \/ k = n + 1
      BY <1>1
    <3>2. \A k \in 1..n : k <= n
      OBVIOUS
    <3>3. ~(n + 1 <= n)
      BY <1>1
    <3>4. QED
      BY <1>4, <1>5, <3>1, <3>2, <3>3
  <2>2. n + 1 \in 1..(n + 1) /\ n <= n + 1 /\ \A k \in 1..n : k < n + 1
    BY <1>1
  <2>3. Appends(InOrder(Inside(E, j), n + 1), InOrder(Inside(D, j), n), n + 1)
    BY <1>1, <2>1, <2>2, InOrderAppends
  <2>4. QED
    BY <1>4, <2>3
<1>6. ASSUME NEW j \in 0..n, ~(j = Around(D, n + 1) /\ t.type \in ItemTokens \ Openers)
      PROVE  ItemsIn(E, j) = ItemsIn(D, j)
  <2>1. \A k \in Nat \ {0} : k \in Inside(D, j) /\ k <= n <=> k \in Inside(E, j) /\ k <= n + 1
    <3>1. \A k \in Nat \ {0} : /\ k <= n => k \in 1..n /\ k <= n + 1
                               /\ k <= n + 1 => k <= n \/ k = n + 1
      BY <1>1
    <3>2. QED
      BY <1>4, <1>6, <3>1
  <2>2. InOrder(Inside(E, j), n + 1) = InOrder(Inside(D, j), n)
    BY <1>1, <2>1, InOrderSame
  <2>3. QED
    BY <1>4, <2>2
<1>7. ItemsIn(E, n + 1) = <<>>
  <2> DEFINE s == ItemsIn(E, n + 1)
  <2>1. /\ s \in Seq(Nat) /\ Len(s) \in Nat
        /\ \A i \in 1..Len(s) : s[i] \in 1..(n + 1) /\ n + 1 \in 0..(s[i] - 1)
    BY <1>1, ItemsInIs
  <2> HIDE DEF s
  <2>2. Len(s) = 0
    <3>1. SUFFICES ASSUME Len(s) # 0
                   PROVE  FALSE
      OBVIOUS
    <3>2. 1 \in 1..Len(s)
      BY <2>1, <3>1
    <3>3. s[1] \in 1..(n + 1) /\ n + 1 \in 0..(s[1] - 1)
      BY <2>1, <3>2
    <3>4. QED
      BY <1>1, <3>3
  <2>3. s = <<>>
    BY <2>1, <2>2
  <2>4. QED
    BY <2>3 DEF s
<1>8. QED
  BY <1>5, <1>6, <1>7

\* A closing bracket.
LEMMA ItemsClosed ==
    ASSUME NEW D \in Seq(Token), NEW t \in Token, NEW E, Appends(E, D, t), NEW n, n = Len(D),
           t.type \in Closers, NEW pos, NEW m, Spine(D, pos, m), m # 1
    PROVE  \A j \in 0..n :
              IF j = pos[m - 1] THEN Appends(ItemsIn(E, j), ItemsIn(D, j), pos[m])
                                ELSE ItemsIn(E, j) = ItemsIn(D, j)
<1>0. IsLonger(D, t, E, n)
  BY Longer
<1>1. /\ n \in Nat /\ Len(E) = n + 1 /\ n + 1 \in Nat
      /\ \A k \in 0..n : Depth(E, k) = Depth(D, k) /\ Depth(D, k) \in Int
      /\ Depth(E, n + 1) \in Int /\ E \in Seq(Token) /\ n \in 0..n
      /\ Depth(E, n + 1) = CASE t.type \in Openers -> Depth(D, n) + 1
                             [] t.type \in Closers -> Depth(D, n) - 1
                             [] OTHER -> Depth(D, n)
      /\ \A i \in 1..(n + 1) : Around(E, i) = Around(D, i) /\ Around(D, i) \in 0..(i - 1)
  BY <1>0 DEF IsLonger
<1>2. t.type \notin Openers /\ t.type \notin ItemTokens
  BY TypesDiffer
<1> DEFINE k == pos[m]
<1>3. /\ m \in Nat \ {0} /\ m \in 1..m /\ m - 1 \in 1..m
      /\ k \in 1..n /\ D[k].type \in Openers /\ Depth(D, k) = m - 1
      /\ pos[m - 1] \in 0..n /\ pos[m - 1] < k /\ Around(D, k) = pos[m - 1]
      /\ ~IsClosed(D, k) /\ Depth(D, n) = m - 1
      /\ \A q \in k..n : Depth(D, q) >= m - 1
  <2>1. m \in Nat \ {0} /\ m \in 1..m /\ m - 1 \in 1..m /\ m - 1 < m
    BY SpineOrder DEF Spine
  <2>2. /\ \A i \in 1..m : pos[i] \in 0..n
        /\ \A i, l \in 1..m : i < l => pos[i] < pos[l]
        /\ \A i \in 1..m : i # 1 => Around(D, pos[i]) = pos[i - 1]
        /\ \A i \in 1..m : i # 1 => ~IsClosed(D, pos[i])
    BY SpineOrder
  <2>3. /\ pos[m] # 0 /\ D[pos[m]].type \in Openers /\ Depth(D, pos[m]) = m - 1
        /\ Depth(D, n) = m - 1 /\ \A q \in pos[m]..n : Depth(D, q) >= m - 1
    BY <2>1 DEF Spine
  <2>4. pos[m] \in 0..n /\ pos[m - 1] \in 0..n /\ pos[m - 1] < pos[m]
    BY <2>1, <2>2
  <2>5. pos[m] \in 1..n
    BY <1>1, <2>3, <2>4
  <2>6. QED
    BY <2>1, <2>2, <2>3, <2>4, <2>5
<1>4. Depth(E, n + 1) = m - 2
  BY <1>1, <1>2, <1>3
<1>5. ASSUME NEW x \in 1..n, D[x].type \in Openers, ~IsClosed(D, x),
             Depth(E, n + 1) < Depth(D, x)
      PROVE  x = k
  <2>1. x \in 0..n /\ Depth(D, x) \in Int
    BY <1>1
  <2>2. Depth(D, x) >= m - 1
    BY <1>3, <1>4, <1>5, <2>1
  <2>3. QED
    BY <1>5, <2>2, InnermostOpen
<1> HIDE DEF k
<1>6. ASSUME NEW j
      PROVE  /\ \A x \in 1..n : x \in Inside(E, j) <=>
                   x \in Inside(D, j) \/ (x = k /\ j = pos[m - 1])
             /\ n + 1 \notin Inside(E, j)
             /\ ItemsIn(D, j) = InOrder(Inside(D, j), n)
             /\ ItemsIn(E, j) = InOrder(Inside(E, j), n + 1)
  <2>1. /\ \A x \in 1..n : x \in Inside(E, j) <=>
                 \/ x \in Inside(D, j)
                 \/ /\ D[x].type \in Openers /\ Around(D, x) = j /\ ~IsClosed(D, x)
                    /\ Depth(E, n + 1) < Depth(D, x)
        /\ n + 1 \notin Inside(E, j)
    BY <1>2, InsideMore
  <2>2. Depth(E, n + 1) < Depth(D, k)
    BY <1>3, <1>4
  <2>3. /\ ItemsIn(D, j) = InOrder(Inside(D, j), n)
        /\ ItemsIn(E, j) = InOrder(Inside(E, j), n + 1)
    BY <1>1 DEF ItemsIn, Inside
  <2>4. ASSUME NEW x \in 1..n
        PROVE  x \in Inside(E, j) <=> x \in Inside(D, j) \/ (x = k /\ j = pos[m - 1])
    BY <1>3, <1>5, <2>1, <2>2
  <2>5. QED
    BY <2>1, <2>3, <2>4
<1>7. ASSUME NEW j, j = pos[m - 1]
      PROVE  Appends(ItemsIn(E, j), ItemsIn(D, j), k)
  <2>1. ASSUME NEW x \in 1..n, x \in Inside(D, j)
        PROVE  x < k
    <3>1. Around(D, x) = j
      BY <2>1 DEF Inside
    <3>2. SUFFICES ASSUME k < x \/ k = x
                   PROVE  FALSE
      BY <1>1, <1>3
    <3>3. CASE k = x
      <4>1. IsClosed(D, k)
        BY <1>3, <2>1, <3>3 DEF Inside
      <4>2. QED
        BY <1>3, <4>1
    <3>4. CASE k < x
      <4>1. k \in 1..(x - 1) /\ x \in Nat \ {0} /\ \A q \in k..(x - 1) : q \in k..n
        BY <1>1, <1>3, <3>4
      <4>2. Encloses(D, k, x)
        BY <1>3, <4>1 DEF Encloses
      <4>3. k <= Around(D, x)
        BY <4>1, <4>2, AroundIs
      <4>4. QED
        BY <1>3, <1>7, <3>1, <4>3
    <3>5. QED
      BY <3>2, <3>3, <3>4
  <2>2. \A x \in 1..(n + 1) : x \in Inside(E, j) <=> (x \in Inside(D, j) /\ x <= n) \/ x = k
    <3>1. \A x \in 1..(n + 1) : x \in 1..n \/ (x = n + 1 /\ ~(x <= n) /\ x # k)
      BY <1>1, <1>3
    <3>2. \A x \in 1..n : x <= n
      OBVIOUS
    <3>3. QED
      BY <1>6, <1>7, <3>1, <3>2
  <2>3. k \in 1..(n + 1) /\ n <= n + 1
    BY <1>1, <1>3
  <2>4. \A x \in 1..n : x \in Inside(D, j) => x < k
    BY <2>1
  <2>5. n \in Nat /\ n + 1 \in Nat
    BY <1>1
  <2>6. Appends(InOrder(Inside(E, j), n + 1), InOrder(Inside(D, j), n), k)
    BY <2>2, <2>3, <2>4, <2>5, InOrderAppends
  <2>7. QED
    BY <1>6, <2>6
<1>8. ASSUME NEW j, j # pos[m - 1]
      PROVE  ItemsIn(E, j) = ItemsIn(D, j)
  <2>1. \A x \in Nat \ {0} : x \in Inside(D, j) /\ x <= n <=> x \in Inside(E, j) /\ x <= n + 1
    <3>1. \A x \in Nat \ {0} : /\ x <= n => x \in 1..n /\ x <= n + 1
                               /\ x <= n + 1 => x <= n \/ x = n + 1
      BY <1>1
    <3>2. QED
      BY <1>6, <1>8, <3>1
  <2>2. InOrder(Inside(E, j), n + 1) = InOrder(Inside(D, j), n)
    BY <1>1, <2>1, InOrderSame
  <2>3. QED
    BY <1>6, <2>2
<1>9. QED
  BY <1>7, <1>8 DEF k

-----------------------------------------------------------------------------
(* What a container is promised, one token later *)

\* w is what the items at s mean.
MeaningsAt(D, p, s, w) ==
    /\ DOMAIN w = 1..Len(s) /\ DOMAIN s = 1..Len(s) /\ Len(s) \in Nat
    /\ w = [i \in 1..Len(s) |-> Meaning(D, s[i], p)]
    /\ Len(w) = Len(s)
    /\ \A i \in 1..Len(s) : /\ w[i] = Meaning(D, s[i], p)
                            /\ s[i] \in 1..Len(D) /\ Whole(D, s[i])
    /\ \E S : w \in Seq(S)

LEMMA WithinIs ==
    ASSUME NEW D \in Seq(Token), NEW j, NEW p
    PROVE  MeaningsAt(D, p, ItemsIn(D, j), Within(D, j, p))
<1> DEFINE s == ItemsIn(D, j)
           w == Within(D, j, p)
<1>1. /\ DOMAIN s = 1..Len(s) /\ Len(s) \in Nat
      /\ \A i \in 1..Len(s) : /\ s[i] \in 1..Len(D)
                              /\ D[s[i]].type \in Openers => IsClosed(D, s[i])
  BY ItemsInIs
<1>2. w = [i \in 1..Len(s) |-> Meaning(D, s[i], p)]
  BY <1>1 DEF Within
<1>3. /\ DOMAIN w = 1..Len(s)
      /\ \A i \in 1..Len(s) : w[i] = Meaning(D, s[i], p)
  BY <1>2
<1>4. /\ w = [i \in 1..Len(s) |-> w[i]]
  BY <1>2, <1>3
<1>5. \A i \in 1..Len(s) : Whole(D, s[i])
  BY <1>1 DEF Whole
<1>6. w \in Seq({w[i] : i \in 1..Len(s)}) /\ Len(w) = Len(s)
  <2> DEFINE R == {w[i] : i \in 1..Len(s)}
  <2>1. \A i \in 1..Len(s) : w[i] \in R
    OBVIOUS
  <2> HIDE DEF R
  <2>2. w \in [1..Len(s) -> R]
    BY <1>4, <2>1
  <2>3. w \in Seq(R)
    BY <1>1, <2>2, SeqDef
  <2>4. Len(w) \in Nat /\ DOMAIN w = 1..Len(w)
    BY <2>3, LenProperties
  <2>5. Len(w) = Len(s)
    BY <1>1, <1>3, <2>4
  <2>6. QED
    BY <2>3, <2>5 DEF R
<1>7. MeaningsAt(D, p, s, w)
  BY <1>1, <1>2, <1>3, <1>5, <1>6 DEF MeaningsAt
<1>8. QED
  BY <1>7

LEMMA WithinSame ==
    ASSUME NEW D \in Seq(Token), NEW t \in Token, NEW E, Appends(E, D, t), Viable(D),
           NEW p, NEW j, ItemsIn(E, j) = ItemsIn(D, j)
    PROVE  Within(E, j, p) = Within(D, j, p)
<1> DEFINE n == Len(D)
           s == ItemsIn(D, j)
           w == Within(D, j, p)
           v == Within(E, j, p)
<1>1. IsLonger(D, t, E, n)
  BY Longer
<1>2. E \in Seq(Token)
  BY <1>1 DEF IsLonger
<1>m. MeaningsAt(D, p, s, w) /\ MeaningsAt(E, p, s, v)
  BY <1>2, WithinIs
<1>5. n = Len(D) /\ v = Within(E, j, p) /\ w = Within(D, j, p)
  OBVIOUS
<1> HIDE DEF n, s, v, w
<1>3. /\ w = [i \in 1..Len(s) |-> Meaning(D, s[i], p)]
      /\ \A i \in 1..Len(s) : s[i] \in 1..n /\ Whole(D, s[i])
  BY <1>m, <1>5 DEF MeaningsAt
<1>4. v = [i \in 1..Len(s) |-> Meaning(E, s[i], p)]
  BY <1>m DEF MeaningsAt
<1>6. \A i \in 1..Len(s) : Meaning(E, s[i], p) = Meaning(D, s[i], p)
  BY <1>3, <1>5, MeaningSame
<1>7. v = w
  BY <1>3, <1>4, <1>6
<1>8. QED
  BY <1>5, <1>7

\* An equation between sequences, place by place.
LEMMA AppendsIs ==
    ASSUME NEW S, NEW s \in Seq(S), NEW e \in S, NEW u,
           DOMAIN u = 1..(Len(s) + 1), u = [i \in DOMAIN u |-> u[i]],
           \A i \in 1..Len(s) : u[i] = s[i], u[Len(s) + 1] = e
    PROVE  Appends(u, s, e)
<1> DEFINE v == Append(s, e)
<1>1. /\ v \in Seq(S) /\ Len(s) \in Nat /\ Len(v) = Len(s) + 1
      /\ \A i \in 1..Len(s) : v[i] = s[i]
      /\ v[Len(s) + 1] = e
  BY LenProperties, AppendProperties
<1>2. v = [i \in 1..(Len(s) + 1) |-> v[i]]
  BY <1>1, LenProperties, ElementOfSeq
<1> HIDE DEF v
<1>3. \A i \in 1..(Len(s) + 1) : u[i] = v[i]
  <2>1. \A i \in 1..(Len(s) + 1) : i \in 1..Len(s) \/ i = Len(s) + 1
    BY <1>1
  <2>2. QED
    BY <1>1, <2>1
<1>4. u = v
  BY <1>2, <1>3
<1>5. QED
  BY <1>4 DEF v, Appends

LEMMA WithinMore ==
    ASSUME NEW D \in Seq(Token), NEW t \in Token, NEW E, Appends(E, D, t), Viable(D),
           NEW p, NEW j, NEW k, Appends(ItemsIn(E, j), ItemsIn(D, j), k),
           NEW T, T = Meaning(E, k, p)
    PROVE  Appends(Within(E, j, p), Within(D, j, p), T)
<1> DEFINE n == Len(D)
           s == ItemsIn(D, j)
           u == ItemsIn(E, j)
           w == Within(D, j, p)
           v == Within(E, j, p)
<1>1. IsLonger(D, t, E, n)
  BY Longer
<1>2. E \in Seq(Token)
  BY <1>1 DEF IsLonger
<1>m. MeaningsAt(D, p, s, w) /\ MeaningsAt(E, p, u, v)
  BY <1>2, WithinIs
<1>a. n = Len(D)
  OBVIOUS
<1>3. /\ Len(s) \in Nat /\ Len(w) = Len(s)
      /\ w = [i \in 1..Len(s) |-> Meaning(D, s[i], p)]
      /\ \A i \in 1..Len(s) : /\ w[i] = Meaning(D, s[i], p)
                              /\ s[i] \in 1..n /\ Whole(D, s[i])
      /\ \E S : w \in Seq(S)
  <2> HIDE DEF n, s, u, w, v
  <2>1. QED
    BY <1>m, <1>a DEF MeaningsAt
<1>4. /\ v = [i \in 1..Len(u) |-> Meaning(E, u[i], p)]
      /\ DOMAIN v = 1..Len(u)
      /\ \A i \in 1..Len(u) : v[i] = Meaning(E, u[i], p)
  <2> HIDE DEF n, s, u, w, v
  <2>1. QED
    BY <1>m DEF MeaningsAt
<1>5. s \in Seq(Nat) /\ u \in Seq(Nat)
  BY <1>2, ItemsInIs
<1>6. /\ Len(u) = Len(s) + 1 /\ u[Len(s) + 1] = k
      /\ \A i \in 1..Len(s) : u[i] = s[i]
  <2>1. u = Append(s, k)
    BY DEF Appends
  <2>2. Len(u) = Len(s) + 1
    BY <1>5, <2>1
  <2>3. QED
    BY <1>3, <1>5, <2>1, <2>2
<1>7. n = Len(D) /\ v = Within(E, j, p) /\ w = Within(D, j, p)
  OBVIOUS
<1> HIDE DEF n, s, u, v, w
<1>8. /\ v = [i \in DOMAIN v |-> v[i]] /\ DOMAIN v = 1..(Len(w) + 1)
  BY <1>3, <1>4, <1>6
<1>9. \A i \in 1..Len(w) : v[i] = w[i]
  <2>1. \A i \in 1..Len(s) : Meaning(E, s[i], p) = Meaning(D, s[i], p)
    BY <1>3, <1>7, MeaningSame
  <2>2. \A i \in 1..Len(s) : i \in 1..Len(u)
    BY <1>3, <1>6
  <2>3. QED
    BY <1>3, <1>4, <1>6, <2>1, <2>2
<1>10. v[Len(w) + 1] = T
  BY <1>3, <1>4, <1>6
<1>11. PICK S : w \in Seq(S) /\ T \in S
  <2>1. \E S : w \in Seq(S)
    BY <1>3
  <2>2. QED
    BY <2>1, OneMore
<1>12. Appends(v, w, T)
  BY <1>8, <1>9, <1>10, <1>11, AppendsIs
<1>13. QED
  BY <1>7, <1>12

\* What the container that opens at j holds, if Add is asked for all that D puts
\* into it: the root, 0, had something in it before.
Promised(D, start, j, p) == (IF j = 0 THEN start ELSE <<>>) \o Within(D, j, p)

LEMMA WiderSeq ==
    ASSUME NEW S, NEW R, S \subseteq R, NEW s \in Seq(S)
    PROVE  s \in Seq(R)
<1>1. /\ Len(s) \in Nat /\ s = [k \in 1..Len(s) |-> s[k]]
      /\ \A k \in 1..Len(s) : s[k] \in R
  BY LenProperties, ElementOfSeq
<1>2. s \in [1..Len(s) -> R]
  BY <1>1
<1>3. QED
  BY <1>1, <1>2, SeqDef

LEMMA ConcatMore ==
    ASSUME NEW b, \E S : b \in Seq(S), NEW w, \E S : w \in Seq(S), NEW T, NEW v,
           Appends(v, w, T)
    PROVE  Appends(b \o v, b \o w, T)
<1>1. PICK S1 : b \in Seq(S1)
  OBVIOUS
<1>2. PICK S2 : w \in Seq(S2)
  OBVIOUS
<1> DEFINE R == S1 \cup S2 \cup {T}
<1>3. S1 \subseteq R /\ S2 \subseteq R /\ T \in R
  OBVIOUS
<1> HIDE DEF R
<1>4. b \in Seq(R) /\ w \in Seq(R)
  BY <1>1, <1>2, <1>3, WiderSeq
<1>5. /\ b \o w \in Seq(R) /\ Len(b) \in Nat /\ Len(w) \in Nat
      /\ Len(b \o w) = Len(b) + Len(w)
  BY <1>4, LenProperties, ConcatProperties
<1>6. v = Append(w, T) /\ v \in Seq(R) /\ Len(v) = Len(w) + 1
  BY <1>3, <1>4, AppendProperties DEF Appends
<1>7. /\ b \o v \in Seq(R) /\ Len(b \o v) = Len(b) + Len(w) + 1
  BY <1>4, <1>5, <1>6, ConcatProperties
<1>8. /\ Append(b \o w, T) \in Seq(R) /\ Len(Append(b \o w, T)) = Len(b) + Len(w) + 1
  BY <1>3, <1>5, AppendProperties
<1> DEFINE x == b \o v
           y == Append(b \o w, T)
<1>9. \A i \in 1..(Len(b) + Len(w) + 1) : x[i] = y[i]
  BY <1>4, <1>5, <1>6, SMTT(30)
<1> HIDE DEF x, y
<1>10. x = y
  BY <1>7, <1>8, <1>9, SeqEqual DEF x, y
<1>11. QED
  BY <1>10 DEF x, y, Appends

LEMMA PromisedSame ==
    ASSUME NEW D \in Seq(Token), NEW t \in Token, NEW E, Appends(E, D, t), Viable(D),
           NEW p, NEW start, NEW j, ItemsIn(E, j) = ItemsIn(D, j)
    PROVE  Promised(E, start, j, p) = Promised(D, start, j, p)
<1>1. Within(E, j, p) = Within(D, j, p)
  BY WithinSame
<1>2. QED
  BY <1>1 DEF Promised

LEMMA PromisedMore ==
    ASSUME NEW D \in Seq(Token), NEW t \in Token, NEW E, Appends(E, D, t), Viable(D),
           NEW p, NEW start, \E S : start \in Seq(S),
           NEW j, NEW k, Appends(ItemsIn(E, j), ItemsIn(D, j), k),
           NEW T, T = Meaning(E, k, p)
    PROVE  Appends(Promised(E, start, j, p), Promised(D, start, j, p), T)
<1> DEFINE b == IF j = 0 THEN start ELSE <<>>
<1>1. Appends(Within(E, j, p), Within(D, j, p), T)
  BY WithinMore
<1>2. \E S : b \in Seq(S)
  BY EmptySeq
<1>3. \E S : Within(D, j, p) \in Seq(S)
  BY WithinIs DEF MeaningsAt
<1> HIDE DEF b
<1>4. Appends(b \o Within(E, j, p), b \o Within(D, j, p), T)
  BY <1>1, <1>2, <1>3, ConcatMore
<1>5. QED
  BY <1>4 DEF b, Promised

\* A container that has just been opened is promised nothing; one that is not the
\* root is promised what is inside of it.
LEMMA PromisedInside ==
    ASSUME NEW D \in Seq(Token), NEW p, NEW start, NEW j, j # 0
    PROVE  /\ Promised(D, start, j, p) = Within(D, j, p)
           /\ ItemsIn(D, j) = <<>> => Promised(D, start, j, p) = <<>>
<1> DEFINE w == Within(D, j, p)
<1>1. (\E S : w \in Seq(S)) /\ Len(w) = Len(ItemsIn(D, j))
  <2>1. MeaningsAt(D, p, ItemsIn(D, j), w)
    BY WithinIs
  <2> HIDE DEF w
  <2>2. QED
    BY <2>1 DEF MeaningsAt
<1>2. Promised(D, start, j, p) = <<>> \o w
  BY DEF Promised
<1> HIDE DEF w
<1>3. <<>> \o w = w
  BY <1>1
<1>4. ItemsIn(D, j) = <<>> => w = <<>>
  <2>1. ItemsIn(D, j) = <<>> => Len(w) = 0
    BY <1>1
  <2>2. QED
    BY <1>1, <2>1
<1>5. QED
  BY <1>2, <1>3, <1>4 DEF w

\* Expect is what the root is promised.
LEMMA ExpectIs ==
    ASSUME NEW D, NEW start, NEW p
    PROVE  Expect(D, start, p) = Kept("Group", Promised(D, start, 0, p), Len(start), p)
BY DEF Expect, Promised, Within

\* What stands before the item that a token completes.
LEMMA EarlierIs ==
    ASSUME NEW D \in Seq(Token), NEW t \in Token, NEW E, Appends(E, D, t), Viable(D),
           NEW p, NEW start, NEW j, NEW k \in 1..Len(E), j = Around(E, k),
           Appends(ItemsIn(E, j), ItemsIn(D, j), k)
    PROVE  Earlier(E, k, start, p) = Promised(D, start, j, p)
<1> DEFINE n == Len(D)
           s == ItemsIn(D, j)
           u == ItemsIn(E, j)
           C == {i \in ToSet(u) : i < k}
           inside == InOrder(C, Len(E))
<1>1. IsLonger(D, t, E, n)
  BY Longer
<1>2. E \in Seq(Token) /\ n \in Nat /\ Len(E) = n + 1
  BY <1>1 DEF IsLonger
<1>3. /\ s \in Seq(Nat) /\ Len(s) \in Nat /\ s = InOrder(Inside(D, j), n)
      /\ \A i \in 1..Len(s) : s[i] \in 1..n /\ s[i] \in Inside(D, j)
      /\ DOMAIN s = 1..Len(s)
  BY ItemsInIs
<1>4. /\ u \in Seq(Nat) /\ u = InOrder(Inside(E, j), n + 1) /\ DOMAIN u = 1..Len(u)
  BY <1>2, ItemsInIs
<1>5. /\ Len(u) = Len(s) + 1 /\ u[Len(s) + 1] = k
      /\ \A i \in 1..Len(s) : u[i] = s[i]
  <2>1. u = Append(s, k)
    BY DEF Appends
  <2>2. Len(u) = Len(s) + 1
    BY <1>3, <2>1
  <2>3. QED
    BY <1>3, <2>1, <2>2
<1>6. \A i, l \in 1..Len(u) : i < l => u[i] < u[l]
  <2>1. n + 1 \in Nat
    BY <1>2
  <2>2. QED
    BY <1>4, <2>1, InOrderSeq
<1>7. \A x \in 1..n : x \in Inside(D, j) => \E i \in 1..Len(s) : s[i] = x
  BY <1>2, <1>3, InOrderSeq
<1>8. \A x : x \in ToSet(u) <=> \E i \in 1..Len(u) : u[i] = x
  BY <1>4 DEF ToSet
<1>9. n = Len(D) /\ s = ItemsIn(D, j) /\ u = ItemsIn(E, j)
  OBVIOUS
<1>10. Earlier(E, k, start, p) =
         (IF j = 0 THEN start ELSE <<>>) \o [i \in DOMAIN inside |-> Meaning(E, inside[i], p)]
  BY DEF Earlier
<1> HIDE DEF n, s, u
<1>11. \A x : x \in C <=> \E i \in 1..Len(s) : s[i] = x
  <2>1. ASSUME NEW x, x \in C
        PROVE  \E i \in 1..Len(s) : s[i] = x
    <3>1. PICK i \in 1..Len(u) : u[i] = x
      BY <1>8, <2>1
    <3>2. x < k
      BY <2>1
    <3>3. i # Len(s) + 1
      BY <1>2, <1>5, <3>1, <3>2
    <3>4. i \in 1..Len(s)
      BY <1>3, <1>5, <3>1, <3>3
    <3>5. QED
      BY <1>5, <3>1, <3>4
  <2>2. ASSUME NEW i \in 1..Len(s)
        PROVE  s[i] \in C
    <3>1. i \in 1..Len(u) /\ Len(s) + 1 \in 1..Len(u) /\ i < Len(s) + 1
      BY <1>3, <1>5
    <3>2. u[i] < k /\ u[i] = s[i]
      BY <1>5, <1>6, <3>1
    <3>3. s[i] \in ToSet(u)
      BY <1>8, <3>1, <3>2
    <3>4. QED
      BY <3>2, <3>3
  <2>3. QED
    BY <2>1, <2>2
<1> HIDE DEF C
<1>12. \A x \in Nat \ {0} : x \in Inside(D, j) /\ x <= n <=> x \in C /\ x <= n + 1
  <2>1. ASSUME NEW x \in Nat \ {0}, x \in Inside(D, j), x <= n
        PROVE  x \in C /\ x <= n + 1
    <3>1. x \in 1..n /\ x <= n + 1
      BY <1>2, <2>1
    <3>2. QED
      BY <1>7, <1>11, <2>1, <3>1
  <2>2. ASSUME NEW x \in C
        PROVE  x \in Inside(D, j) /\ x <= n
    <3>1. PICK i \in 1..Len(s) : s[i] = x
      BY <1>11
    <3>2. s[i] \in 1..n /\ s[i] \in Inside(D, j)
      BY <1>3
    <3>3. QED
      BY <3>1, <3>2
  <2>3. QED
    BY <2>1, <2>2
<1>13. inside = s
  <2>1. n + 1 \in Nat
    BY <1>2
  <2>2. InOrder(C, n + 1) = InOrder(Inside(D, j), n)
    BY <1>2, <1>12, <2>1, InOrderSame
  <2>3. QED
    BY <1>2, <1>3, <2>2
<1> HIDE DEF inside
<1>14. [i \in DOMAIN s |-> Meaning(E, s[i], p)] = Within(D, j, p)
  <2>0. MeaningsAt(D, p, s, Within(D, j, p))
    BY <1>9, WithinIs
  <2>1. /\ Within(D, j, p) = [i \in 1..Len(s) |-> Meaning(D, s[i], p)]
        /\ \A i \in 1..Len(s) : s[i] \in 1..n /\ Whole(D, s[i])
    BY <1>9, <2>0 DEF MeaningsAt
  <2>2. \A i \in 1..Len(s) : Meaning(E, s[i], p) = Meaning(D, s[i], p)
    BY <1>9, <2>1, MeaningSame
  <2>3. QED
    BY <1>3, <2>1, <2>2
<1>15. QED
  BY <1>10, <1>13, <1>14 DEF Promised

-----------------------------------------------------------------------------
(* Items made, named, added and settled *)

\* The trees of all containers are as before when an item that none of them holds
\* takes a name.
LEMMA NamedTrees ==
    ASSUME NEW h, Sound(h), NEW x \in Ids, h[x] # Null, Holding(h, x) = {},
           NEW name \in AnyName, NEW g, PutsName(h, x, name, g)
    PROVE  /\ Sound(g) /\ g[x] # Null /\ Holding(g, x) = {}
           /\ g[x].kind = h[x].kind /\ g[x].name = name /\ g[x].val = h[x].val
           /\ \A y \in Addresses : h[y] # Null => g[y] # Null /\ TreesIn(g, y) = TreesIn(h, y)
           /\ \A y \in Addresses : y # x => g[y] = h[y]
<1> DEFINE item == [h[x] EXCEPT !.name = name]
<1>1. /\ WellTyped(h) /\ Closed(h) /\ Acyclic(h)
      /\ x \in Addresses /\ x \notin Configs
  BY AddressesAssumption DEF Sound, Addresses
<1>2. /\ h[x] \in Item /\ Kids(h, x) \subseteq Ids
      /\ Kids(h, x) = {h[x].kids[k] : k \in 1..Len(h[x].kids)}
  BY <1>1, ItemFields
<1>3. /\ item \in Item /\ item.kids = h[x].kids /\ item.kind = h[x].kind
      /\ item.name = name /\ item.val = h[x].val
  BY <1>2 DEF Item
<1>4. Puts(h, x, item, g)
  BY DEF Puts, PutsName
<1> HIDE DEF item
<1>5. /\ x \in Configs => item.kind = "Group"
      /\ item.kids # <<>> => item.kind \in ContainerKinds
      /\ \A k \in 1..Len(item.kids) : h[item.kids[k]] # Null
  BY <1>1, <1>2, <1>3 DEF WellTyped, Closed, Addresses
<1>6. /\ WellTyped(g) /\ Closed(g) /\ g[x] = item /\ g[x] # Null
      /\ \A y \in Addresses \ {x} : g[y] = h[y]
  BY <1>1, <1>3, <1>4, <1>5, PutItem
<1>7. \A y \in Addresses : Kids(g, y) = Kids(h, y)
  <2>1. Kids(g, x) = Kids(h, x)
    BY <1>3, <1>6 DEF Kids
  <2>2. QED
    BY <1>6, <2>1 DEF Kids
<1>8. Holding(g, x) = {}
  BY <1>7 DEF Holding
<1>9. Acyclic(g)
  <2>1. \A y \in Ids : g[y] # Null /\ Kids(g, y) # {} =>
           h[y] # Null /\ Kids(g, y) \subseteq Kids(h, y)
    BY <1>6, <1>7 DEF Addresses
  <2>2. QED
    BY <1>1, <2>1, AcyclicLess
<1>10. \A y \in Addresses : h[y] # Null => g[y] # Null /\ TreesIn(g, y) = TreesIn(h, y)
  <2> DEFINE X == {x}
  <2>1. \A z \in X : Holding(h, z) = {}
    OBVIOUS
  <2>2. \A y \in Addresses : h[y] # Null /\ y \notin X => g[y] = h[y]
    BY <1>6
  <2> HIDE DEF X
  <2>3. \A y \in Addresses : h[y] # Null /\ g[y].kids = h[y].kids =>
           TreesIn(g, y) = TreesIn(h, y)
    BY <2>1, <2>2, TreesBeside, SMTT(30)
  <2>4. \A y \in Addresses : h[y] # Null => g[y] # Null /\ g[y].kids = h[y].kids
    BY <1>3, <1>6
  <2>5. QED
    BY <2>3, <2>4
<1>11. QED
  BY <1>1, <1>3, <1>6, <1>8, <1>9, <1>10 DEF Sound

\* What is in a group whose items have different names is what Add made of it.
LEMMA TidyHolds ==
    ASSUME NEW h, Sound(h), NEW t \in Addresses, h[t] # Null, h[t].kind = "Group",
           Tidy(h, h[t].kind, h[t].kids), NEW p \in Policies,
           NEW trees, trees = TreesIn(h, t)
    PROVE  Holds(h, t, trees, Len(trees), p)
<1> DEFINE kids == h[t].kids
           L    == Len(kids)
           R    == {trees[k] : k \in 1..L}
<1>0. WellTyped(h) /\ Closed(h)
  BY DEF Sound
<1>1. /\ L \in Nat /\ DOMAIN trees = 1..L
      /\ \A k \in 1..L : /\ kids[k] \in Ids /\ kids[k] \in Kids(h, t)
                         /\ trees[k] = TreeAt(h, kids[k])
  BY <1>0, TreesInIs
<1>2. trees = [k \in 1..L |-> trees[k]]
  BY <1>1 DEF TreesIn
<1>3. trees \in Seq(R) /\ Len(trees) = L
  <2>1. \A k \in 1..L : trees[k] \in R
    OBVIOUS
  <2> HIDE DEF R, L
  <2>2. trees \in [1..L -> R]
    BY <1>2, <2>1
  <2>3. trees \in Seq(R)
    BY <1>1, <2>2, SeqDef
  <2>4. Len(trees) \in Nat /\ DOMAIN trees = 1..Len(trees)
    BY <2>3, LenProperties
  <2>5. QED
    BY <1>1, <2>3, <2>4
<1>4. ASSUME NEW j \in 1..L, NEW k \in 1..L, j # k
      PROVE  ~Collide("Group", trees[j], trees[k])
  <2>1. /\ kids[j] \in Ids /\ kids[k] \in Ids
        /\ h[kids[j]] # Null /\ h[kids[k]] # Null
    BY <1>0, <1>1 DEF Closed, Addresses
  <2>2. ASSUME NEW y \in Ids, h[y] # Null
        PROVE  TreeAt(h, y).kind = h[y].kind /\ TreeAt(h, y).name = h[y].name
    BY <2>2, TreeAtIs DEF Node
  <2>3. /\ trees[j].kind = h[kids[j]].kind /\ trees[j].name = h[kids[j]].name
        /\ trees[k].kind = h[kids[k]].kind /\ trees[k].name = h[kids[k]].name
    BY <1>1, <2>1, <2>2
  <2>4. h[kids[j]].kind # "Comment" /\ h[kids[k]].kind # "Comment" =>
           ~Alike(h, "Group", kids[j], kids[k])
    BY <1>4 DEF Tidy
  <2>5. QED
    BY <2>3, <2>4 DEF Collide, Alike
<1> HIDE DEF kids, L, R
<1>5. ASSUME NEW k \in 1..L
      PROVE  Stays("Group", trees, Len(trees), p, k)
  <2>1. CASE p = "Keep"
    <3>1. k <= Len(trees)
      BY <1>3
    <3>2. QED
      BY <2>1, <3>1 DEF Stays
  <2>2. CASE p = "Overwrite"
    <3>1. \A j \in (k + 1)..Len(trees) : j \in 1..L /\ j # k
      BY <1>1, <1>3
    <3>2. QED
      BY <1>4, <2>2, <3>1 DEF Stays
  <2>3. CASE p = "ThrowException"
    <3>1. \A j \in 1..Len(trees) : j = k \/ ~Collide("Group", trees[j], trees[k])
      BY <1>3, <1>4
    <3>2. QED
      BY <2>3, <3>1 DEF Stays
  <2>4. QED
    BY <2>1, <2>2, <2>3 DEF Policies
<1>6. AllStay("Group", trees, Len(trees), p)
  BY <1>3, <1>5 DEF AllStay
<1>7. Kept("Group", trees, Len(trees), p) = trees
  BY <1>3, <1>6, AllKept
<1>8. Len(trees) \in 0..Len(trees)
  BY <1>1, <1>3
<1>9. QED
  BY <1>3, <1>6, <1>7, <1>8 DEF Holds

\* A new container holds nothing, and nothing has been promised to it.
LEMMA NothingHolds ==
    ASSUME NEW h, NEW t, TreesIn(h, t) = <<>>, NEW p \in Policies
    PROVE  Holds(h, t, <<>>, 0, p)
<1> DEFINE none == <<>>
           S    == {}
<1>1. none \in Seq(S) /\ Len(none) = 0
  BY EmptySeq
<1>2. AllStay(h[t].kind, none, 0, p)
  BY <1>1 DEF AllStay
<1>3. TreesIn(h, t) = none
  OBVIOUS
<1> HIDE DEF none, S
<1>4. Kept(h[t].kind, none, 0, p) = none
  BY <1>1, <1>2, AllKept
<1>5. 0 \in 0..Len(none)
  BY <1>1
<1>6. Holds(h, t, none, 0, p)
  BY <1>1, <1>2, <1>3, <1>4, <1>5 DEF Holds
<1>7. QED
  BY <1>6 DEF none

\* The rest of what Holds is about is no matter of the heap.
LEMMA HoldsSame ==
    ASSUME NEW h, NEW g, NEW t, NEW trees, NEW n, NEW p, Holds(h, t, trees, n, p),
           TreesIn(g, t) = TreesIn(h, t), g[t].kind = h[t].kind
    PROVE  Holds(g, t, trees, n, p)
BY DEF Holds

-----------------------------------------------------------------------------
(* Deliver *)

\* Add has refused an item with the tree T for a reason, in a container that has
\* been promised trees before.
Caused(kind, trees, p, T, why) ==
    /\ T.kind # "Comment"
    /\ why = "InvalidName" <=> kind = "Group" /\ T.name \notin Names
    /\ why # "InvalidName" =>
          /\ p = "ThrowException"
          /\ \E i \in 1..Len(trees) : Collide(kind, trees[i], T)

KindFor(mode) == IF mode = "Named" THEN "Group" ELSE "List"

\* What is left once an item has been added, or refused.
LEMMA SettledFrames ==
    ASSUME NEW h, Sound(h), NEW fs, Stacked(h, fs), NEW g, g = Settled(h, Locals(fs))
    PROVE  /\ Acyclic(g)
           /\ \A k \in 1..Len(fs) : /\ g[fs[k].at] = h[fs[k].at]
                                    /\ TreesIn(g, fs[k].at) = TreesIn(h, fs[k].at)
<1>1. /\ Locals(fs) \in SUBSET Ids /\ \A q \in Locals(fs) : h[q] # Null
      /\ \A k \in 1..Len(fs) : fs[k].at \in Locals(fs) \cup {Root}
      /\ \A k \in 1..Len(fs) : fs[k].at \in Addresses
  BY LocalsHeld
<1>2. /\ Sound(g) /\ \A q \in Locals(fs) : g[q] # Null
      /\ \A y \in Addresses : g[y] # Null => g[y] = h[y] /\ TreesIn(g, y) = TreesIn(h, y)
  BY <1>1, SettledTrees
<1>3. Root \in Configs /\ Root \in Addresses
  BY ReadAssumption DEF Addresses
<1>4. g[Root] # Null
  BY <1>2, <1>3 DEF Sound, WellTyped
<1>5. QED
  BY <1>1, <1>2, <1>4 DEF Sound

LEMMA SettledRootTrees ==
    ASSUME NEW h, Sound(h), NEW g, g = Settled(h, {})
    PROVE  Acyclic(g) /\ TreesIn(g, Root) = TreesIn(h, Root)
<1> DEFINE held == {}
<1>1. held \in SUBSET Ids /\ \A q \in held : h[q] # Null
  OBVIOUS
<1>2. g = Settled(h, held)
  OBVIOUS
<1> HIDE DEF held
<1>3. /\ Sound(g)
      /\ \A y \in Addresses : g[y] # Null => g[y] = h[y] /\ TreesIn(g, y) = TreesIn(h, y)
  BY <1>1, <1>2, SettledTrees
<1>4. Root \in Configs /\ Root \in Addresses
  BY ReadAssumption DEF Addresses
<1>5. g[Root] # Null
  BY <1>3, <1>4 DEF Sound, WellTyped
<1>6. QED
  BY <1>3, <1>4, <1>5 DEF Sound

\* gs is fs with e for its innermost activation.
Again(gs, fs, e) == gs = Append(Front(fs), e)

\* What the activations in fs fill is in g what it was in h, but for what the
\* innermost container holds.
Undisturbed(g, h, fs) ==
    \A k \in 1..Len(fs) :
       /\ g[fs[k].at].kind = h[fs[k].at].kind
       /\ g[fs[k].at].name = h[fs[k].at].name
       /\ g[fs[k].at].val = h[fs[k].at].val
       /\ k # Len(fs) => TreesIn(g, fs[k].at) = TreesIn(h, fs[k].at)

LEMMA DeliverTrees ==
    ASSUME NEW h, Sound(h), NEW fs, Stacked(h, fs), fs # <<>>, action \in Policies,
           NEW x \in Ids, h[x] # Null, Holding(h, x) = {},
           \A k \in 1..Len(fs) : fs[k].at # x,
           NEW f, f = Last(fs), f.mode = "Unnamed" => h[x].name = NoName,
           NEW trees, NEW n, Holds(h, f.at, trees, n, action),
           NEW T, T = Offering(h, x, action), NEW U, Appends(U, trees, T),
           Deliver(h, x, fs)
    PROVE  /\ Acyclic(heap')
           /\ \/ /\ phase' = "idle" /\ ret' \in AddErrors
                 /\ TreesIn(heap', Root) = TreesIn(h, Root)
                 /\ Caused(KindFor(f.mode), trees, action, T, ret')
              \/ /\ UNCHANGED <<phase, ret>>
                 /\ Again(frames', fs, NewFrame(f.at, f.mode))
                 /\ Holds(heap', f.at, U, n, action)
                 /\ Undisturbed(heap', h, fs)
<1> DEFINE t == f.at
           r == AddTo(h, t, x, action)
<1>1. \/ /\ r.out \in AddErrors
         /\ heap' = Settled(r.heap, {})
         /\ phase' = "idle" /\ ret' = r.out
      \/ /\ r.out \notin AddErrors
         /\ heap' = Settled(r.heap, Locals(fs))
         /\ frames' = Append(Front(fs), NewFrame(f.at, f.mode))
         /\ UNCHANGED <<phase, ret>>
  BY DEF Deliver, Finish
<1>2. r = AddTo(h, t, x, action)
  OBVIOUS
<1>3. /\ WellTyped(h) /\ Closed(h) /\ Len(fs) \in Nat /\ Len(fs) \in 1..Len(fs)
      /\ f = fs[Len(fs)] /\ f \in Frame
  BY Innermost DEF Sound
<1>4. /\ t \in Addresses /\ h[t] # Null /\ IsContainer(h, t)
  BY <1>3, InnermostFills
<1>5. /\ h[t].kind = KindFor(f.mode)
      /\ \A k \in 1..Len(fs) : /\ fs[k].at \in Addresses /\ h[fs[k].at] # Null
                               /\ k # Len(fs) => fs[k].at # t
  BY <1>3, LocalsHeld DEF Stacked, KindFor
<1>6. Holding(h, t) = {} /\ x # t
  <2>1. CASE Len(fs) = 1
    <3>1. t = Root /\ Root \in Configs
      BY <1>3, <2>1, ReadAssumption DEF Stacked
    <3>2. QED
      BY <1>3, <1>4, <3>1, HeldByNone
  <2>2. CASE Len(fs) # 1
    BY <1>3, <2>2 DEF Stacked
  <2>3. QED
    BY <1>3, <2>1, <2>2
<1>7. h[t].kind = "List" => h[x].name = NoName
  <2>1. f.mode \in {"Named", "Unnamed"}
    BY <1>3 DEF Frame
  <2>2. QED
    BY <1>5, <2>1 DEF KindFor
<1> HIDE DEF r, t
<1>8. /\ Sound(r.heap) /\ r.heap[t].kind = h[t].kind
      /\ \A y \in Addresses : y # t /\ y # x => r.heap[y] = h[y]
      /\ \A y \in Addresses : h[y] # Null => r.heap[y] # Null
      /\ \A y \in Addresses : h[y] # Null /\ y # t => TreesIn(r.heap, y) = TreesIn(h, y)
      /\ \/ Refusal(h, t, trees, action, T, r)
         \/ r.out \notin AddErrors /\ Holds(r.heap, t, U, n, action)
  <2>1. Holds(h, t, trees, n, action)
    BY DEF t
  <2>2. QED
    BY <1>2, <1>4, <1>6, <2>1, AddTrees
<1>9. \A y \in Addresses : h[y] # Null =>
         r.heap[y].name = h[y].name /\ r.heap[y].val = h[y].val
  BY <1>2, <1>3, <1>4, AddKeepsLooks
<1>10. t = f.at
  BY DEF t
<1>11. CASE r.out \in AddErrors
  <2>1. /\ Refusal(h, t, trees, action, T, r) /\ heap' = Settled(r.heap, {})
        /\ phase' = "idle" /\ ret' = r.out
    BY <1>1, <1>8, <1>11
  <2>2. Acyclic(heap') /\ TreesIn(heap', Root) = TreesIn(r.heap, Root)
    BY <1>8, <2>1, SettledRootTrees
  <2>3. TreesIn(r.heap, Root) = TreesIn(h, Root)
    <3>1. Root \in Addresses /\ h[Root] # Null
      BY <1>3, ReadAssumption DEF WellTyped, Addresses
    <3>2. CASE t = Root
      BY <2>1, <3>2 DEF Refusal
    <3>3. CASE t # Root
      BY <1>8, <3>1, <3>3
    <3>4. QED
      BY <3>2, <3>3
  <2>4. ~Fitting(h[t].kind, T.name) <=> h[t].kind = "Group" /\ T.name \notin Names
    BY <1>5, <1>7 DEF KindFor, Fitting, Offering, Node
  <2>5. Caused(KindFor(f.mode), trees, action, T, ret')
    BY <1>5, <2>1, <2>4 DEF Refusal, Caused
  <2>6. QED
    BY <1>11, <2>1, <2>2, <2>3, <2>5
<1>12. CASE r.out \notin AddErrors
  <2>1. /\ heap' = Settled(r.heap, Locals(fs))
        /\ frames' = Append(Front(fs), NewFrame(f.at, f.mode))
        /\ UNCHANGED <<phase, ret>>
        /\ Holds(r.heap, t, U, n, action)
    BY <1>1, <1>8, <1>12 DEF Refusal
  <2>2. \A k \in 1..Len(fs) :
           /\ r.heap[fs[k].at] # Null
           /\ r.heap[fs[k].at].kind = h[fs[k].at].kind
           /\ r.heap[fs[k].at].name = h[fs[k].at].name
           /\ r.heap[fs[k].at].val = h[fs[k].at].val
           /\ k # Len(fs) => TreesIn(r.heap, fs[k].at) = TreesIn(h, fs[k].at)
    <3>1. SUFFICES ASSUME NEW k \in 1..Len(fs)
                   PROVE  /\ r.heap[fs[k].at] # Null
                          /\ r.heap[fs[k].at].kind = h[fs[k].at].kind
                          /\ r.heap[fs[k].at].name = h[fs[k].at].name
                          /\ r.heap[fs[k].at].val = h[fs[k].at].val
                          /\ k # Len(fs) => TreesIn(r.heap, fs[k].at) = TreesIn(h, fs[k].at)
      OBVIOUS
    <3> DEFINE y == fs[k].at
    <3>2. /\ y \in Addresses /\ h[y] # Null /\ y # x
          /\ k # Len(fs) => y # t
          /\ k = Len(fs) => y = t
      BY <1>3, <1>5, <1>10
    <3> HIDE DEF y
    <3>3. /\ r.heap[y] # Null /\ r.heap[y].name = h[y].name /\ r.heap[y].val = h[y].val
          /\ k # Len(fs) => TreesIn(r.heap, y) = TreesIn(h, y)
      BY <1>8, <1>9, <3>2
    <3>4. r.heap[y].kind = h[y].kind
      BY <1>8, <3>2
    <3>5. QED
      BY <3>3, <3>4 DEF y
  <2>3. Stacked(r.heap, fs)
    <3>1. \A y \in Addresses : y # x => Holding(r.heap, y) \subseteq Holding(h, y)
      <4> DEFINE u == r.heap
      <4>1. u = AddTo(h, t, x, action).heap
        BY <1>2
      <4> HIDE DEF u
      <4>2. \A y \in Addresses : y # x => Holding(u, y) \subseteq Holding(h, y)
        BY <1>3, <1>4, <4>1, AddToKeeps DEF AnyPolicy
      <4>3. QED
        BY <4>2 DEF u
    <3>2. \A k \in 1..Len(fs) : /\ r.heap[fs[k].at] # Null
                                /\ r.heap[fs[k].at].kind = h[fs[k].at].kind
                                /\ Holding(r.heap, fs[k].at) \subseteq Holding(h, fs[k].at)
      BY <1>5, <2>2, <3>1
    <3>3. QED
      BY <3>2, StackedFrame
  <2>4. /\ Acyclic(heap')
        /\ \A k \in 1..Len(fs) : /\ heap'[fs[k].at] = r.heap[fs[k].at]
                                 /\ TreesIn(heap', fs[k].at) = TreesIn(r.heap, fs[k].at)
    BY <1>8, <2>1, <2>3, SettledFrames
  <2>5. Holds(heap', t, U, n, action)
    <3>1. heap'[t] = r.heap[t] /\ TreesIn(heap', t) = TreesIn(r.heap, t)
      BY <1>3, <1>10, <2>4
    <3>2. QED
      BY <2>1, <3>1, HoldsSame
  <2>6. Again(frames', fs, NewFrame(f.at, f.mode))
    BY <2>1 DEF Again
  <2>7. Undisturbed(heap', h, fs)
    BY <2>2, <2>4 DEF Undisturbed
  <2>8. QED
    BY <1>10, <2>1, <2>4, <2>5, <2>6, <2>7
<1>13. QED
  BY <1>11, <1>12

-----------------------------------------------------------------------------
(* The invariant *)

\* The activation f fills the container that opens at j with what the document
\* promises it.  A list asks for no names, and no container has its name yet.
Fills(h, D, start, f, j, p) ==
    /\ Holds(h, f.at, Promised(D, start, j, p), IF j = 0 THEN Len(start) ELSE 0, p)
    /\ f.mode = "Unnamed" <=> j # 0 /\ D[j].type = "LBracket"
    /\ f.mode = "Unnamed" => f.want = "item" /\ f.name = NoName
    /\ j # 0 => h[f.at].name = NoName /\ h[f.at].val = NoVal

\* The name that f holds is the one for the item that comes next.
NamesNext(D, f) ==
    LET n == Len(D)
    IN  /\ f.want = "item" => f.name = NoName
        /\ f.want = "equal" => f.name = D[n].text
        /\ f.want = "value" => f.name = D[n - 1].text

\* The activations fill the containers that are open, and each of those around
\* the innermost holds the name of the container inside of it.
Underway(h, D, start, fs, pos, p) ==
    /\ Spine(D, pos, Len(fs))
    /\ \A i \in 1..Len(fs) : /\ Fills(h, D, start, fs[i], pos[i], p)
                             /\ i # 1 => fs[i - 1].name = Label(D, pos[i])
    /\ NamesNext(D, Last(fs))

\* The read goes by the policy it began with and has no answer yet; no item is
\* inside of itself.
Delivering ==
    /\ Acyclic(heap)
    /\ phase # "idle" => action = policy /\ ret = "none"
    /\ phase = "parse" =>
          /\ \E S : TreesIn(origin, Root) \in Seq(S)
          /\ \E pos : Underway(heap, read, TreesIn(origin, Root), frames, pos, policy)

-----------------------------------------------------------------------------
(* The parts of the invariant, one token later *)

LEMMA SpineMore ==
    ASSUME NEW D \in Seq(Token), NEW t \in Token, NEW E, Appends(E, D, t), NEW n, n = Len(D),
           NEW pos, NEW m, Spine(D, pos, m), NEW u,
           NEW k \in Nat \ {0},
           t.type \in Openers => k = m + 1,
           t.type \in Closers => k = m - 1,
           t.type \notin Openers \cup Closers => k = m,
           \A i \in 1..m : u[i] = pos[i],
           t.type \in Openers => u[m + 1] = n + 1
    PROVE  Spine(E, u, k)
<1>0. IsLonger(D, t, E, n)
  BY Longer
<1>1. /\ n \in Nat /\ Len(E) = n + 1 /\ E[n + 1] = t /\ \A i \in 1..n : E[i] = D[i]
      /\ \A q \in 0..n : Depth(E, q) = Depth(D, q) /\ Depth(D, q) \in Int
      /\ Depth(E, n + 1) = CASE t.type \in Openers -> Depth(D, n) + 1
                             [] t.type \in Closers -> Depth(D, n) - 1
                             [] OTHER -> Depth(D, n)
      /\ n \in 0..n
  BY <1>0 DEF IsLonger
<1>2. /\ m \in Nat \ {0} /\ Depth(D, n) = m - 1
      /\ \A i \in 1..m : /\ pos[i] \in 0..n
                         /\ Depth(D, pos[i]) = i - 1
                         /\ \A q \in pos[i]..n : Depth(D, q) >= i - 1
                         /\ i = 1 => pos[i] = 0
                         /\ i # 1 => pos[i] # 0 /\ D[pos[i]].type \in Openers
  BY DEF Spine
<1>3. Openers \cap Closers = {}
  BY TypesDiffer
<1>4. Depth(E, n + 1) = k - 1 /\ k <= m + 1
  BY <1>1, <1>2, <1>3
<1>5. ASSUME NEW i \in 1..k
      PROVE  /\ u[i] \in 0..(n + 1)
             /\ Depth(E, u[i]) = i - 1
             /\ \A q \in u[i]..(n + 1) : Depth(E, q) >= i - 1
             /\ i = 1 => u[i] = 0
             /\ i # 1 => u[i] # 0 /\ E[u[i]].type \in Openers
  <2>1. CASE i <= m
    <3>1. i \in 1..m /\ u[i] = pos[i]
      BY <1>2, <2>1
    <3> DEFINE j == u[i]
    <3>2. /\ j \in 0..n /\ Depth(D, j) = i - 1
          /\ \A q \in j..n : Depth(D, q) >= i - 1
          /\ i = 1 => j = 0
          /\ i # 1 => j # 0 /\ D[j].type \in Openers
      BY <1>2, <3>1
    <3> HIDE DEF j
    <3>3. j \in 0..(n + 1) /\ (j # 0 => E[j] = D[j])
      BY <1>1, <3>2
    <3>4. \A q \in j..(n + 1) : Depth(E, q) >= i - 1
      <4>1. \A q \in j..(n + 1) : q \in j..n \/ q = n + 1
        BY <1>1, <3>2
      <4>2. \A q \in j..n : q \in 0..n
        BY <1>1, <3>2
      <4>3. k - 1 >= i - 1
        BY <1>5
      <4>4. QED
        BY <1>1, <1>4, <3>2, <4>1, <4>2, <4>3
    <3>5. QED
      BY <1>1, <3>2, <3>3, <3>4 DEF j
  <2>2. CASE ~(i <= m)
    <3>1. i = m + 1 /\ k = m + 1
      BY <1>2, <1>4, <2>2
    <3>2. t.type \in Openers
      BY <1>2, <3>1
    <3>3. u[i] = n + 1
      BY <3>1, <3>2
    <3>4. \A q \in (n + 1)..(n + 1) : q = n + 1
      BY <1>1
    <3>5. n + 1 \in 0..(n + 1) /\ n + 1 # 0 /\ i # 1
      BY <1>1, <1>2, <3>1
    <3>6. Depth(E, n + 1) = i - 1 /\ i - 1 >= i - 1
      BY <1>4, <3>1
    <3>7. QED
      BY <1>1, <3>2, <3>3, <3>4, <3>5, <3>6
  <2>3. QED
    BY <2>1, <2>2
<1>6. QED
  BY <1>1, <1>4, <1>5 DEF Spine

\* The name that the item at the next token is given is the one its activation
\* holds.
LEMMA NextLabel ==
    ASSUME NEW D \in Seq(Token), NEW t \in Token, NEW E, Appends(E, D, t), NEW n, n = Len(D),
           Viable(D), NEW f \in Frame, f.want # "equal", NamesNext(D, f), Awaits(D, f)
    PROVE  Label(E, n + 1) = f.name
<1>0. IsLonger(D, t, E, n)
  BY Longer
<1>1. n \in Nat /\ \A i \in 1..n : E[i] = D[i]
  BY <1>0 DEF IsLonger
<1>2. f.want \in {"item", "equal", "value"}
  BY DEF Frame
<1>3. Follows(D, n + 1, {"Equal"}) <=> f.want = "value"
  BY DEF Awaits
<1>4. Follows(E, n + 1, {"Equal"}) <=> Follows(D, n + 1, {"Equal"})
  <2>1. n + 1 > 1 => E[n + 1 - 1] = D[n + 1 - 1]
    BY <1>1
  <2>2. QED
    BY <2>1 DEF Follows
<1>5. CASE f.want = "item"
  BY <1>3, <1>4, <1>5 DEF Label, NamesNext
<1>6. CASE f.want = "value"
  <2>1. Follows(D, n + 1, {"Equal"})
    BY <1>3, <1>6
  <2>2. n >= 1 /\ D[n].type = "Equal"
    BY <1>1, <2>1 DEF Follows
  <2>3. Label(E, n + 1) = E[n - 1].text
    <3>1. n + 1 - 2 = n - 1
      BY <1>1
    <3>2. QED
      BY <1>4, <2>1, <3>1 DEF Label
  <2>4. f.name = D[n - 1].text
    BY <1>6 DEF NamesNext
  <2>5. n - 1 \in 1..n
    <3>1. n \in DOMAIN D
      BY <1>1, <2>2, LenProperties
    <3>2. Follows(D, n, {"Identifier"})
      BY <2>2, <3>1 DEF Viable
    <3>3. QED
      BY <1>1, <3>2 DEF Follows
  <2>6. QED
    BY <1>1, <2>3, <2>4, <2>5
<1>7. QED
  BY <1>2, <1>5, <1>6

\* An activation that adds nothing, and one whose container has got one item more.
LEMMA FillsLater ==
    ASSUME NEW D \in Seq(Token), NEW t \in Token, NEW E, Appends(E, D, t), Viable(D),
           NEW h, NEW start, NEW f, NEW j \in 0..Len(D), NEW p, Fills(h, D, start, f, j, p),
           NEW g, NEW e, e.at = f.at, e.mode = f.mode,
           e.mode = "Unnamed" => e.want = "item" /\ e.name = NoName,
           g[f.at].kind = h[f.at].kind,
           g[f.at].name = h[f.at].name, g[f.at].val = h[f.at].val,
           \/ ItemsIn(E, j) = ItemsIn(D, j) /\ TreesIn(g, f.at) = TreesIn(h, f.at)
           \/ Holds(g, f.at, Promised(E, start, j, p), IF j = 0 THEN Len(start) ELSE 0, p)
    PROVE  Fills(g, E, start, e, j, p)
<1> DEFINE n == Len(D)
           first == IF j = 0 THEN Len(start) ELSE 0
<1>0. IsLonger(D, t, E, n)
  BY Longer
<1>1. j # 0 => E[j] = D[j]
  BY <1>0 DEF IsLonger
<1>2. Holds(g, f.at, Promised(E, start, j, p), first, p)
  <2>1. CASE ItemsIn(E, j) = ItemsIn(D, j) /\ TreesIn(g, f.at) = TreesIn(h, f.at)
    <3>1. Promised(E, start, j, p) = Promised(D, start, j, p)
      BY <2>1, PromisedSame
    <3>2. Holds(h, f.at, Promised(D, start, j, p), first, p)
      BY DEF Fills
    <3> HIDE DEF first
    <3>3. Holds(g, f.at, Promised(D, start, j, p), first, p)
      BY <2>1, <3>2, HoldsSame
    <3>4. QED
      BY <3>1, <3>3
  <2>2. QED
    BY <2>1
<1>3. QED
  BY <1>1, <1>2 DEF Fills

\* Add refuses for cause.
LEMMA RefusesIs ==
    ASSUME NEW D \in Seq(Token), NEW t \in Token, NEW E, Appends(E, D, t), Viable(D),
           NEW k \in 1..Len(E), k = Completed(E), NEW j \in 0..Len(D), j = Around(E, k),
           Appends(ItemsIn(E, j), ItemsIn(D, j), k),
           NEW start, NEW p, NEW T, T = Meaning(E, k, p),
           NEW trees, trees = Promised(D, start, j, p), \E S : trees \in Seq(S),
           NEW kind, kind = IF j # 0 /\ D[j].type = "LBracket" THEN "List" ELSE "Group",
           NEW why, Caused(kind, trees, p, T, why)
    PROVE  Refuses(E, start, p, why)
<1> DEFINE n == Len(D)
<1>0. IsLonger(D, t, E, n)
  BY Longer
<1>1. j # 0 => E[j] = D[j]
  BY <1>0 DEF IsLonger
<1>2. kind = IF InList(E, k) THEN "List" ELSE "Group"
  BY <1>1 DEF InList
<1>3. Earlier(E, k, start, p) = trees
  BY EarlierIs
<1>4. DOMAIN trees = 1..Len(trees)
  BY LenProperties
<1>5. QED
  BY <1>2, <1>3, <1>4 DEF Refuses, Caused

\* The innermost activation but for what it wants next.
LEMMA AgainIs ==
    ASSUME NEW fs \in Seq(Frame), fs # <<>>, NEW e \in Frame,
           NEW gs, Again(gs, fs, e)
    PROVE  /\ gs \in Seq(Frame) /\ gs # <<>> /\ Len(gs) = Len(fs) /\ Last(gs) = e
           /\ gs[Len(fs)] = e
           /\ \A k \in 1..Len(fs) : k # Len(fs) => gs[k] = fs[k]
<1> DEFINE v == Front(fs)
<1>1. /\ Len(fs) \in Nat \ {0} /\ v \in Seq(Frame) /\ Len(v) = Len(fs) - 1
      /\ \A k \in 1..(Len(fs) - 1) : v[k] = fs[k]
  BY FrontAndLast
<1>2. gs = Append(v, e)
  BY DEF Again
<1> HIDE DEF v
<1>3. /\ gs \in Seq(Frame) /\ Len(gs) = Len(v) + 1 /\ gs[Len(v) + 1] = e
      /\ \A k \in 1..Len(v) : gs[k] = v[k]
  BY <1>1, <1>2, AppendProperties
<1>4. Len(gs) = Len(fs) /\ gs[Len(fs)] = e
  BY <1>1, <1>3
<1>5. gs # <<>>
  BY <1>1, <1>3
<1>6. Last(gs) = e
  BY <1>3, <1>4, <1>5, FrontAndLast
<1>7. ASSUME NEW k \in 1..Len(fs), k # Len(fs)
      PROVE  gs[k] = fs[k]
  <2>1. k \in 1..(Len(fs) - 1) /\ k \in 1..Len(v)
    BY <1>1, <1>7
  <2>2. QED
    BY <1>1, <1>3, <2>1
<1>8. QED
  BY <1>3, <1>4, <1>5, <1>6, <1>7

LEMMA FramesAgain ==
    ASSUME NEW f \in Frame
    PROVE  /\ NewFrame(f.at, f.mode) \in Frame
           /\ NewFrame(f.at, f.mode).at = f.at /\ NewFrame(f.at, f.mode).mode = f.mode
           /\ NewFrame(f.at, f.mode).want = "item" /\ NewFrame(f.at, f.mode).name = NoName
BY DEF NewFrame, Frame, AnyName

LEMMA RootIs ==
    ASSUME NEW h, h[Root].kind = "Group", NEW D, NEW start, NEW fs, fs[1].at = Root,
           NEW pos, NEW p, Underway(h, D, start, fs, pos, p)
    PROVE  TreesIn(h, Root) = Expect(D, start, p)
<1>1. Spine(D, pos, Len(fs))
  BY DEF Underway
<1>2. 1 \in 1..Len(fs) /\ pos[1] = 0
  BY <1>1 DEF Spine
<1>3. Fills(h, D, start, fs[1], 0, p)
  BY <1>2 DEF Underway
<1>4. Holds(h, Root, Promised(D, start, 0, p), Len(start), p)
  BY <1>3 DEF Fills
<1>5. TreesIn(h, Root) = Kept("Group", Promised(D, start, 0, p), Len(start), p)
  BY <1>4 DEF Holds
<1>6. QED
  BY <1>5, ExpectIs

-----------------------------------------------------------------------------
(* The steps of the parse *)

\* The token t completes the item that starts at k, which is at x in h: it is for
\* the innermost of the containers that fs fills, which open at pos.
Completes(D, t, E, start, p, h, x, fs, pos, k) ==
    LET m == Len(fs)
    IN  /\ Appends(E, D, t) /\ Viable(D)
        /\ \E S : start \in Seq(S)
        /\ Sound(h) /\ Stacked(h, fs) /\ fs # <<>>
        /\ h[x] # Null /\ Holding(h, x) = {} /\ \A i \in 1..m : fs[i].at # x
        /\ Spine(E, pos, m)
        /\ \A i \in 1..m : /\ pos[i] \in 0..Len(D)
                           /\ Fills(h, D, start, fs[i], pos[i], p)
                           /\ i # 1 => fs[i - 1].name = Label(D, pos[i])
                           /\ i # m => ItemsIn(E, pos[i]) = ItemsIn(D, pos[i])
        /\ k = Completed(E) /\ pos[m] = Around(E, k)
        /\ Appends(ItemsIn(E, pos[m]), ItemsIn(D, pos[m]), k)
        /\ Offering(h, x, p) = Meaning(E, k, p)
        /\ Last(fs).mode = "Unnamed" => h[x].name = NoName

\* What becomes of that item when it is delivered.
LEMMA DeliverStep ==
    ASSUME NEW D \in Seq(Token), NEW t \in Token, NEW E, NEW start, action \in Policies,
           NEW h, NEW x \in Ids, NEW fs, NEW pos, NEW k \in 1..Len(E),
           Completes(D, t, E, start, action, h, x, fs, pos, k), Deliver(h, x, fs)
    PROVE  /\ Acyclic(heap')
           /\ \/ /\ phase' = "idle" /\ ret' \in AddErrors
                 /\ TreesIn(heap', Root) = TreesIn(h, Root)
                 /\ Refuses(E, start, action, ret')
              \/ /\ UNCHANGED <<phase, ret>>
                 /\ Underway(heap', E, start, frames', pos, action)
<1> DEFINE m == Len(fs)
<1>a. /\ Appends(E, D, t) /\ Viable(D)
      /\ \E S : start \in Seq(S)
      /\ Sound(h) /\ Stacked(h, fs) /\ fs # <<>>
      /\ h[x] # Null /\ Holding(h, x) = {} /\ \A i \in 1..m : fs[i].at # x
      /\ Spine(E, pos, m)
      /\ \A i \in 1..m : pos[i] \in 0..Len(D)
      /\ \A i \in 1..m : /\ Fills(h, D, start, fs[i], pos[i], action)
                         /\ i # 1 => fs[i - 1].name = Label(D, pos[i])
      /\ \A i \in 1..m : i # m => ItemsIn(E, pos[i]) = ItemsIn(D, pos[i])
      /\ k = Completed(E) /\ pos[m] = Around(E, k)
      /\ Appends(ItemsIn(E, pos[m]), ItemsIn(D, pos[m]), k)
      /\ Offering(h, x, action) = Meaning(E, k, action)
      /\ Last(fs).mode = "Unnamed" => h[x].name = NoName
  BY DEF Completes
<1>b. m = Len(fs)
  OBVIOUS
<1> HIDE DEF m
<1> USE <1>a, <1>b
<1> DEFINE f     == Last(fs)
           j     == pos[m]
           trees == Promised(D, start, j, action)
           U     == Promised(E, start, j, action)
           T     == Offering(h, x, action)
           first == IF j = 0 THEN Len(start) ELSE 0
           e     == NewFrame(f.at, f.mode)
<1>1. /\ m \in Nat /\ m \in 1..m /\ f = fs[m] /\ f \in Frame /\ fs \in Seq(Frame)
  BY Innermost DEF Stacked
<1>2. /\ Fills(h, D, start, f, j, action) /\ j \in 0..Len(D)
  BY <1>1
<1>3. Appends(U, trees, T)
  BY PromisedMore
<1>4. Holds(h, f.at, trees, first, action)
  BY <1>2 DEF Fills
<1>5. /\ f = Last(fs) /\ T = Offering(h, x, action)
      /\ (f.mode = "Unnamed" => h[x].name = NoName)
  OBVIOUS
<1>6. e \in Frame /\ e.at = f.at /\ e.mode = f.mode /\ e.want = "item" /\ e.name = NoName
  BY <1>1, FramesAgain
<1>7. /\ e = NewFrame(f.at, f.mode) /\ j = pos[m]
      /\ trees = Promised(D, start, j, action) /\ U = Promised(E, start, j, action)
      /\ first = (IF j = 0 THEN Len(start) ELSE 0)
      /\ T = Meaning(E, k, action)
  OBVIOUS
<1> HIDE DEF f, j, trees, U, T, first, e
<1>8. /\ Acyclic(heap')
      /\ \/ /\ phase' = "idle" /\ ret' \in AddErrors
            /\ TreesIn(heap', Root) = TreesIn(h, Root)
            /\ Caused(KindFor(f.mode), trees, action, T, ret')
         \/ /\ UNCHANGED <<phase, ret>>
            /\ Again(frames', fs, NewFrame(f.at, f.mode))
            /\ Holds(heap', f.at, U, first, action)
            /\ Undisturbed(heap', h, fs)
  BY <1>3, <1>4, <1>5, DeliverTrees
<1>9. ASSUME Caused(KindFor(f.mode), trees, action, T, ret')
      PROVE  Refuses(E, start, action, ret')
  <2> DEFINE kind == IF j # 0 /\ D[j].type = "LBracket" THEN "List" ELSE "Group"
  <2>1. \E S : trees \in Seq(S)
    BY <1>4 DEF Holds
  <2>2. f.mode \in {"Named", "Unnamed"} /\ (f.mode = "Unnamed" <=> j # 0 /\ D[j].type = "LBracket")
    BY <1>1, <1>2 DEF Fills, Frame
  <2>3. KindFor(f.mode) = kind
    BY <2>2 DEF KindFor
  <2>4. Caused(kind, trees, action, T, ret')
    BY <1>9, <2>3
  <2>5. kind = (IF j # 0 /\ D[j].type = "LBracket" THEN "List" ELSE "Group")
    OBVIOUS
  <2> HIDE DEF kind
  <2>6. j = Around(E, k) /\ Appends(ItemsIn(E, j), ItemsIn(D, j), k)
    BY <1>7
  <2>7. QED
    BY <1>2, <1>7, <2>1, <2>4, <2>5, <2>6, RefusesIs
<1>10. ASSUME /\ Again(frames', fs, NewFrame(f.at, f.mode))
              /\ Holds(heap', f.at, U, first, action)
              /\ Undisturbed(heap', h, fs)
       PROVE  Underway(heap', E, start, frames', pos, action)
  <2>1. /\ Len(frames') = m /\ Last(frames') = e /\ frames'[m] = e
        /\ \A i \in 1..m : i # m => frames'[i] = fs[i]
    <3>1. Again(frames', fs, e)
      BY <1>7, <1>10
    <3>2. QED
      BY <1>1, <1>6, <3>1, AgainIs
  <2>2. ASSUME NEW i \in 1..m
        PROVE  Fills(heap', E, start, frames'[i], pos[i], action)
    <3> DEFINE c == fs[i]
               d == frames'[i]
               q == pos[i]
    <3>1. Fills(h, D, start, c, q, action) /\ q \in 0..Len(D)
      OBVIOUS
    <3>2. /\ d.at = c.at /\ d.mode = c.mode
          /\ d.mode = "Unnamed" => d.want = "item" /\ d.name = NoName
      <4>1. CASE i = m
        BY <1>1, <1>6, <2>1, <4>1
      <4>2. CASE i # m
        BY <2>1, <3>1, <4>2 DEF Fills
      <4>3. QED
        BY <4>1, <4>2
    <3>3. /\ heap'[c.at].kind = h[c.at].kind /\ heap'[c.at].name = h[c.at].name
          /\ heap'[c.at].val = h[c.at].val
      BY <1>10 DEF Undisturbed
    <3>4. \/ ItemsIn(E, q) = ItemsIn(D, q) /\ TreesIn(heap', c.at) = TreesIn(h, c.at)
          \/ Holds(heap', c.at, Promised(E, start, q, action),
                   IF q = 0 THEN Len(start) ELSE 0, action)
      BY <1>1, <1>7, <1>10 DEF Undisturbed
    <3> HIDE DEF c, d, q
    <3>5. Fills(heap', E, start, d, q, action)
      BY <3>1, <3>2, <3>3, <3>4, FillsLater
    <3>6. QED
      BY <3>5 DEF d, q
  <2>3. ASSUME NEW i \in 1..m, i # 1
        PROVE  frames'[i - 1].name = Label(E, pos[i])
    <3>1. i - 1 \in 1..m /\ i - 1 # m /\ pos[i] \in 1..Len(D)
      <4>1. pos[i] # 0 /\ pos[i] \in 0..Len(D)
        BY <2>3 DEF Spine
      <4>2. QED
        BY <1>1, <2>3, <4>1
    <3>2. frames'[i - 1] = fs[i - 1] /\ fs[i - 1].name = Label(D, pos[i])
      BY <2>1, <2>3, <3>1
    <3>3. Label(E, pos[i]) = Label(D, pos[i])
      BY <3>1, LabelSame
    <3>4. QED
      BY <3>2, <3>3
  <2>4. NamesNext(E, Last(frames'))
    BY <1>6, <2>1 DEF NamesNext
  <2>5. QED
    BY <2>1, <2>2, <2>3, <2>4 DEF Underway
<1>11. QED
  BY <1>8, <1>9, <1>10

\* The innermost activation wants something else, and no container has got an
\* item more.
LEMMA WantsElse ==
    ASSUME NEW D \in Seq(Token), NEW t \in Token, NEW E, Appends(E, D, t), Viable(D),
           NEW h, NEW start, NEW p, NEW fs \in Seq(Frame), fs # <<>>,
           NEW pos, NEW m, m = Len(fs), Spine(E, pos, m), \A i \in 1..m : pos[i] \in 0..Len(D),
           \A i \in 1..m : /\ Fills(h, D, start, fs[i], pos[i], p)
                           /\ i # 1 => fs[i - 1].name = Label(D, pos[i]),
           \A i \in 1..m : ItemsIn(E, pos[i]) = ItemsIn(D, pos[i]),
           NEW e \in Frame, e.at = fs[m].at, e.mode = fs[m].mode,
           e.mode = "Unnamed" => e.want = "item" /\ e.name = NoName,
           NamesNext(E, e), NEW gs, Again(gs, fs, e)
    PROVE  Underway(h, E, start, gs, pos, p)
<1>1. /\ Len(gs) = m /\ Last(gs) = e /\ gs[m] = e
      /\ \A i \in 1..m : i # m => gs[i] = fs[i]
  <2>1. Again(gs, fs, e) /\ fs \in Seq(Frame) /\ fs # <<>> /\ e \in Frame
    OBVIOUS
  <2>2. /\ Len(gs) = Len(fs) /\ Last(gs) = e /\ gs[Len(fs)] = e
        /\ \A i \in 1..Len(fs) : i # Len(fs) => gs[i] = fs[i]
    BY ONLY <2>1, AgainIs
  <2>3. QED
    BY <2>2
<1>2. m \in Nat /\ DOMAIN D = 1..Len(D) /\ Len(D) \in Nat
  BY LenProperties DEF Spine
<1>3. ASSUME NEW i \in 1..m
      PROVE  Fills(h, E, start, gs[i], pos[i], p)
  <2> DEFINE c == fs[i]
             d == gs[i]
             q == pos[i]
  <2>1. Fills(h, D, start, c, q, p) /\ q \in 0..Len(D) /\ ItemsIn(E, q) = ItemsIn(D, q)
    OBVIOUS
  <2>2. /\ d.at = c.at /\ d.mode = c.mode
        /\ d.mode = "Unnamed" => d.want = "item" /\ d.name = NoName
    <3>1. CASE i = m
      BY <1>1, <3>1
    <3>2. CASE i # m
      BY <1>1, <2>1, <3>2 DEF Fills
    <3>3. QED
      BY <3>1, <3>2
  <2> HIDE DEF c, d, q
  <2>3. Fills(h, E, start, d, q, p)
    BY <2>1, <2>2, FillsLater
  <2>4. QED
    BY <2>3 DEF d, q
<1>4. ASSUME NEW i \in 1..m, i # 1
      PROVE  gs[i - 1].name = Label(E, pos[i])
  <2>1. i - 1 \in 1..m /\ i - 1 # m /\ pos[i] \in 1..Len(D)
    <3>1. pos[i] # 0 /\ pos[i] \in 0..Len(D)
      BY <1>4 DEF Spine
    <3>2. QED
      BY <1>2, <1>4, <3>1
  <2>2. gs[i - 1] = fs[i - 1] /\ fs[i - 1].name = Label(D, pos[i])
    BY <1>1, <1>4, <2>1
  <2>3. Label(E, pos[i]) = Label(D, pos[i])
    BY <2>1, LabelSame
  <2>4. QED
    BY <2>2, <2>3
<1>5. QED
  BY <1>1, <1>3, <1>4 DEF Underway

\* What is known when a token is read.
Reading(token, start) ==
    /\ phase = "parse" /\ Good(heap) /\ Sound(heap) /\ Stacked(heap, frames) /\ frames # <<>>
    /\ read \in Seq(Token) /\ Appends(read', read, token) /\ Viable(read)
    /\ policy \in Policies /\ action = policy /\ ret = "none"
    /\ start = TreesIn(origin, Root)
    /\ UNCHANGED <<policy, action, origin>>
    /\ Top \in Frame /\ Awaits(read, Top) /\ level = Len(frames) - 1

LEMMA TokenRead ==
    ASSUME ReadSound, Grammatical, Delivering, NEW token \in Token, Consume(token),
           NEW start, start = TreesIn(origin, Root)
    PROVE  /\ Reading(token, start)
           /\ \E S : start \in Seq(S)
           /\ \E pos : Underway(heap, read, start, frames, pos, policy)
<1>1. /\ phase = "parse" /\ read \in Seq(Token) /\ read' = Append(read, token)
      /\ Begun(read, frames) /\ frames # <<>> /\ Top \in Frame
      /\ level = Len(frames) - 1
  BY ConsumeBegun
<1>2. /\ Good(heap) /\ Stacked(heap, frames) /\ policy \in Policies
      /\ UNCHANGED <<policy, action, origin>>
  BY DEF ReadSound, Control, Consume, client, history
<1>3. Sound(heap)
  BY <1>2 DEF Sound, Good, Delivering
<1>4. Awaits(read, Top) /\ Viable(read) /\ Appends(read', read, token)
  BY <1>1 DEF Begun, Top, Appends
<1>5. QED
  BY <1>1, <1>2, <1>3, <1>4 DEF Delivering, Reading

\* A token keeps the invariant, and after it the root holds what it should.
Delivers(start) ==
    LET D == IF phase' \in {"parse", "after"} THEN read' ELSE read
    IN  /\ Delivering'
        /\ TreesIn(heap', Root) = Expect(D, start, policy)
        /\ ret' \in AddErrors => Refuses(read', start, policy, ret')

\* The read is over, and the root is as it was.
LEMMA EndDelivers ==
    ASSUME NEW token \in Token, NEW start, Reading(token, start),
           \E pos : Underway(heap, read, start, frames, pos, policy),
           \/ phase' = "idle"
           \/ phase' = "failed" /\ ret' = ret,
           Acyclic(heap'), TreesIn(heap', Root) = TreesIn(heap, Root),
           ret' \in AddErrors => Refuses(read', start, policy, ret')
    PROVE  Delivers(start)
<1>1. TreesIn(heap, Root) = Expect(read, start, policy)
  <2>1. PICK pos : Underway(heap, read, start, frames, pos, policy)
    OBVIOUS
  <2>2. heap[Root].kind = "Group"
    BY ReadAssumption DEF Reading, Good, WellTyped
  <2>3. frames[1].at = Root
    <3>1. 1 \in 1..Len(frames)
      BY <2>1 DEF Underway, Spine
    <3>2. QED
      BY <3>1 DEF Reading, Stacked
  <2>4. QED
    BY <2>1, <2>2, <2>3, RootIs
<1>2. Delivering'
  BY DEF Delivering, Reading
<1>3. QED
  BY <1>1, <1>2 DEF Delivers

\* The parse goes on.
LEMMA GoesOnDelivers ==
    ASSUME NEW token \in Token, NEW start, Reading(token, start), \E S : start \in Seq(S),
           UNCHANGED <<phase, ret>>, Acyclic(heap'), Good(heap'), Stacked(heap', frames'),
           NEW pos, Underway(heap', read', start, frames', pos, policy)
    PROVE  Delivers(start)
<1>1. TreesIn(heap', Root) = Expect(read', start, policy)
  <2> DEFINE g == heap'
             gs == frames'
             E == read'
  <2>1. g[Root].kind = "Group"
    BY ReadAssumption DEF Good, WellTyped
  <2>2. gs[1].at = Root
    <3>1. 1 \in 1..Len(gs)
      BY DEF Underway, Spine
    <3>2. QED
      BY <3>1 DEF Stacked
  <2>3. Underway(g, E, start, gs, pos, policy)
    OBVIOUS
  <2> HIDE DEF g, gs, E
  <2>4. TreesIn(g, Root) = Expect(E, start, policy)
    BY <2>1, <2>2, <2>3, RootIs
  <2>5. QED
    BY <2>4 DEF g, E
<1>2. /\ phase' = "parse" /\ ret' = "none" /\ "none" \notin AddErrors
      /\ start = TreesIn(origin', Root) /\ policy' = policy /\ action' = policy'
  BY DEF Reading, AddErrors
<1>3. Delivering'
  <2>1. \E S : TreesIn(origin', Root) \in Seq(S)
    BY <1>2
  <2>2. Underway(heap', read', TreesIn(origin', Root), frames', pos, policy')
    BY <1>2
  <2>3. QED
    BY <1>2, <2>1, <2>2 DEF Delivering
<1>4. QED
  BY <1>1, <1>2, <1>3 DEF Delivers

LEMMA FailDelivers ==
    ASSUME ReadSound, Grammatical, Delivering, NEW token \in Token, Consume(token), Fail,
           NEW start, start = TreesIn(origin, Root)
    PROVE  Delivers(start)
<1>1. /\ Reading(token, start)
      /\ \E pos : Underway(heap, read, start, frames, pos, policy)
  BY TokenRead
<1>2. Acyclic(heap') /\ TreesIn(heap', Root) = TreesIn(heap, Root)
  <2>1. Sound(heap) /\ heap' = Settled(heap, {})
    BY <1>1 DEF Fail, Reading
  <2>2. QED
    BY <2>1, SettledRootTrees
<1>3. phase' = "failed" /\ ret' = ret /\ ret = "none" /\ "none" \notin AddErrors
  BY <1>1 DEF Fail, Reading, AddErrors
<1>4. QED
  BY <1>1, <1>2, <1>3, EndDelivers

\* A name or an Equal is read.
LEMMA AwaitDelivers ==
    ASSUME ReadSound, Grammatical, Delivering, NEW token \in Token,
           ReadName(token) \/ ReadEqual(token), Good(heap'), Stacked(heap', frames'),
           NEW start, start = TreesIn(origin, Root)
    PROVE  Delivers(start)
<1> DEFINE D == read
           E == read'
           n == Len(D)
           m == Len(frames)
<1>1. /\ Consume(token) /\ token.type \in {"Identifier", "Equal"} /\ token.type \in Expected
      /\ UNCHANGED <<heap, phase, ret>>
  BY DEF ReadName, ReadEqual, Await
<1>2. /\ Reading(token, start) /\ \E S : start \in Seq(S)
      /\ \E pos : Underway(heap, D, start, frames, pos, policy)
  BY <1>1, TokenRead
<1>3. PICK pos : Underway(heap, D, start, frames, pos, policy)
  BY <1>2
<1>4. /\ D \in Seq(Token) /\ Appends(E, D, token) /\ Viable(D) /\ n = Len(D) /\ Sound(heap)
      /\ Top \in Frame /\ Top = Last(frames) /\ Awaits(D, Top)
      /\ Stacked(heap, frames) /\ frames # <<>> /\ frames \in Seq(Frame)
  BY <1>2 DEF Reading, Top, Stacked
<1>5. m \in Nat /\ m \in 1..m /\ Top = frames[m]
  BY <1>4, Innermost
<1>6. /\ token.type \notin Openers /\ token.type \notin Closers
      /\ token.type \notin ItemTokens
  BY <1>1 DEF Openers, Closers, ItemTokens
<1>7. Spine(D, pos, m) /\ NamesNext(D, Top)
  BY <1>3, <1>4 DEF Underway
<1>8. IsLonger(D, token, E, n)
  BY <1>4, Longer
<1>9. n \in Nat /\ E[n + 1] = token /\ Len(E) = n + 1 /\ \A k \in 1..n : E[k] = D[k]
  BY <1>8 DEF IsLonger
<1>10. Fills(heap, D, start, Top, pos[m], policy)
  BY <1>3, <1>5 DEF Underway
<1>11. Top.want \in {"item", "equal", "value"} /\ Top.mode \in {"Named", "Unnamed"}
  BY <1>4 DEF Frame
<1>12. PICK e \in Frame : /\ Again(frames', frames, e)
                          /\ e.at = Top.at /\ e.mode = Top.mode /\ Top.mode # "Unnamed"
                          /\ NamesNext(E, e)
  <2>1. CASE ReadName(token)
    <3> DEFINE e == Wanting(Top, "equal", token.text)
    <3>1. token.type = "Identifier" /\ frames' = Append(Front(frames), e)
      BY <2>1 DEF ReadName, Await
    <3>2. e \in Frame /\ e.at = Top.at /\ e.mode = Top.mode /\ e.want = "equal"
          /\ e.name = token.text
      <4>1. token.text \in AnyName
        BY <3>1 DEF Token, AnyName, Openers, Closers
      <4>2. QED
        BY <1>4, <4>1 DEF Wanting, Frame
    <3>3. Top.mode # "Unnamed"
      <4>1. CASE Top.want = "item"
        BY <1>1, <1>11, <3>1, <4>1 DEF Expected, Closers, ItemTokens, Openers
      <4>2. CASE Top.want # "item"
        BY <1>1, <1>11, <3>1, <4>2 DEF Expected, ItemTokens, Openers
      <4>3. QED
        BY <4>1, <4>2
    <3>4. NamesNext(E, e)
      BY <1>9, <3>2 DEF NamesNext
    <3>5. Again(frames', frames, e)
      BY <3>1 DEF Again
    <3> HIDE DEF e
    <3>6. QED
      BY <3>2, <3>3, <3>4, <3>5
  <2>2. CASE ReadEqual(token)
    <3> DEFINE e == Wanting(Top, "value", Top.name)
    <3>1. token.type = "Equal" /\ frames' = Append(Front(frames), e)
      BY <2>2 DEF ReadEqual, Await
    <3>2. e \in Frame /\ e.at = Top.at /\ e.mode = Top.mode /\ e.want = "value"
          /\ e.name = Top.name
      BY <1>4 DEF Wanting, Frame
    <3>3. Top.want = "equal"
      <4>1. token.type \notin ItemTokens
            /\ token.type \notin {"Identifier", "Comment", "EndOfFile"} \cup Closers
        BY <3>1 DEF ItemTokens, Openers, Closers
      <4>2. token.type \notin ItemTokens \cup {"EndOfFile"} \cup Closers
        BY <4>1
      <4>3. QED
        BY <1>1, <1>11, <4>1, <4>2 DEF Expected
    <3>4. Top.mode # "Unnamed"
      BY <1>10, <3>3 DEF Fills
    <3>5. NamesNext(E, e)
      <4>1. Follows(D, n + 1, {"Identifier"})
        BY <1>4, <3>3 DEF Awaits
      <4>2. n \in 1..n /\ n + 1 - 1 = n
        BY <1>9, <4>1 DEF Follows
      <4>3. Top.name = D[n].text
        BY <1>7, <3>3 DEF NamesNext
      <4>4. e.name = E[n + 1 - 1].text
        BY <1>9, <3>2, <4>2, <4>3
      <4>5. QED
        BY <1>9, <3>2, <4>4 DEF NamesNext
    <3>6. Again(frames', frames, e)
      BY <3>1 DEF Again
    <3> HIDE DEF e
    <3>7. QED
      BY <3>2, <3>4, <3>5, <3>6
  <2>3. QED
    BY <2>1, <2>2
<1> HIDE DEF D, E, n, m
<1>13. Spine(E, pos, m)
  <2>1. /\ m \in Nat \ {0}
        /\ token.type \in Openers => m = m + 1
        /\ token.type \in Closers => m = m - 1
        /\ token.type \notin Openers \cup Closers => m = m
    BY <1>5, <1>6
  <2>2. \A i \in 1..m : pos[i] = pos[i]
    OBVIOUS
  <2>3. QED
    BY <1>4, <1>6, <1>7, <2>1, <2>2, SpineMore
<1>14. \A i \in 1..m : pos[i] \in 0..Len(D)
  BY <1>7 DEF Spine
<1>15. \A i \in 1..m : ItemsIn(E, pos[i]) = ItemsIn(D, pos[i])
  <2>1. \A j \in 0..n : ItemsIn(E, j) = ItemsIn(D, j)
    BY <1>4, <1>6, ItemsMore
  <2>2. QED
    BY <1>4, <1>14, <2>1
<1>16. \A i \in 1..m : /\ Fills(heap, D, start, frames[i], pos[i], policy)
                       /\ i # 1 => frames[i - 1].name = Label(D, pos[i])
  BY <1>3 DEF Underway, m
<1>17. Underway(heap, E, start, frames', pos, policy)
  <2>1. m = Len(frames)
    BY DEF m
  <2>2. QED
    BY <1>4, <1>5, <1>12, <1>13, <1>14, <1>15, <1>16, <2>1, WantsElse
<1>18. Underway(heap', read', start, frames', pos, policy)
  BY <1>1, <1>17 DEF E
<1>19. Acyclic(heap')
  BY <1>1, <1>4 DEF Sound
<1>20. QED
  BY <1>1, <1>2, <1>18, <1>19, GoesOnDelivers

LEMMA FillsSame ==
    ASSUME NEW h, NEW D, NEW start, NEW f, NEW j, NEW p, Fills(h, D, start, f, j, p),
           NEW g, g[f.at] = h[f.at], TreesIn(g, f.at) = TreesIn(h, f.at)
    PROVE  Fills(g, D, start, f, j, p)
<1>1. Holds(h, f.at, Promised(D, start, j, p), IF j = 0 THEN Len(start) ELSE 0, p)
  BY DEF Fills
<1> DEFINE first == IF j = 0 THEN Len(start) ELSE 0
<1> HIDE DEF first
<1>2. Holds(g, f.at, Promised(D, start, j, p), first, p)
  BY <1>1, HoldsSame DEF first
<1>3. QED
  BY <1>2 DEF Fills, first

\* The item that a token completes has been delivered, or refused.
LEMMA ItemDelivers ==
    ASSUME NEW token \in Token, NEW start, Reading(token, start), \E S : start \in Seq(S),
           \E pos : Underway(heap, read, start, frames, pos, policy),
           NEW h, TreesIn(h, Root) = TreesIn(heap, Root),
           Acyclic(heap'), Good(heap'), Stacked(heap', frames'), NEW pos,
           \/ /\ phase' = "idle" /\ ret' \in AddErrors
              /\ TreesIn(heap', Root) = TreesIn(h, Root)
              /\ Refuses(read', start, action, ret')
           \/ /\ UNCHANGED <<phase, ret>>
              /\ Underway(heap', read', start, frames', pos, action)
    PROVE  Delivers(start)
<1>1. action = policy
  BY DEF Reading
<1>2. CASE /\ phase' = "idle" /\ ret' \in AddErrors
           /\ TreesIn(heap', Root) = TreesIn(h, Root)
           /\ Refuses(read', start, action, ret')
  BY <1>1, <1>2, EndDelivers
<1>3. CASE /\ UNCHANGED <<phase, ret>>
           /\ Underway(heap', read', start, frames', pos, action)
  BY <1>1, <1>3, GoesOnDelivers
<1>4. QED
  BY <1>2, <1>3

LEMMA ReadItemDelivers ==
    ASSUME ReadSound, Grammatical, Delivering, NEW token \in Token, NEW x \in Ids,
           ReadItem(token, x), Good(heap'), Stacked(heap', frames'),
           NEW start, start = TreesIn(origin, Root)
    PROVE  Delivers(start)
<1> DEFINE D == read
           E == read'
           n == Len(D)
           m == Len(frames)
           kind == token.type
           name == Top.name
           val  == token.text
           g    == [heap EXCEPT ![x] = NewItem(kind, name, val)]
<1>1. /\ Consume(token) /\ kind \in {"Value", "Comment"} /\ kind \in Expected
      /\ heap[x] = Null /\ Deliver(g, x, frames)
  BY DEF ReadItem, AddItem, Free
<1>2. /\ Reading(token, start) /\ \E S : start \in Seq(S)
      /\ \E pos : Underway(heap, D, start, frames, pos, policy)
  BY <1>1, TokenRead
<1>3. PICK pos : Underway(heap, D, start, frames, pos, policy)
  BY <1>2
<1>4. /\ D \in Seq(Token) /\ Appends(E, D, token) /\ Viable(D) /\ n = Len(D)
      /\ Sound(heap) /\ Good(heap) /\ action = policy /\ action \in Policies
      /\ Top \in Frame /\ Top = Last(frames) /\ Awaits(D, Top)
      /\ Stacked(heap, frames) /\ frames # <<>> /\ frames \in Seq(Frame)
  BY <1>2 DEF Reading, Top, Stacked
<1>5. m \in Nat /\ m \in 1..m /\ Top = frames[m] /\ m = Len(frames)
  BY <1>4, Innermost
<1>6. /\ kind \notin Openers /\ kind \notin Closers /\ kind \in ItemTokens \ Openers
  BY <1>1 DEF Openers, Closers, ItemTokens
<1>7. Spine(D, pos, m) /\ NamesNext(D, Top)
  BY <1>3, <1>4 DEF Underway
<1>8. IsLonger(D, token, E, n)
  BY <1>4, Longer
<1>9. /\ n \in Nat /\ E \in Seq(Token) /\ E[n + 1] = token /\ Len(E) = n + 1
      /\ \A k \in 1..n : E[k] = D[k]
      /\ Around(E, n + 1) = Around(D, n + 1)
  BY <1>8 DEF IsLonger
<1>10. \A i \in 1..m : /\ Fills(heap, D, start, frames[i], pos[i], action)
                       /\ i # 1 => frames[i - 1].name = Label(D, pos[i])
  BY <1>3, <1>4 DEF Underway
<1>11. Top.want # "equal"
  <2>1. kind # "Equal"
    BY <1>1
  <2>2. QED
    BY <1>1, <2>1 DEF Expected
<1>12. kind \in Kinds /\ name \in AnyName /\ val \in Vals \cup {NoVal}
  BY <1>1, <1>4 DEF Token, Frame, Kinds, Openers, Closers
<1>13. Puts(heap, x, NewItem(kind, name, val), g)
  BY DEF Puts
<1>14. kind = token.type /\ name = Top.name /\ val = token.text
  OBVIOUS
<1> HIDE DEF D, E, n, m, g, kind, name, val
<1>15. /\ Good(g) /\ Stacked(g, frames) /\ g[x] # Null
       /\ \A k \in 1..Len(frames) : frames[k].at # x
  BY <1>1, <1>4, <1>12, <1>13, FreshKeeps
<1>16. /\ Sound(g) /\ Holding(g, x) = {}
       /\ g[x].kind = kind /\ g[x].name = name /\ g[x].val = val
       /\ g[x].policy = "ThrowException" /\ TreesIn(g, x) = <<>>
       /\ \A y \in Addresses : heap[y] # Null =>
             y # x /\ g[y] = heap[y] /\ TreesIn(g, y) = TreesIn(heap, y)
  BY <1>1, <1>4, <1>12, <1>13, FreshTrees
<1>17. \A i \in 1..m : frames[i].at \in Addresses /\ heap[frames[i].at] # Null
  BY <1>4, <1>5, LocalsHeld DEF Stacked
<1>18. \A i \in 1..m : /\ Fills(g, D, start, frames[i], pos[i], action)
                       /\ i # 1 => frames[i - 1].name = Label(D, pos[i])
  <2>1. SUFFICES ASSUME NEW i \in 1..m
                 PROVE  Fills(g, D, start, frames[i], pos[i], action)
    BY <1>10
  <2>2. Fills(heap, D, start, frames[i], pos[i], action)
    BY <1>10
  <2>3. g[frames[i].at] = heap[frames[i].at]
        /\ TreesIn(g, frames[i].at) = TreesIn(heap, frames[i].at)
    BY <1>16, <1>17
  <2>4. QED
    BY <2>2, <2>3, FillsSame
<1>19. Spine(E, pos, m)
  <2>1. /\ m \in Nat \ {0}
        /\ token.type \in Openers => m = m + 1
        /\ token.type \in Closers => m = m - 1
        /\ token.type \notin Openers \cup Closers => m = m
    BY <1>5, <1>6, <1>14
  <2>2. \A i \in 1..m : pos[i] = pos[i]
    OBVIOUS
  <2>3. QED
    BY <1>4, <1>6, <1>7, <1>14, <2>1, <2>2, SpineMore
<1>20. /\ \A i \in 1..m : pos[i] \in 0..n
       /\ \A i \in 1..m : i # m => pos[i] # pos[m]
       /\ Around(D, n + 1) = pos[m]
  <2>1. /\ \A i \in 1..m : pos[i] \in 0..n
        /\ \A i, k \in 1..m : i < k => pos[i] < pos[k]
        /\ Around(D, n + 1) = pos[m]
    BY <1>4, <1>7, SpineOrder
  <2>2. \A i \in 1..m : i # m => i < m
    BY <1>5
  <2>3. QED
    BY <1>5, <1>9, <2>1, <2>2
<1>21. \A j \in 0..n : IF j = Around(D, n + 1) /\ token.type \in ItemTokens \ Openers
                       THEN Appends(ItemsIn(E, j), ItemsIn(D, j), n + 1)
                       ELSE ItemsIn(E, j) = ItemsIn(D, j)
  BY <1>4, <1>6, <1>14, ItemsMore
<1>22. /\ Appends(ItemsIn(E, pos[m]), ItemsIn(D, pos[m]), n + 1)
       /\ \A i \in 1..m : i # m => ItemsIn(E, pos[i]) = ItemsIn(D, pos[i])
  BY <1>5, <1>6, <1>14, <1>20, <1>21
<1>23. /\ n + 1 \in 1..Len(E) /\ n + 1 = Completed(E) /\ pos[m] = Around(E, n + 1)
  <2>1. Last(E) = token
    BY <1>9 DEF Last
  <2>2. Completed(E) = Len(E)
    BY <1>6, <1>14, <2>1 DEF Completed
  <2>3. QED
    BY <1>9, <1>20, <2>2
<1>24. Offering(g, x, action) = Meaning(E, n + 1, action)
  <2>1. Label(E, n + 1) = name
    BY <1>4, <1>7, <1>11, <1>14, NextLabel
  <2>2. Meaning(E, n + 1, action) = Node(kind, name, val, "ThrowException", <<>>)
    BY <1>6, <1>9, <1>14, <1>23, <2>1, MeaningOf
  <2>3. g[x].kind \notin ContainerKinds
    BY <1>1, <1>16 DEF ContainerKinds
  <2>4. QED
    BY <1>16, <2>2, <2>3 DEF Offering
<1>25. Last(frames).mode = "Unnamed" => g[x].name = NoName
  BY <1>4, <1>5, <1>10, <1>14, <1>16 DEF Fills
<1>26. /\ Acyclic(heap')
       /\ \/ /\ phase' = "idle" /\ ret' \in AddErrors
             /\ TreesIn(heap', Root) = TreesIn(g, Root)
             /\ Refuses(E, start, action, ret')
          \/ /\ UNCHANGED <<phase, ret>>
             /\ Underway(heap', E, start, frames', pos, action)
  <2> DEFINE k == n + 1
  <2>1. /\ k \in 1..Len(E) /\ k = Completed(E) /\ pos[m] = Around(E, k)
        /\ Appends(ItemsIn(E, pos[m]), ItemsIn(D, pos[m]), k)
        /\ Offering(g, x, action) = Meaning(E, k, action)
    BY <1>22, <1>23, <1>24
  <2> HIDE DEF k
  <2>2. Completes(D, token, E, start, action, g, x, frames, pos, k)
    BY <1>2, <1>4, <1>5, <1>15, <1>16, <1>18, <1>19, <1>20, <1>22, <1>25, <2>1 DEF Completes
  <2>3. QED
    BY <1>1, <1>4, <2>1, <2>2, DeliverStep
<1>27. TreesIn(g, Root) = TreesIn(heap, Root)
  <2>1. Root \in Addresses /\ heap[Root] # Null
    BY <1>4, ReadAssumption DEF Good, WellTyped, Addresses
  <2>2. QED
    BY <1>16, <2>1
<1>28. QED
  BY <1>2, <1>26, <1>27, ItemDelivers DEF D, E

\* } or ] inside of a container.
LEMMA CloseDelivers ==
    ASSUME ReadSound, Grammatical, Delivering, NEW token \in Token, token.type \in Closers,
           Consume(token), level > 0, Good(heap'), Stacked(heap', frames'),
           Deliver([heap EXCEPT ![Top.at].name = Last(Front(frames)).name],
                   Top.at, Front(frames)),
           NEW start, start = TreesIn(origin, Root)
    PROVE  Delivers(start)
<1> DEFINE D == read
           E == read'
           n == Len(D)
           m == Len(frames)
           fs == Front(frames)
           x == Top.at
           name == Last(fs).name
           g == [heap EXCEPT ![x].name = name]
<1>1. Deliver(g, x, fs)
  OBVIOUS
<1>2. /\ Reading(token, start) /\ \E S : start \in Seq(S)
      /\ \E pos : Underway(heap, D, start, frames, pos, policy)
  BY TokenRead
<1>3. PICK pos : Underway(heap, D, start, frames, pos, policy)
  BY <1>2
<1>4. /\ D \in Seq(Token) /\ Appends(E, D, token) /\ Viable(D) /\ n = Len(D)
      /\ Sound(heap) /\ Good(heap) /\ action = policy /\ action \in Policies
      /\ Top \in Frame /\ Top = Last(frames)
      /\ Stacked(heap, frames) /\ frames # <<>> /\ frames \in Seq(Frame)
      /\ level = Len(frames) - 1
  BY <1>2 DEF Reading, Top, Stacked
<1>5. /\ m \in Nat /\ m \in 1..m /\ Top = frames[m] /\ m = Len(frames)
      /\ fs \in Seq(Frame) /\ Len(fs) = m - 1
      /\ \A i \in 1..(m - 1) : fs[i] = frames[i]
  BY <1>4, Innermost
<1>6. /\ m - 1 \in Nat \ {0} /\ m - 1 \in 1..m /\ m - 1 \in 1..(m - 1) /\ m # 1 /\ m - 1 # m
      /\ \A i \in 1..(m - 1) : i \in 1..m /\ i < m
  BY <1>4, <1>5
<1>7. fs # <<>> /\ Stacked(heap, fs) /\ Last(fs) = fs[m - 1] /\ Last(fs) \in Frame
  <2>1. fs # <<>>
    BY <1>5, <1>6, EmptySeq
  <2>2. Stacked(heap, fs)
    BY <1>4, StackedFront
  <2>3. QED
    BY <1>5, <2>1, <2>2, Innermost
<1>8. IsLonger(D, token, E, n)
  BY <1>4, Longer
<1>9. /\ n \in Nat /\ E \in Seq(Token) /\ E[n + 1] = token /\ Len(E) = n + 1
      /\ \A k \in 1..n : E[k] = D[k]
      /\ \A k \in 1..(n + 1) : Around(E, k) = Around(D, k)
  BY <1>8 DEF IsLonger
<1>10. /\ Spine(D, pos, m)
       /\ \A i \in 1..m : /\ Fills(heap, D, start, frames[i], pos[i], action)
                          /\ i # 1 => frames[i - 1].name = Label(D, pos[i])
  BY <1>3, <1>4 DEF Underway
<1>11. x \in Ids /\ heap[x] # Null /\ Holding(heap, x) = {}
  BY <1>4, <1>5, <1>6 DEF Stacked
<1>12. \A i \in 1..(m - 1) : fs[i].at # x
  BY <1>4, <1>5, <1>6 DEF Stacked
<1>13. name \in AnyName
  BY <1>7 DEF Frame
<1>14. PutsName(heap, x, name, g)
  BY DEF PutsName
<1>15. x = Top.at /\ name = Last(fs).name
  OBVIOUS
<1> HIDE DEF D, E, n, m, fs, x, name, g
<1>16. Good(g) /\ Stacked(g, fs)
  BY <1>4, <1>7, <1>11, <1>13, <1>14, NameKeeps
<1>17. /\ Sound(g) /\ g[x] # Null /\ Holding(g, x) = {}
       /\ g[x].kind = heap[x].kind /\ g[x].name = name /\ g[x].val = heap[x].val
       /\ \A y \in Addresses : heap[y] # Null => TreesIn(g, y) = TreesIn(heap, y)
       /\ \A y \in Addresses : y # x => g[y] = heap[y]
  BY <1>4, <1>11, <1>13, <1>14, NamedTrees
<1>18. \A i \in 1..(m - 1) : /\ Fills(g, D, start, fs[i], pos[i], action)
                             /\ i # 1 => fs[i - 1].name = Label(D, pos[i])
  <2>1. SUFFICES ASSUME NEW i \in 1..(m - 1)
                 PROVE  /\ Fills(g, D, start, fs[i], pos[i], action)
                        /\ i # 1 => fs[i - 1].name = Label(D, pos[i])
    OBVIOUS
  <2>2. i \in 1..m /\ fs[i] = frames[i]
    BY <1>5, <1>6
  <2>3. Fills(heap, D, start, fs[i], pos[i], action)
    BY <1>10, <2>2
  <2>4. fs[i].at \in Addresses /\ heap[fs[i].at] # Null
    <3>1. \A k \in 1..m : frames[k].at \in Addresses /\ heap[frames[k].at] # Null
      BY <1>4, <1>5, LocalsHeld DEF Stacked
    <3>2. QED
      BY <2>2, <3>1
  <2>5. g[fs[i].at] = heap[fs[i].at] /\ TreesIn(g, fs[i].at) = TreesIn(heap, fs[i].at)
    BY <1>12, <1>17, <2>4
  <2>6. Fills(g, D, start, fs[i], pos[i], action)
    BY <2>3, <2>5, FillsSame
  <2>7. i # 1 => i - 1 \in 1..(m - 1)
    BY <1>5
  <2>8. i # 1 => fs[i - 1].name = Label(D, pos[i])
    BY <1>5, <1>10, <2>2, <2>7
  <2>9. QED
    BY <2>6, <2>8
<1>19. Spine(E, pos, m - 1)
  <2> DEFINE k == m - 1
  <2>1. /\ k \in Nat \ {0}
        /\ token.type \in Openers => k = m + 1
        /\ token.type \in Closers => k = m - 1
        /\ token.type \notin Openers \cup Closers => k = m
    BY <1>5, <1>6, TypesDiffer
  <2>2. /\ \A i \in 1..m : pos[i] = pos[i]
        /\ token.type \in Openers => pos[m + 1] = n + 1
    BY TypesDiffer
  <2> HIDE DEF k
  <2>3. Spine(E, pos, k)
    BY <1>4, <1>10, <2>1, <2>2, SpineMore
  <2>4. QED
    BY <2>3 DEF k
<1>20. /\ \A i \in 1..m : pos[i] \in 0..n
       /\ \A i, k \in 1..m : i < k => pos[i] < pos[k]
       /\ Around(D, n + 1) = pos[m]
       /\ \A i \in 1..m : i # 1 => Around(D, pos[i]) = pos[i - 1]
  BY <1>4, <1>10, SpineOrder
<1>21. /\ pos[m] \in 1..n /\ pos[m] \in 1..(n + 1) /\ pos[m] # 0
       /\ pos[m - 1] \in 0..n /\ pos[m - 1] # pos[m]
       /\ \A i \in 1..(m - 1) : i # m - 1 => pos[i] # pos[m - 1]
  <2>1. pos[m] # 0
    BY <1>6, <1>5, <1>10 DEF Spine
  <2>2. pos[m] \in 0..n /\ pos[m - 1] \in 0..n /\ pos[m - 1] < pos[m]
    BY <1>5, <1>6, <1>20
  <2>3. ASSUME NEW i \in 1..(m - 1), i # m - 1
        PROVE  pos[i] # pos[m - 1]
    <3>1. i < m - 1 /\ i \in 1..m
      BY <1>5, <2>3
    <3>2. pos[i] < pos[m - 1] /\ pos[i] \in 0..n
      BY <1>6, <1>20, <3>1
    <3>3. QED
      BY <1>9, <2>2, <3>2
  <2>4. QED
    BY <1>9, <2>1, <2>2, <2>3
<1>22. \A j \in 0..n : IF j = pos[m - 1] THEN Appends(ItemsIn(E, j), ItemsIn(D, j), pos[m])
                                         ELSE ItemsIn(E, j) = ItemsIn(D, j)
  BY <1>4, <1>6, <1>10, ItemsClosed
<1>23. /\ Appends(ItemsIn(E, pos[m - 1]), ItemsIn(D, pos[m - 1]), pos[m])
       /\ \A i \in 1..(m - 1) : i # m - 1 => ItemsIn(E, pos[i]) = ItemsIn(D, pos[i])
       /\ ItemsIn(E, pos[m]) = ItemsIn(D, pos[m])
  <2>1. \A i \in 1..(m - 1) : pos[i] \in 0..n
    BY <1>6, <1>20
  <2>2. pos[m] \in 0..n
    BY <1>5, <1>20
  <2>3. QED
    BY <1>21, <1>22, <2>1, <2>2
<1>24. /\ pos[m] \in 1..Len(E) /\ pos[m] = Completed(E) /\ pos[m - 1] = Around(E, pos[m])
  <2>1. Last(E) = token
    BY <1>9 DEF Last
  <2>2. Completed(E) = Around(E, n + 1)
    BY <1>9, <2>1 DEF Completed
  <2>3. n + 1 \in 1..(n + 1)
    BY <1>9
  <2>4. Completed(E) = pos[m]
    BY <1>9, <1>20, <2>2, <2>3
  <2>5. Around(E, pos[m]) = pos[m - 1]
    BY <1>5, <1>6, <1>9, <1>20, <1>21
  <2>6. QED
    BY <1>9, <1>21, <2>4, <2>5
<1>25. Offering(g, x, action) = Meaning(E, pos[m], action)
  <2> DEFINE j == pos[m]
             W == Within(E, j, action)
  <2>1. Fills(heap, D, start, Top, j, action)
    BY <1>5, <1>10
  <2>2. /\ E[j] = D[j] /\ D[j].type \in Openers
    BY <1>5, <1>6, <1>9, <1>10, <1>21 DEF Spine
  <2>3. Label(E, j) = name
    <3>1. Label(E, j) = Label(D, j)
      BY <1>4, <1>21, LabelSame
    <3>2. frames[m - 1].name = Label(D, j)
      BY <1>5, <1>6, <1>10
    <3>3. QED
      BY <1>5, <1>6, <1>7, <1>15, <3>1, <3>2
  <2>4. g[x].val = NoVal
    BY <1>15, <1>17, <1>21, <2>1 DEF Fills
  <2> DEFINE kind == IF E[j].type = "LBrace" THEN "Group" ELSE "List"
  <2>5. g[x].kind = kind /\ heap[x].kind = kind
    <3>1. heap[x].kind = IF Top.mode = "Named" THEN "Group" ELSE "List"
      BY <1>4, <1>5, <1>15 DEF Stacked
    <3>2. Top.mode \in {"Named", "Unnamed"}
      BY <1>4 DEF Frame
    <3>3. Top.mode = "Unnamed" <=> E[j].type = "LBracket"
      BY <1>21, <2>1, <2>2 DEF Fills
    <3>4. E[j].type \in {"LBrace", "LBracket"}
      BY <2>2 DEF Openers
    <3>5. QED
      BY <1>17, <3>1, <3>2, <3>3, <3>4
  <2>6. TreesIn(g, x) = Kept(kind, W, 0, action)
    <3>1. Holds(heap, x, Promised(D, start, j, action), 0, action)
      BY <1>15, <1>21, <2>1 DEF Fills
    <3>2. Promised(D, start, j, action) = W
      <4>1. Promised(E, start, j, action) = Promised(D, start, j, action)
        BY <1>4, <1>23, PromisedSame
      <4>2. Promised(E, start, j, action) = W
        BY <1>9, <1>21, PromisedInside
      <4>3. QED
        BY <4>1, <4>2
    <3>3. x \in Addresses
      BY <1>11 DEF Addresses
    <3> HIDE DEF W, kind
    <3>4. TreesIn(heap, x) = Kept(kind, W, 0, action)
      BY <2>5, <3>1, <3>2 DEF Holds
    <3>5. QED
      BY <1>11, <1>17, <3>3, <3>4
  <2>7. Meaning(E, j, action) = Node(kind, Label(E, j), NoVal, action, Kept(kind, W, 0, action))
    BY <1>9, <1>21, <2>2, MeaningOf
  <2>8. kind \in ContainerKinds
    BY DEF ContainerKinds
  <2> HIDE DEF W, kind, j
  <2>9. Offering(g, x, action) = Node(kind, name, NoVal, action, Kept(kind, W, 0, action))
    BY <1>17, <2>4, <2>5, <2>6, <2>8 DEF Offering
  <2>10. QED
    BY <2>3, <2>7, <2>9 DEF j
<1>26. Last(fs).mode = "Unnamed" => g[x].name = NoName
  BY <1>6, <1>7, <1>15, <1>17, <1>18 DEF Fills
<1>27. /\ Acyclic(heap')
       /\ \/ /\ phase' = "idle" /\ ret' \in AddErrors
             /\ TreesIn(heap', Root) = TreesIn(g, Root)
             /\ Refuses(E, start, action, ret')
          \/ /\ UNCHANGED <<phase, ret>>
             /\ Underway(heap', E, start, frames', pos, action)
  <2> DEFINE k == pos[m]
             j == m - 1
  <2>1. /\ k \in 1..Len(E) /\ k = Completed(E) /\ pos[j] = Around(E, k)
        /\ Appends(ItemsIn(E, pos[j]), ItemsIn(D, pos[j]), k)
        /\ Offering(g, x, action) = Meaning(E, k, action)
    BY <1>23, <1>24, <1>25
  <2>2. /\ j = Len(fs) /\ Spine(E, pos, j)
        /\ \A i \in 1..j : fs[i].at # x
        /\ \A i \in 1..j : /\ Fills(g, D, start, fs[i], pos[i], action)
                           /\ i # 1 => fs[i - 1].name = Label(D, pos[i])
        /\ \A i \in 1..j : i # j => ItemsIn(E, pos[i]) = ItemsIn(D, pos[i])
        /\ \A i \in 1..j : pos[i] \in 0..Len(D)
    BY <1>4, <1>5, <1>6, <1>12, <1>18, <1>19, <1>20, <1>23
  <2> HIDE DEF k, j
  <2>3. Completes(D, token, E, start, action, g, x, fs, pos, k)
    BY <1>2, <1>4, <1>7, <1>16, <1>17, <1>26, <2>1, <2>2 DEF Completes
  <2>4. Deliver(g, x, fs)
    BY <1>1 DEF g, x, fs, name
  <2>5. QED
    BY <1>4, <1>11, <2>1, <2>3, <2>4, DeliverStep
<1>28. TreesIn(g, Root) = TreesIn(heap, Root)
  <2>1. Root \in Addresses /\ heap[Root] # Null
    BY <1>4, ReadAssumption DEF Good, WellTyped, Addresses
  <2>2. QED
    BY <1>17, <2>1
<1>29. QED
  BY <1>2, <1>27, <1>28, ItemDelivers DEF D, E

\* { or [.
LEMMA OpenDelivers ==
    ASSUME ReadSound, Grammatical, Delivering, NEW token \in Token, NEW x \in Ids,
           OpenContainer(token, x), Good(heap'), Stacked(heap', frames'),
           NEW start, start = TreesIn(origin, Root)
    PROVE  Delivers(start)
<1>1. PICK list \in {token.type = "LBracket"} :
         /\ heap' = [heap EXCEPT ![x] =
                       NewItem(IF list THEN "List" ELSE "Group", NoName, NoVal)]
         /\ frames' = Append(frames, NewFrame(x, IF list THEN "Unnamed" ELSE "Named"))
  BY DEF OpenContainer
<1> DEFINE D == read
           E == read'
           n == Len(D)
           m == Len(frames)
           kind == IF list THEN "List" ELSE "Group"
           mode == IF list THEN "Unnamed" ELSE "Named"
           f == NewFrame(x, mode)
           g == heap'
           gs == frames'
<1>2. /\ Consume(token) /\ token.type \in Openers /\ token.type \in Expected
      /\ heap[x] = Null /\ UNCHANGED <<phase, ret>>
  BY DEF OpenContainer, Free
<1>3. /\ Reading(token, start) /\ \E S : start \in Seq(S)
      /\ \E pos : Underway(heap, D, start, frames, pos, policy)
  BY <1>2, TokenRead
<1>4. PICK pos : Underway(heap, D, start, frames, pos, policy)
  BY <1>3
<1>5. /\ D \in Seq(Token) /\ Appends(E, D, token) /\ Viable(D) /\ n = Len(D)
      /\ Sound(heap) /\ Good(heap) /\ policy \in Policies
      /\ Top \in Frame /\ Top = Last(frames) /\ Awaits(D, Top)
      /\ Stacked(heap, frames) /\ frames # <<>> /\ frames \in Seq(Frame)
  BY <1>3 DEF Reading, Top, Stacked
<1>6. m \in Nat /\ m \in 1..m /\ Top = frames[m] /\ m = Len(frames)
  BY <1>5, Innermost
<1>7. /\ token.type \notin Closers /\ token.type \notin ItemTokens \ Openers
      /\ token.type \in {"LBrace", "LBracket"}
  BY <1>2, TypesDiffer DEF Openers
<1>8. IsLonger(D, token, E, n)
  BY <1>5, Longer
<1>9. /\ n \in Nat /\ E \in Seq(Token) /\ E[n + 1] = token /\ Len(E) = n + 1
      /\ \A k \in 1..n : E[k] = D[k]
  BY <1>8 DEF IsLonger
<1>10. /\ Spine(D, pos, m) /\ NamesNext(D, Top)
       /\ \A i \in 1..m : /\ Fills(heap, D, start, frames[i], pos[i], policy)
                          /\ i # 1 => frames[i - 1].name = Label(D, pos[i])
  BY <1>4, <1>5 DEF Underway
<1>11. Top.want # "equal"
  <2>1. token.type # "Equal"
    BY <1>7
  <2>2. QED
    BY <1>2, <2>1 DEF Expected
<1>12. /\ kind \in Kinds /\ NoName \in AnyName /\ NoVal \in Vals \cup {NoVal}
       /\ mode \in {"Named", "Unnamed"} /\ (mode = "Unnamed" <=> token.type = "LBracket")
  BY DEF Kinds, ContainerKinds, AnyName
<1>13. Puts(heap, x, NewItem(kind, NoName, NoVal), g)
  BY <1>1 DEF Puts
<1>14. /\ f \in Frame /\ f.at = x /\ f.mode = mode /\ f.want = "item" /\ f.name = NoName
  BY <1>12 DEF NewFrame, Frame, Addresses, AnyName
<1>15. gs = Append(frames, f)
  BY <1>1
<1> HIDE DEF D, E, n, m, kind, mode, f, g, gs
<1>16. /\ Sound(g) /\ g[x].name = NoName /\ g[x].val = NoVal /\ TreesIn(g, x) = <<>>
       /\ \A y \in Addresses : heap[y] # Null =>
             y # x /\ g[y] = heap[y] /\ TreesIn(g, y) = TreesIn(heap, y)
  BY <1>2, <1>5, <1>12, <1>13, FreshTrees
<1>17. \A i \in 1..m : frames[i].at \in Addresses /\ heap[frames[i].at] # Null
  BY <1>5, <1>6, LocalsHeld DEF Stacked
<1>18. /\ Len(gs) = m + 1 /\ gs[m + 1] = f /\ \A i \in 1..m : gs[i] = frames[i]
       /\ Last(gs) = f
  <2>1. /\ Len(gs) = m + 1 /\ gs[m + 1] = f /\ \A i \in 1..m : gs[i] = frames[i]
    BY <1>5, <1>6, <1>14, <1>15, AppendKeeps
  <2>2. QED
    BY <2>1 DEF Last
<1> DEFINE u == [i \in 1..(m + 1) |-> IF i = m + 1 THEN n + 1 ELSE pos[i]]
<1>19. /\ m + 1 \in Nat \ {0} /\ u[m + 1] = n + 1 /\ \A i \in 1..m : u[i] = pos[i]
       /\ \A i \in 1..(m + 1) : i = m + 1 \/ i \in 1..m
       /\ m + 1 - 1 = m /\ m + 1 # 1
  BY <1>6
<1> HIDE DEF u
<1>20. Spine(E, u, m + 1)
  <2> DEFINE k == m + 1
  <2>1. /\ k \in Nat \ {0}
        /\ token.type \in Openers => k = m + 1
        /\ token.type \in Closers => k = m - 1
        /\ token.type \notin Openers \cup Closers => k = m
        /\ \A i \in 1..m : u[i] = pos[i]
        /\ token.type \in Openers => u[m + 1] = n + 1
    BY <1>2, <1>7, <1>19
  <2>2. Spine(D, pos, m) /\ n = Len(D) /\ D \in Seq(Token) /\ Appends(E, D, token)
    BY <1>5, <1>10
  <2> HIDE DEF k
  <2>3. Spine(E, u, k)
    BY ONLY token \in Token, <2>1, <2>2, SpineMore
  <2>4. QED
    BY <2>3 DEF k
<1>21. /\ \A j \in 0..n : ItemsIn(E, j) = ItemsIn(D, j)
       /\ ItemsIn(E, n + 1) = <<>>
  BY <1>5, <1>7, ItemsMore
<1>22. \A i \in 1..m : pos[i] \in 0..n
  BY <1>5, <1>10 DEF Spine
<1>23. ASSUME NEW i \in 1..m
       PROVE  Fills(g, E, start, gs[i], u[i], policy)
  <2> DEFINE c == frames[i]
             q == pos[i]
  <2>1. Fills(heap, D, start, c, q, policy) /\ q \in 0..Len(D) /\ ItemsIn(E, q) = ItemsIn(D, q)
    BY <1>5, <1>10, <1>21, <1>22
  <2>2. c.mode = "Unnamed" => c.want = "item" /\ c.name = NoName
    BY <2>1 DEF Fills
  <2>3. g[c.at] = heap[c.at] /\ TreesIn(g, c.at) = TreesIn(heap, c.at)
    BY <1>16, <1>17
  <2>4. gs[i] = c /\ u[i] = q
    BY <1>18, <1>19
  <2> HIDE DEF c, q
  <2>5. Fills(g, E, start, c, q, policy)
    BY <1>5, <2>1, <2>2, <2>3, FillsLater
  <2>6. QED
    BY <2>4, <2>5
<1>24. Fills(g, E, start, f, n + 1, policy)
  <2> DEFINE j == n + 1
  <2>1. j # 0 /\ E[j] = token
    BY <1>9
  <2>2. ItemsIn(E, j) = <<>>
    BY <1>21
  <2> HIDE DEF j
  <2>3. Promised(E, start, j, policy) = <<>>
    BY <1>9, <2>1, <2>2, PromisedInside
  <2>4. Holds(g, x, <<>>, 0, policy)
    BY <1>5, <1>16, NothingHolds
  <2>5. Fills(g, E, start, f, j, policy)
    BY <1>12, <1>14, <1>16, <2>1, <2>3, <2>4 DEF Fills
  <2>6. QED
    BY <2>5 DEF j
<1>25. ASSUME NEW i \in 1..m, i # 1
       PROVE  gs[i - 1].name = Label(E, u[i])
  <2>1. i - 1 \in 1..m
    BY <1>6, <1>25
  <2>2. gs[i - 1] = frames[i - 1] /\ u[i] = pos[i]
    BY <1>18, <1>19, <2>1
  <2>3. pos[i] # 0 /\ pos[i] \in 1..n
    <3>1. pos[i] # 0
      BY <1>10, <1>25 DEF Spine
    <3>2. QED
      BY <1>9, <1>22, <3>1
  <2>4. Label(E, pos[i]) = Label(D, pos[i])
    BY <1>5, <2>3, LabelSame
  <2>5. QED
    BY <1>10, <1>25, <2>2, <2>4
<1>26. gs[m + 1 - 1].name = Label(E, u[m + 1])
  <2>1. Label(E, n + 1) = Top.name
    BY <1>5, <1>10, <1>11, NextLabel
  <2>2. QED
    BY <1>6, <1>18, <1>19, <2>1
<1>27. Underway(g, E, start, gs, u, policy)
  <2>1. NamesNext(E, Last(gs))
    BY <1>14, <1>18 DEF NamesNext
  <2>2. Fills(g, E, start, gs[m + 1], u[m + 1], policy)
    BY <1>18, <1>19, <1>24
  <2>3. \A i \in 1..(m + 1) : /\ Fills(g, E, start, gs[i], u[i], policy)
                              /\ i # 1 => gs[i - 1].name = Label(E, u[i])
    <3>1. SUFFICES ASSUME NEW i \in 1..(m + 1)
                   PROVE  /\ Fills(g, E, start, gs[i], u[i], policy)
                          /\ i # 1 => gs[i - 1].name = Label(E, u[i])
      OBVIOUS
    <3>2. CASE i = m + 1
      BY <1>6, <1>26, <2>2, <3>2
    <3>3. CASE i \in 1..m
      BY <1>6, <1>23, <1>25, <3>3
    <3>4. QED
      BY <1>19, <3>2, <3>3
  <2> DEFINE k == m + 1
  <2>4. k \in Nat /\ k = Len(gs) /\ Spine(E, u, k)
    BY <1>6, <1>18, <1>20
  <2>5. \A i \in 1..k : Fills(g, E, start, gs[i], u[i], policy)
    BY <2>3
  <2>6. \A i \in 1..k : i # 1 => gs[i - 1].name = Label(E, u[i])
    BY <2>3
  <2> HIDE DEF k
  <2>7. QED
    BY ONLY <2>1, <2>4, <2>5, <2>6 DEF Underway
<1>28. Acyclic(g)
  BY <1>16 DEF Sound
<1>29. Underway(heap', read', start, frames', u, policy) /\ Acyclic(heap')
  BY <1>27, <1>28 DEF g, gs, E
<1>30. QED
  BY <1>2, <1>3, <1>29, GoesOnDelivers

\* The end of the document.
LEMMA EndDocumentDelivers ==
    ASSUME ReadSound, Grammatical, Delivering, NEW token \in Token,
           Consume(token), token.type = "EndOfFile", phase' = "after", UNCHANGED <<heap, ret>>,
           NEW start, start = TreesIn(origin, Root)
    PROVE  Delivers(start)
<1> DEFINE D == read
           E == read'
           n == Len(D)
<1>1. /\ Reading(token, start)
      /\ \E pos : Underway(heap, D, start, frames, pos, policy)
  BY TokenRead
<1>2. /\ D \in Seq(Token) /\ Appends(E, D, token) /\ Viable(D) /\ n = Len(D)
      /\ ret = "none" /\ action = policy
      /\ UNCHANGED <<action, policy, origin>>
  BY <1>1 DEF Reading
<1>3. TreesIn(heap, Root) = Expect(D, start, policy)
  <2>1. PICK pos : Underway(heap, D, start, frames, pos, policy)
    BY <1>1
  <2>2. heap[Root].kind = "Group"
    BY <1>1, ReadAssumption DEF Reading, Good, WellTyped
  <2>3. frames[1].at = Root
    <3>1. 1 \in 1..Len(frames)
      BY <2>1 DEF Underway, Spine
    <3>2. QED
      BY <1>1, <3>1 DEF Reading, Stacked
  <2>4. QED
    BY <2>1, <2>2, <2>3, RootIs
<1> HIDE DEF D, E, n
<1>4. Expect(E, start, policy) = Expect(D, start, policy)
  <2>1. token.type \notin Closers /\ token.type \notin ItemTokens
    BY DEF Closers, ItemTokens, Openers
  <2>2. n \in Nat /\ 0 \in 0..n
    BY <1>2, LenProperties
  <2>3. ItemsIn(E, 0) = ItemsIn(D, 0)
    BY <1>2, <2>1, <2>2, ItemsMore
  <2> DEFINE j == 0
  <2>4. ItemsIn(E, j) = ItemsIn(D, j)
    BY <2>3
  <2> HIDE DEF j
  <2>5. Promised(E, start, j, policy) = Promised(D, start, j, policy)
    BY <1>2, <2>4, PromisedSame
  <2>6. QED
    BY <2>5, ExpectIs DEF j
<1>5. ret' = "none" /\ "none" \notin AddErrors
  BY <1>2 DEF AddErrors
<1>6. Delivering'
  BY <1>2, <1>5 DEF Delivering
<1>7. QED
  BY <1>3, <1>4, <1>5, <1>6 DEF Delivers, D, E

LEMMA TokenDelivers ==
    ASSUME ReadSound, Grammatical, Delivering, ReadToken, ReadSound',
           NEW start, start = TreesIn(origin, Root)
    PROVE  Delivers(start)
<1>1. PICK token \in Token :
         \/ Unexpected(token) \/ ReadName(token) \/ ReadEqual(token)
         \/ \E x \in Ids : ReadItem(token, x) \/ OpenContainer(token, x)
         \/ CloseContainer(token) \/ EndDocument(token)
  BY DEF ReadToken
<1>2. Good(heap') /\ Stacked(heap', frames')
  BY DEF ReadSound
<1>3. CASE Consume(token) /\ Fail
  BY <1>3, FailDelivers
<1>4. CASE ReadName(token) \/ ReadEqual(token)
  BY <1>2, <1>4, AwaitDelivers
<1>5. ASSUME NEW x \in Ids, ReadItem(token, x) \/ OpenContainer(token, x)
      PROVE  Delivers(start)
  BY <1>2, <1>5, ReadItemDelivers, OpenDelivers
<1>6. CASE CloseContainer(token)
  <2>1. CASE level > 0
    BY <1>2, <1>3, <1>6, <2>1, CloseDelivers DEF CloseContainer
  <2>2. CASE ~(level > 0)
    BY <1>3, <1>6, <2>2 DEF CloseContainer
  <2>3. QED
    BY <2>1, <2>2
<1>7. CASE EndDocument(token)
  <2>1. CASE phase' = "after"
    <3>1. /\ Consume(token) /\ token.type = "EndOfFile"
          /\ Fail \/ UNCHANGED <<heap, ret>>
      BY <1>7 DEF EndDocument
    <3>2. QED
      BY <1>3, <2>1, <3>1, EndDocumentDelivers
  <2>2. CASE phase' # "after"
    BY <1>3, <1>7, <2>2 DEF EndDocument
  <2>3. QED
    BY <2>1, <2>2
<1>8. QED
  BY <1>1, <1>3, <1>4, <1>5, <1>6, <1>7 DEF Unexpected

-----------------------------------------------------------------------------
(* The other steps *)

\* The root of a heap between two reads of tokens.
LEMMA RootHolds ==
    ASSUME NEW h, Good(h), Sound(h), NEW p \in Policies, NEW trees, trees = TreesIn(h, Root)
    PROVE  Holds(h, Root, trees, Len(trees), p)
<1>1. /\ Root \in Addresses /\ h[Root] # Null /\ h[Root].kind = "Group"
  BY ReadAssumption DEF Good, WellTyped, Addresses
<1>2. Tidy(h, h[Root].kind, h[Root].kids)
  BY <1>1 DEF Good, Neat
<1>3. QED
  BY <1>1, <1>2, TidyHolds

LEMMA HookEndDelivers ==
    ASSUME Delivering, phase \in {"before", "after"}, NEW h, Sound(h), NEW what,
           HookReturns(h) \/ HookThrows(h, what), UNCHANGED <<policy, action>>
    PROVE  Delivering'
<1>1. heap' = Settled(h, {})
  BY DEF HookReturns, HookThrows
<1>2. Acyclic(heap')
  BY <1>1, SettledRootTrees
<1>3. phase' = "idle" \/ UNCHANGED <<phase, ret>>
  BY DEF HookReturns, HookThrows, Finish
<1>4. QED
  BY <1>2, <1>3 DEF Delivering

LEMMA HookBodyDelivers ==
    ASSUME ReadSound, Delivering, phase \in {"before", "after"}, HookBody,
           UNCHANGED <<policy, action>>
    PROVE  Delivering'
<1>1. /\ Good(heap) /\ Sound(heap) /\ WellTyped(heap)
      /\ Root \in Addresses /\ Root \in DOMAIN heap /\ Acyclic(heap)
      /\ heap[Root] # Null
  BY ReadAssumption DEF ReadSound, Good, WellTyped, Addresses, Sound, Delivering
<1>2. CASE HookReturns(heap) \/ HookThrows(heap, "HookException")
  BY <1>1, <1>2, HookEndDelivers
<1>3. CASE HookReturns([heap EXCEPT ![Root].kids = <<>>])
  <2> DEFINE none == <<>>
             g    == [heap EXCEPT ![Root].kids = none]
  <2>1. PutsKids(heap, Root, none, g) /\ none = <<>> /\ HookReturns(g)
    BY <1>3 DEF PutsKids
  <2>2. \A x \in Ids : g[x] = heap[x]
    <3>1. \A x \in Ids : x # Root
      BY AddressesAssumption, ReadAssumption
    <3>2. QED
      BY <1>1, <3>1 DEF Addresses, WellTyped
  <2> HIDE DEF g, none
  <2>3. Good(g)
    BY <1>1, <2>1, ClearKeeps
  <2>4. Acyclic(g)
    <3>1. \A x \in Ids : Kids(g, x) = Kids(heap, x)
      BY <2>2 DEF Kids
    <3>2. QED
      BY <1>1, <2>2, <3>1, AcyclicLess
  <2>5. Sound(g)
    BY <2>3, <2>4 DEF Good, Sound
  <2>6. QED
    BY <2>1, <2>5, HookEndDelivers
<1>4. ASSUME NEW p \in UsedPolicies, HookReturns([heap EXCEPT ![Root].policy = p])
      PROVE  Delivering'
  <2> DEFINE g == [heap EXCEPT ![Root].policy = p]
  <2>1. PutsPolicy(heap, Root, p, g) /\ p \in Policies /\ HookReturns(g)
    BY <1>4, ReadAssumption DEF PutsPolicy
  <2>2. \A x \in Ids : g[x] = heap[x]
    <3>1. \A x \in Ids : x # Root
      BY AddressesAssumption, ReadAssumption
    <3>2. QED
      BY <1>1, <3>1 DEF Addresses, WellTyped
  <2> HIDE DEF g
  <2>3. Good(g)
    BY <1>1, <2>1, PolicyKeeps
  <2>4. Acyclic(g)
    <3>1. \A x \in Ids : Kids(g, x) = Kids(heap, x)
      BY <2>2 DEF Kids
    <3>2. QED
      BY <1>1, <2>2, <3>1, AcyclicLess
  <2>5. Sound(g)
    BY <2>3, <2>4 DEF Good, Sound
  <2>6. QED
    BY <2>1, <2>5, HookEndDelivers
<1>5. ASSUME NEW x \in Free, NEW name \in Names \cup OddNames, NEW v \in Vals,
             HookAdds(x, name, v)
      PROVE  Delivering'
  <2> DEFINE g == [heap EXCEPT ![x] = NewItem("Value", name, v)]
             p == heap[Root].policy
             r == AddTo(g, Root, x, p)
  <2>1. /\ x \in Ids /\ heap[x] = Null /\ "Value" \in Kinds /\ name \in AnyName
        /\ v \in Vals \cup {NoVal} /\ Stacked(heap, frames)
    BY DEF Free, Kinds, AnyName, ReadSound
  <2>2. Puts(heap, x, NewItem("Value", name, v), g)
    BY DEF Puts
  <2>3. p \in Policies
    BY <1>1 DEF Good
  <2>4. IF r.out \in AddErrors THEN HookThrows(r.heap, r.out) ELSE HookReturns(r.heap)
    BY <1>5 DEF HookAdds
  <2> HIDE DEF g, p
  <2>5. Good(g) /\ g[x] # Null
    BY <1>1, <2>1, <2>2, FreshKeeps
  <2>6. Sound(g) /\ Holding(g, x) = {}
    BY <1>1, <2>1, <2>2, FreshTrees
  <2>7. r = AddTo(g, Root, x, p)
    OBVIOUS
  <2> HIDE DEF r
  <2>8. Sound(r.heap)
    <3> DEFINE trees == TreesIn(g, Root)
               L == Len(trees)
               T == Offering(g, x, p)
               U == Append(trees, T)
    <3>1. Holds(g, Root, trees, L, p)
      BY <2>3, <2>5, <2>6, RootHolds
    <3>2. T = Offering(g, x, p) /\ Appends(U, trees, T)
      BY DEF Appends
    <3> HIDE DEF trees, L, T, U
    <3>3. /\ IsContainer(g, Root) /\ g[Root].kind = "Group" /\ x # Root
          /\ WellTyped(g) /\ Closed(g)
      <4>1. WellTyped(g) /\ Closed(g) /\ g[Root] # Null /\ g[Root].kind = "Group"
        BY <2>5, ReadAssumption DEF Good, WellTyped
      <4>2. x # Root
        BY <2>1, ReadAssumption, AddressesAssumption
      <4>3. IsContainer(g, Root)
        BY <1>1, <4>1 DEF IsContainer, ContainerKinds, WellTyped
      <4>4. QED
        BY <4>1, <4>2, <4>3
    <3>4. Holding(g, Root) = {}
      BY <1>1, <3>3, ReadAssumption, HeldByNone
    <3>5. QED
      BY <1>1, <2>1, <2>3, <2>5, <2>6, <2>7, <3>1, <3>2, <3>3, <3>4, AddTrees
  <2>9. CASE r.out \in AddErrors
    BY <2>4, <2>8, <2>9, HookEndDelivers
  <2>10. CASE r.out \notin AddErrors
    BY <2>4, <2>8, <2>10, HookEndDelivers
  <2>11. QED
    BY <2>9, <2>10
<1>6. QED
  BY <1>2, <1>3, <1>4, <1>5 DEF HookBody

LEMMA HooksDeliver ==
    ASSUME ReadSound, Delivering, Hooks
    PROVE  Delivering'
<1>1. CASE CallHook("before", before) \/ CallHook("after", after)
  <2>1. phase \in {"before", "after"} /\ UNCHANGED <<policy, action>>
    BY <1>1 DEF CallHook, client
  <2>2. CASE UNCHANGED <<heap, phase, ret>>
    BY <2>1, <2>2 DEF Delivering
  <2>3. CASE HookBody
    BY <2>1, <2>3, HookBodyDelivers
  <2>4. QED
    BY <1>1, <2>2, <2>3 DEF CallHook
<1>2. CASE ReportFailure
  BY <1>2 DEF ReportFailure, Finish, Delivering
<1>3. QED
  BY <1>1, <1>2 DEF Hooks

\* The parse starts with nothing read.
LEMMA StartDelivers ==
    ASSUME ReadSound, Grammatical, Delivering, StartParse
    PROVE  Delivering'
<1> DEFINE start == TreesIn(heap, Root)
           f     == NewFrame(Root, "Named")
           fs    == <<f>>
           D     == read
           pos   == <<0>>
<1>1. /\ phase = "before" /\ phase' = "parse" /\ frames' = fs /\ origin' = heap
      /\ UNCHANGED <<heap, policy, action, ret, read>>
      /\ Good(heap) /\ Acyclic(heap) /\ Sound(heap) /\ policy \in Policies
      /\ action = policy /\ ret = "none"
  BY DEF StartParse, Delivering, ReadSound, Control, Good, Sound, client
<1>2. D = <<>> /\ Len(D) = 0 /\ DOMAIN D = {}
  BY <1>1, EmptySeq DEF Grammatical
<1>3. Begun(D, fs)
  BY <1>2, BegunEmpty
<1>4. Holds(heap, Root, start, Len(start), policy)
  BY <1>1, RootHolds
<1>5. \E S : start \in Seq(S)
  BY <1>4 DEF Holds
<1>6. /\ Len(fs) = 1 /\ fs[1] = f /\ Last(fs) = f /\ pos[1] = 0
      /\ \A i \in 1..1 : i = 1
      /\ f.at = Root /\ f.mode = "Named" /\ f.want = "item" /\ f.name = NoName
  BY DEF NewFrame, Last
<1> HIDE DEF f, fs, pos, D
<1>7. Depth(D, 0) = 0
  BY <1>2, <1>3, <1>6 DEF Begun, Nested
<1>8. Spine(D, pos, 1)
  <2>1. \A q \in 0..0 : q = 0
    OBVIOUS
  <2>2. QED
    BY <1>2, <1>6, <1>7, <2>1 DEF Spine
<1>9. Promised(D, start, 0, policy) = start
  <2>1. ItemsIn(D, 0) = <<>>
    <3> DEFINE s == ItemsIn(D, 0)
    <3>1. D \in Seq(Token)
      BY <1>2, EmptySeq
    <3>2. s = ItemsIn(D, 0)
      OBVIOUS
    <3> HIDE DEF s
    <3>3. s \in Seq(Nat) /\ Len(s) \in Nat /\ \A i \in 1..Len(s) : s[i] \in 1..Len(D)
      BY <3>1, <3>2, ItemsInIs
    <3>4. Len(s) = 0
      <4>1. 1 \notin 1..Len(s)
        BY <1>2, <3>3
      <4>2. QED
        BY <3>3, <4>1
    <3>5. s = <<>>
      BY <3>3, <3>4, EmptySeq
    <3>6. QED
      BY <3>2, <3>5
  <2>2. Within(D, 0, policy) = <<>>
    BY <2>1 DEF Within
  <2>3. PICK S : start \in Seq(S)
    BY <1>5
  <2>4. start \o <<>> = start
    BY <2>3
  <2>5. QED
    BY <2>2, <2>4 DEF Promised
<1>10. Fills(heap, D, start, f, 0, policy)
  BY <1>4, <1>6, <1>9 DEF Fills
<1>11. NamesNext(D, f)
  BY <1>6 DEF NamesNext
<1>12. Underway(heap, D, start, fs, pos, policy)
  <2>1. \A i \in 1..Len(fs) : /\ Fills(heap, D, start, fs[i], pos[i], policy)
                              /\ i # 1 => fs[i - 1].name = Label(D, pos[i])
    BY <1>6, <1>10
  <2>2. Spine(D, pos, Len(fs)) /\ NamesNext(D, Last(fs))
    BY <1>6, <1>8, <1>11
  <2>3. QED
    BY ONLY <2>1, <2>2 DEF Underway
<1>13. /\ \E S : TreesIn(origin', Root) \in Seq(S)
       /\ Underway(heap', read', TreesIn(origin', Root), frames', pos, policy')
  BY <1>1, <1>5, <1>12 DEF D
<1>14. QED
  BY <1>1, <1>13 DEF Delivering

LEMMA ClientDelivers ==
    ASSUME ReadSound, Delivering, Client
    PROVE  Delivering'
<1>1. phase = "idle" /\ phase' = "idle" /\ WellTyped(heap) /\ Acyclic(heap)
  BY DEF Client, OnExistingAction, AddHookBeforeRead, AddHookAfterRead, OnParseFailure, Idle,
         ReadSound, Good, Delivering
<1>2. ASSUME NEW p \in UsedPolicies, OnExistingAction(p)
      PROVE  Acyclic(heap')
  <2> DEFINE g == heap'
  <2>1. g = [heap EXCEPT ![Root].policy = p]
    BY <1>2 DEF OnExistingAction
  <2>2. \A x \in Ids : g[x] = heap[x]
    <3>1. \A x \in Ids : x # Root
      BY AddressesAssumption, ReadAssumption
    <3>2. QED
      BY <1>1, <2>1, <3>1 DEF Addresses, WellTyped
  <2> HIDE DEF g
  <2>3. \A x \in Ids : Kids(g, x) = Kids(heap, x)
    BY <2>2 DEF Kids
  <2>4. Acyclic(g)
    BY <1>1, <2>2, <2>3, AcyclicLess
  <2>5. QED
    BY <2>4 DEF g
<1>3. Acyclic(heap')
  BY <1>1, <1>2 DEF Client, AddHookBeforeRead, AddHookAfterRead, OnParseFailure
<1>4. QED
  BY <1>1, <1>3 DEF Delivering

LEMMA DeliveringStep ==
    ASSUME ReadSound, ReadSound', Grammatical, Delivering, [Next]_vars
    PROVE  Delivering'
<1>1. CASE Client
  BY <1>1, ClientDelivers
<1>2. CASE StartRead
  BY <1>2 DEF StartRead, client, Delivering
<1>3. CASE Hooks
  BY <1>3, HooksDeliver
<1>4. CASE StartParse
  BY <1>4, StartDelivers
<1>5. CASE ReadToken
  <2> DEFINE start == TreesIn(origin, Root)
  <2>1. start = TreesIn(origin, Root)
    OBVIOUS
  <2> HIDE DEF start
  <2>2. Delivers(start)
    BY <1>5, <2>1, TokenDelivers
  <2>3. QED
    BY <2>2 DEF Delivers
<1>6. CASE EndRead
  BY <1>6 DEF EndRead, Finish, Delivering
<1>7. CASE UNCHANGED vars
  BY <1>7 DEF vars, client, history, Delivering
<1>8. QED
  BY <1>1, <1>2, <1>3, <1>4, <1>5, <1>6, <1>7 DEF Next, ReadStep

LEMMA DeliveringInit == Init => Delivering
<1> SUFFICES ASSUME Init
             PROVE  Delivering
  OBVIOUS
<1>1. phase = "idle" /\ \A x \in Ids : heap[x] = Null
  BY AddressesAssumption DEF Init, Addresses
<1>2. Acyclic(heap)
  <2> DEFINE r == [x \in Ids |-> 0]
  <2>1. Descends(heap, r)
    BY <1>1 DEF Descends
  <2> HIDE DEF r
  <2>2. QED
    BY <2>1 DEF Acyclic
<1>3. QED
  BY <1>1, <1>2 DEF Delivering

LEMMA DeliveringHolds == Spec => []Delivering
BY DeliveringInit, DeliveringStep, ReadSoundness, GrammarHolds, PTL DEF Spec

-----------------------------------------------------------------------------
(* The theorems *)

\* The only steps in a parse are those that read a token.
LEMMA ParseDelivers ==
    ASSUME ReadSound, ReadSound', Grammatical, Delivering, Next, phase = "parse"
    PROVE  Delivers(TreesIn(origin, Root))
<1> DEFINE start == TreesIn(origin, Root)
<1>1. ReadToken
  BY DEF Next, Client, OnExistingAction, AddHookBeforeRead, AddHookAfterRead, OnParseFailure,
         Idle, StartRead, ReadStep, Hooks, CallHook, ReportFailure, StartParse, EndRead
<1>2. start = TreesIn(origin, Root)
  OBVIOUS
<1> HIDE DEF start
<1>3. Delivers(start)
  BY <1>1, <1>2, TokenDelivers
<1>4. QED
  BY <1>3 DEF start

\* Every read token leaves the root with what it held before the parse and the
\* items that are complete by then, each read under the policy the read began
\* with: nothing of a container that is still open, and, when the read fails or
\* is thrown out of, nothing of what the last token was part of (Parser::Parse,
\* Container::Add).
THEOREM RootHoldsWhatIsRead == Spec => ReadDelivers
<1>1. ASSUME ReadSound, ReadSound', Grammatical, Delivering, [Next]_vars
      PROVE  [phase = "parse" =>
                LET D == IF phase' \in {"parse", "after"} THEN read' ELSE read
                IN  TreesIn(heap', Root) = Expect(D, TreesIn(origin, Root), policy)]_vars
  BY <1>1, ParseDelivers DEF Delivers
<1>2. QED
  BY <1>1, ReadSoundness, GrammarHolds, DeliveringHolds, PTL DEF Spec, ReadDelivers

\* A read throws an exception of Add only for cause: the item that the last token
\* completes is no comment, and it has an invalid name, or the policy is
\* ThrowException and an earlier item of its container collides with it; whatever
\* a hook has done to the policy of the root, and however deep the container.
THEOREM ReadsRefuseForCause == Spec => RefusedWithCause
<1>1. ASSUME ReadSound, ReadSound', Grammatical, Delivering, [Next]_vars
      PROVE  [phase = "parse" /\ ret' \in AddErrors =>
                 Refuses(read', TreesIn(origin, Root), policy, ret')]_vars
  BY <1>1, ParseDelivers DEF Delivers
<1>2. QED
  BY <1>1, ReadSoundness, GrammarHolds, DeliveringHolds, PTL DEF Spec, RefusedWithCause
-----------------------------------------------------------------------------
(* The contract of a read *)

\* What ReadContract says with operators of its own it says with these.
LEMMA SameWords ==
    /\ \A S, m : Contract!InOrder(S, m) = InOrder(S, m)
    /\ \A s : Contract!Front(s) = Front(s)
    /\ Contract!AddErrors = AddErrors
BY DEF Contract!InOrder, InOrder, Contract!Front, Front, Contract!AddErrors, AddErrors

LEMMA SameBound ==
    ASSUME NEW m \in Nat, NEW n \in Nat, 1..m = 1..n
    PROVE  m = n
<1>1. /\ m # 0 => m \in 1..m
      /\ n # 0 => n \in 1..n
  OBVIOUS
<1>2. /\ m # 0 => m \in 1..n
      /\ n # 0 => n \in 1..m
  BY <1>1
<1>3. (m # 0 => m <= n) /\ (n # 0 => n <= m)
  BY ONLY <1>2, m \in Nat, n \in Nat
<1>4. QED
  BY ONLY <1>3, m \in Nat, n \in Nat

\* The calls that are due are those that a loop over the hooks makes.
LEMMA CallsAreCalled ==
    ASSUME NEW when \in {"before", "after"}, NEW hooks \in Seq({"null", "hook"})
    PROVE  Contract!Calls(when, hooks) = Called(when, hooks)
<1> DEFINE n      == Len(hooks)
           S      == {k \in DOMAIN hooks : hooks[k] = "hook"}
           called == CalledSoFar(when, hooks)
<1>1. n \in Nat /\ DOMAIN hooks = 1..n
  BY LenProperties
<1>2. /\ called[0] = <<>> /\ \A k \in 0..n : called[k] \in Calls
      /\ \A k \in 1..n : called[k] = IF hooks[k] = "hook" THEN Append(called[k - 1], <<when, k>>)
                                                          ELSE called[k - 1]
  BY CalledSoFarIs
<1>3. PICK f : Upto(f, S, n) /\ InOrder(S, n) = f[n]
  BY <1>1, InOrderUpto
<1> DEFINE Listed(s) == [i \in DOMAIN s |-> <<when, s[i]>>]
           Bad == {k \in 0..n : called[k] # Listed(f[k])}
<1>4. /\ f[0] = <<>> /\ \A k \in 0..n : f[k] \in Seq(Nat)
      /\ \A k \in 1..n : f[k] = IF hooks[k] = "hook" THEN Append(f[k - 1], k) ELSE f[k - 1]
  <2>1. \A k \in 1..n : k \in S <=> hooks[k] = "hook"
    BY <1>1
  <2> HIDE DEF S, n
  <2>2. QED
    BY <1>3, <2>1 DEF Upto
<1> HIDE DEF called, S, n
<1>5. \A k \in 1..n : k - 1 \in 0..n /\ k \in 0..n
  BY <1>1
<1>6. Bad = {}
  <2>1. SUFFICES ASSUME Bad # {}
                 PROVE  FALSE
    OBVIOUS
  <2>2. PICK k \in Bad : \A j \in Bad : k <= j
    <3>1. Bad \in SUBSET Nat
      BY <1>1
    <3> HIDE DEF Bad
    <3>2. QED
      BY <2>1, <3>1, LeastElement
  <2>3. k \in 0..n /\ called[k] # Listed(f[k])
    BY <2>2
  <2>4. Listed(<<>>) = <<>>
    OBVIOUS
  <2>5. k \in 1..n /\ k \in Nat /\ k - 1 \in 0..n
    <3>1. k # 0
      BY <1>2, <1>4, <2>3, <2>4
    <3>2. QED
      BY <1>1, <2>3, <3>1
  <2>6. called[k - 1] = Listed(f[k - 1])
    <3>1. k - 1 \notin Bad
      BY <2>2, <2>5
    <3>2. QED
      BY <2>5, <3>1
  <2>7. CASE hooks[k] # "hook"
    <3> HIDE DEF Listed
    <3>1. called[k] = called[k - 1] /\ f[k] = f[k - 1]
      BY <1>2, <1>4, <2>5, <2>7
    <3>2. QED
      BY <2>3, <2>6, <3>1
  <2>8. CASE hooks[k] = "hook"
    <3> DEFINE s == f[k - 1]
               u == f[k]
               c == called[k - 1]
               d == called[k]
               e == <<when, k>>
    <3>1. s \in Seq(Nat) /\ u = Append(s, k) /\ c \in Calls /\ d = Append(c, e) /\ d \in Calls
      BY <1>2, <1>4, <1>5, <2>5, <2>8
    <3>2. e \in Call
      BY <2>5 DEF Call
    <3>3. c = Listed(s)
      BY <2>6
    <3> HIDE DEF s, u, c, d, e
    <3>4. /\ u \in Seq(Nat) /\ Len(s) \in Nat /\ Len(u) = Len(s) + 1 /\ u[Len(s) + 1] = k
          /\ DOMAIN s = 1..Len(s) /\ DOMAIN u = 1..Len(u)
          /\ \A i \in 1..Len(s) : u[i] = s[i]
      BY <2>5, <3>1, AppendProperties, LenProperties
    <3>5. /\ Len(c) \in Nat /\ DOMAIN c = 1..Len(c) /\ Len(d) = Len(c) + 1
          /\ DOMAIN d = 1..Len(d) /\ d[Len(c) + 1] = e /\ \A i \in 1..Len(c) : d[i] = c[i]
      <4> HIDE DEF Call
      <4>1. QED
        BY <3>1, <3>2, AppendProperties, LenProperties DEF Calls
    <3>6. DOMAIN c = DOMAIN s /\ \A i \in DOMAIN s : c[i] = <<when, s[i]>>
      BY <3>3
    <3>7. Len(c) = Len(s)
      <4>1. 1..Len(c) = 1..Len(s)
        BY <3>4, <3>5, <3>6
      <4>2. Len(c) \in Nat /\ Len(s) \in Nat
        BY <3>4, <3>5
      <4>3. QED
        BY <4>1, <4>2, SameBound
    <3>8. \A i \in DOMAIN u : d[i] = <<when, u[i]>>
      <4>1. TAKE i \in DOMAIN u
      <4>2. CASE i = Len(s) + 1
        BY <3>4, <3>5, <3>7, <4>2 DEF e
      <4>3. CASE i # Len(s) + 1
        BY <3>4, <3>5, <3>6, <3>7, <4>3
      <4>4. QED
        BY <4>2, <4>3
    <3>9. d = [i \in DOMAIN d |-> d[i]]
      <4>1. d \in [1..Len(d) -> Call]
        <5> HIDE DEF Call
        <5>1. QED
          BY <3>1, LenProperties DEF Calls
      <4> HIDE DEF Call
      <4>2. QED
        BY <4>1
    <3>10. DOMAIN d = DOMAIN u
      BY <3>4, <3>5, <3>7
    <3>11. d = Listed(u)
      BY ONLY <3>8, <3>9, <3>10
    <3> HIDE DEF Listed
    <3>12. QED
      BY <2>3, <3>11 DEF u, d
  <2>9. QED
    BY <2>7, <2>8
<1>7. called[n] = Listed(f[n])
  <2>1. n \in 0..n
    BY <1>1
  <2>2. QED
    BY <1>6, <2>1
<1>8. Contract!Calls(when, hooks) = Listed(InOrder(S, n))
  BY SameWords DEF Contract!Calls, S, n
<1>9. QED
  BY <1>3, <1>7, <1>8 DEF Called, called, n

\* The calls due by the end of a stage.
LEMMA DueIs ==
    ASSUME ReadSound
    PROVE  Contract!Due = IF phase = "after" THEN AllHooks ELSE Called("before", before)
<1>1. /\ before \in Seq({"null", "hook"}) /\ after \in Seq({"null", "hook"})
      /\ Called("before", before) \in Seq(Call)
  BY HooksTyped DEF Calls
<1>2. /\ Contract!Calls("before", before) = Called("before", before)
      /\ Contract!Calls("after", after) = Called("after", after)
  BY <1>1, CallsAreCalled
<1>3. Called("before", before) \o <<>> = Called("before", before)
  BY <1>1, ConcatEmptySeq
<1>4. QED
  BY <1>2, <1>3 DEF Contract!Due, AllHooks

LEMMA ConcatBegins ==
    ASSUME NEW S, NEW s \in Seq(S), NEW u \in Seq(S)
    PROVE  /\ Len(s \o u) = Len(s) + Len(u) /\ Len(s) \in Nat
           /\ \A i \in 1..Len(s) : (s \o u)[i] = s[i]
<1> DEFINE w == s \o u
<1>1. /\ Len(w) = Len(s) + Len(u) /\ Len(s) \in Nat
      /\ \A i \in 1..Len(s) : w[i] = s[i]
  BY LenProperties, ConcatProperties
<1>2. QED
  BY <1>1

\* What a call adds to the calls is the one that was due.
LEMMA NextDue ==
    ASSUME NEW s \in Calls, NEW e \in Call, NEW d \in Calls, NEW u \in Calls,
           d = Append(s, e) \o u
    PROVE  Len(s) < Len(d) /\ d[Len(s) + 1] = e
<1> HIDE DEF Call
<1>1. /\ s \in Seq(Call) /\ u \in Seq(Call) /\ Len(s) \in Nat /\ Len(u) \in Nat
  BY LenProperties DEF Calls
<1>2. /\ Append(s, e) \in Seq(Call) /\ Len(Append(s, e)) = Len(s) + 1
      /\ Append(s, e)[Len(s) + 1] = e
  BY <1>1, AppendProperties
<1> DEFINE v == Append(s, e)
           w == v \o u
<1>3. v \in Seq(Call) /\ Len(v) = Len(s) + 1 /\ v[Len(s) + 1] = e
  BY <1>2
<1>4. d = w
  OBVIOUS
<1> HIDE DEF v
<1>5. Len(d) = Len(v) + Len(u) /\ \A i \in 1..Len(v) : d[i] = v[i]
  <2>1. /\ Len(w) = Len(v) + Len(u) /\ Len(v) \in Nat
        /\ \A i \in 1..Len(v) : w[i] = v[i]
    BY ONLY <1>1, <1>3, ConcatBegins
  <2> HIDE DEF w
  <2>2. QED
    BY ONLY <1>4, <2>1
<1>6. QED
  BY <1>1, <1>3, <1>5

\* A call of a hook is one there, and an empty pointer is nothing.
LEMMA HookMapped ==
    ASSUME ReadSound, CallsInOrder,
           NEW when \in {"before", "after"}, NEW hooks,
           hooks = IF when = "before" THEN before ELSE after, CallHook(when, hooks)
    PROVE  [Contract!Next]_Contract!vars
<1>1. /\ phase = when /\ next <= Len(hooks)
      /\ UNCHANGED <<client, read>>
      /\ calls' = IF hooks[next] = "hook" THEN Append(calls, <<when, next>>) ELSE calls
      /\ phase' = phase \/ phase' = "idle"
      /\ phase' # "parse" /\ phase # "parse"
  BY CallHookIs DEF CallHook
<1>2. /\ next \in 1..Len(hooks) /\ next \in Nat /\ hooks \in Seq({"null", "hook"})
  BY HooksTyped, CallHookInOrder
<1>3. CASE hooks[next] # "hook"
  <2>1. hooks[next] = "null"
    <3>1. hooks[next] \in {"null", "hook"}
      BY <1>2, ElementOfSeq
    <3>2. QED
      BY <1>3, <3>1
  <2>2. UNCHANGED <<heap, phase, ret, calls>>
    BY <1>3, <2>1 DEF CallHook
  <2>3. UNCHANGED Contract!vars
    BY <1>1, <2>2 DEF Contract!vars, Contract!client, client
  <2>4. QED
    BY <2>3
<1>4. CASE hooks[next] = "hook"
  <2> DEFINE e   == <<when, next>>
             due == Contract!Due
  <2>1. calls' = Append(calls, e) /\ calls' \in Calls /\ calls \in Calls
        /\ due \in Calls /\ \E u \in Calls : due = calls' \o u
    <3> DEFINE b == Called("before", before)
               s == CalledSoFar(when, hooks)[next]
    <3>1. b \in Calls /\ Called("after", after) \in Calls
      BY HooksTyped
    <3>2. PICK u \in Calls : Called(when, hooks) = s \o u
      <4>1. next \in 0..Len(hooks)
        BY <1>2
      <4>2. QED
        BY <1>2, <4>1, CalledGrows
    <3>3. s \in Calls
      BY <1>2, CalledSoFarIs
    <3>4. CASE when = "before"
      <4>1. calls' = <<>> \o s /\ calls = CalledSoFar(when, hooks)[next - 1]
        BY <1>1, <3>4, CallHookInOrder DEF CallsInOrder
      <4>2. due = Called(when, hooks)
        BY <1>1, <3>4, DueIs
      <4>3. calls \in Calls
        <5>1. next - 1 \in 0..Len(hooks)
          BY <1>2
        <5>2. QED
          BY <1>2, <4>1, <5>1, CalledSoFarIs
      <4> HIDE DEF s, due
      <4>4. calls' = s
        BY <3>3, <4>1, ConcatEmptySeq DEF Calls
      <4>5. QED
        BY <1>1, <1>4, <3>1, <3>2, <3>3, <3>4, <4>2, <4>3, <4>4
    <3>5. CASE when = "after"
      <4>1. calls' = b \o s /\ calls = b \o CalledSoFar(when, hooks)[next - 1]
        BY <1>1, <3>5, CallHookInOrder DEF CallsInOrder
      <4>2. due = b \o Called(when, hooks)
        BY <1>1, <3>5, DueIs DEF AllHooks
      <4>3. calls \in Calls
        <5>1. next - 1 \in 0..Len(hooks)
          BY <1>2
        <5>2. CalledSoFar(when, hooks)[next - 1] \in Calls
          BY <1>2, <5>1, CalledSoFarIs
        <5> HIDE DEF b
        <5>3. QED
          BY <3>1, <4>1, <5>2, CallsConcat
      <4> HIDE DEF b, s, due
      <4>4. due = calls' \o u /\ calls' \in Calls
        <5>1. b \in Calls /\ s \in Calls /\ u \in Calls
          BY <3>1, <3>2, <3>3
        <5>2. b \o s \in Calls
          BY ONLY <5>1, CallsConcat
        <5>3. (b \o s) \o u = b \o (s \o u)
          BY ONLY <5>1, CallsConcat
        <5>4. QED
          BY <3>2, <4>1, <4>2, <5>2, <5>3
      <4>5. due \in Calls
        BY <3>2, <4>4, CallsConcat
      <4>6. QED
        BY <1>1, <1>4, <3>2, <4>3, <4>4, <4>5
    <3>6. QED
      BY <3>4, <3>5
  <2>2. e \in Call
    BY <1>2 DEF Call
  <2>3. Len(calls) < Len(due) /\ due[Len(calls) + 1] = e
    <3> HIDE DEF due, e
    <3>1. PICK u \in Calls : due = Append(calls, e) \o u
      BY <2>1
    <3>2. QED
      BY <2>1, <2>2, <3>1, NextDue
  <2>4. \/ phase' = phase /\ ret' = ret
        \/ phase' = "idle" /\ ret' \in {"HookException"} \cup AddErrors
    BY <1>1, <1>4 DEF CallHook, HookBody, HookReturns, HookAdds, HookThrows, Finish
  <2> HIDE DEF due, e
  <2>5. Contract!CallHook
    <3>1. calls' = Append(calls, due[Len(calls) + 1])
      BY <2>1, <2>3
    <3>2. QED
      BY <1>1, <2>3, <2>4, <3>1, SameWords DEF Contract!CallHook, Contract!client, client, due
  <2>6. QED
    BY <2>5 DEF Contract!Next
<1>5. QED
  BY <1>3, <1>4

\* The client changes nothing that the root holds.
LEMMA ClientMapped ==
    ASSUME ReadSound, Delivering, Client
    PROVE  Contract!Client
<1>1. /\ phase = "idle" /\ phase' = "idle" /\ UNCHANGED <<read, calls, ret, origin>>
  BY DEF Client, OnExistingAction, AddHookBeforeRead, AddHookAfterRead, OnParseFailure, Idle,
         history
<1>2. TreesIn(heap', Root) = TreesIn(heap, Root)
  <2>1. CASE UNCHANGED heap
    BY <2>1
  <2>2. ASSUME NEW p \in UsedPolicies, OnExistingAction(p)
        PROVE  TreesIn(heap', Root) = TreesIn(heap, Root)
    <3> DEFINE g == heap'
    <3>1. /\ WellTyped(heap) /\ Closed(heap) /\ Sound(heap)
          /\ Root \in Addresses /\ heap[Root] # Null
      BY ReadAssumption DEF ReadSound, Good, Sound, WellTyped, Addresses, Delivering
    <3>2. g = [heap EXCEPT ![Root].policy = p]
      BY <2>2 DEF OnExistingAction
    <3>3. g[Root].kids = heap[Root].kids /\ \A x \in Ids : g[x] = heap[x]
      <4>1. \A x \in Ids : x # Root
        BY AddressesAssumption, ReadAssumption
      <4>2. DOMAIN heap = Addresses /\ Root \in Addresses
        BY <3>1 DEF WellTyped
      <4>3. \A x \in Ids : x \in Addresses
        BY DEF Addresses
      <4>4. heap[Root].kids = [heap[Root] EXCEPT !.policy = p].kids
        <5>1. heap[Root] \in Item
          BY <3>1 DEF WellTyped
        <5>2. QED
          BY <5>1 DEF Item
      <4>5. QED
        BY <3>2, <4>1, <4>2, <4>3, <4>4
    <3> HIDE DEF g
    <3>4. \A x \in Used(heap) \cap Ids : TreeAt(g, x) = TreeAt(heap, x)
      <4> DEFINE S == Used(heap) \cap Ids
      <4>1. \A x \in S : heap[x] # Null /\ g[x] = heap[x] /\ Kids(heap, x) \subseteq S
        <5>1. TAKE x \in S
        <5>2. x \in Ids /\ heap[x] # Null /\ x \in Addresses
          BY DEF Used, Addresses
        <5>3. Kids(heap, x) \subseteq Ids
          BY <3>1, <5>2, ItemFields
        <5>4. \A y \in Kids(heap, x) : y \in Addresses /\ heap[y] # Null
          BY <3>1, <5>2, <5>3 DEF Closed, Addresses
        <5>5. QED
          BY <3>3, <5>2, <5>3, <5>4 DEF Used
      <4> HIDE DEF S
      <4>2. QED
        BY <3>1, <4>1, TreeAtSame DEF S
    <3>5. \A k \in DOMAIN heap[Root].kids :
             TreeAt(g, heap[Root].kids[k]) = TreeAt(heap, heap[Root].kids[k])
      <4>1. TAKE k \in DOMAIN heap[Root].kids
      <4>2. heap[Root].kids[k] \in Ids /\ heap[Root].kids[k] \in Kids(heap, Root)
        BY <3>1, TreesInIs
      <4>3. heap[Root].kids[k] \in Used(heap)
        BY <3>1, <4>2 DEF Closed, Used, Addresses
      <4>4. QED
        BY <3>4, <4>2, <4>3
    <3>6. TreesIn(g, Root) = TreesIn(heap, Root)
      BY <3>3, <3>5 DEF TreesIn
    <3>7. QED
      BY <3>6 DEF g
  <2>3. QED
    BY <2>1, <2>2 DEF Client, AddHookBeforeRead, AddHookAfterRead, OnParseFailure
<1>3. QED
  BY <1>1, <1>2 DEF Contract!Client

\* A token whose item Add refuses is one that the document goes on with.
LEMMA RefusedFits ==
    ASSUME ReadSound, Grammatical, ReadToken
    PROVE  /\ read \in Seq(Token) /\ \E token \in Token : read' = Append(read, token)
           /\ Viable(read)
           /\ phase' = "idle" => Viable(read')
<1>1. PICK token \in Token :
         \/ Unexpected(token) \/ ReadName(token) \/ ReadEqual(token)
         \/ \E x \in Ids : ReadItem(token, x) \/ OpenContainer(token, x)
         \/ CloseContainer(token) \/ EndDocument(token)
  BY DEF ReadToken
<1>2. Consume(token)
  BY <1>1 DEF Unexpected, ReadName, ReadEqual, ReadItem, OpenContainer, CloseContainer, EndDocument
<1>3. /\ phase = "parse" /\ read \in Seq(Token) /\ read' = Append(read, token)
      /\ Begun(read, frames) /\ level = Len(frames) - 1 /\ Len(frames) \in Nat
      /\ Viable(read') <=> Fits(read, token)
      /\ Fits(read, token) <=> /\ token.type \in Expected
                               /\ token.type \in Closers => Len(frames) > 1
                               /\ token.type = "EndOfFile" => Len(frames) = 1
  BY <1>2, ConsumeBegun
<1>4. Viable(read)
  BY <1>3 DEF Begun
<1>5. ASSUME phase' = "idle"
      PROVE  Viable(read')
  <2>1. ~Fail /\ phase' # phase
    BY <1>3, <1>5 DEF Fail
  <2>2. CASE \E x \in Ids : ReadItem(token, x)
    <3>1. token.type \in {"Value", "Comment"} /\ token.type \in Expected
      BY <2>2 DEF ReadItem
    <3>2. QED
      BY <1>3, <3>1, TypesDiffer
  <2>3. CASE CloseContainer(token)
    <3>1. token.type \in Closers /\ token.type \in Expected /\ level > 0
      BY <2>1, <2>3 DEF CloseContainer
    <3>2. Len(frames) > 1 /\ token.type # "EndOfFile"
      BY <1>3, <3>1, TypesDiffer
    <3>3. QED
      BY <1>3, <3>1, <3>2
  <2>4. CASE EndDocument(token)
    BY <1>5, <2>1, <2>4 DEF EndDocument
  <2>5. CASE Unexpected(token) \/ ReadName(token) \/ ReadEqual(token)
             \/ \E x \in Ids : OpenContainer(token, x)
    BY <2>1, <2>5 DEF Unexpected, ReadName, ReadEqual, Await, OpenContainer
  <2>6. QED
    BY <1>1, <2>2, <2>3, <2>4, <2>5
<1>6. QED
  BY <1>3, <1>4, <1>5

\* The last token of a parse is where the whole text is read there; the tokens
\* before it are nothing.
LEMMA TokenMapped ==
    ASSUME ReadSound, ReadSound', Grammatical, Grammatical', Delivering, CallsInOrder, ReadToken
    PROVE  [Contract!Next]_Contract!vars
<1> DEFINE start == TreesIn(origin, Root)
           D     == read
           E     == read'
<1>1. /\ phase = "parse" /\ UNCHANGED <<before, after, calls>>
      /\ \/ phase' \in {"parse", "failed"}
         \/ phase' = "after" /\ next' = 1
         \/ phase' = "idle" /\ ret' \in AddErrors
  BY TokenCalls
<1>2. UNCHANGED <<client, origin>>
  <2>1. \A token : Consume(token) => UNCHANGED <<client, origin>>
    BY DEF Consume, history
  <2>2. QED
    BY <2>1 DEF ReadToken, Unexpected, ReadName, ReadEqual, ReadItem, OpenContainer, CloseContainer,
                EndDocument
<1>3. /\ Delivering'
      /\ TreesIn(heap', Root) =
            Expect(IF phase' \in {"parse", "after"} THEN E ELSE D, start, policy)
      /\ ret' \in AddErrors => Refuses(E, start, policy, ret')
  <2>1. start = TreesIn(origin, Root)
    OBVIOUS
  <2> HIDE DEF start
  <2>2. QED
    BY <2>1, TokenDelivers DEF Delivers
<1>4. /\ D \in Seq(Token) /\ \E token \in Token : E = Append(D, token)
      /\ Viable(D)
      /\ phase' = "idle" => Viable(E)
  BY RefusedFits
<1>5. E # <<>> /\ Front(E) = D
  <2>1. PICK token \in Token : E = Append(D, token)
    BY <1>4
  <2> HIDE DEF E
  <2>2. /\ E \in Seq(Token) /\ Len(D) \in Nat /\ Len(E) = Len(D) + 1
        /\ \A i \in 1..Len(D) : E[i] = D[i]
    BY <1>4, <2>1, AppendKeeps, LenProperties
  <2>3. E # <<>>
    BY <2>2, EmptySeq
  <2>4. /\ Front(E) \in Seq(Token) /\ Len(Front(E)) = Len(E) - 1
        /\ \A i \in 1..(Len(E) - 1) : Front(E)[i] = E[i]
    BY <2>2, <2>3, FrontAndLast
  <2>5. Len(Front(E)) = Len(D) /\ \A i \in 1..Len(D) : Front(E)[i] = D[i]
    BY <2>2, <2>4
  <2>6. QED
    BY <1>4, <2>3, <2>4, <2>5, SeqEqual
<1>6. /\ phase' = "after" => IsDocument(E)
      /\ phase' = "failed" => ~Viable(E)
  BY DEF Grammatical
<1>7. phase' # "idle" => ret' = ret
  BY <1>1, <1>3 DEF Delivering
<1>8. calls = Contract!Due
  BY <1>1, DueIs DEF CallsInOrder
<1> HIDE DEF start, D, E
<1>9. CASE phase' = "parse"
  <2>1. UNCHANGED Contract!vars
    BY <1>1, <1>2, <1>7, <1>9 DEF Contract!vars, Contract!client, client
  <2>2. QED
    BY <2>1
<1>10. CASE phase' # "parse"
  <2>1. /\ Contract!Front(E) = D
        /\ UNCHANGED <<policy, before, after, onFailure>>
    BY <1>2, <1>5, SameWords DEF client
  <2>2. /\ phase' = "after" => TreesIn(heap', Root) = Expect(E, start, policy)
        /\ phase' \in {"failed", "idle"} => TreesIn(heap', Root) = Expect(D, start, policy)
    BY <1>3
  <2> DEFINE stage    == IF phase = "parse" THEN "before" ELSE phase
             given    == IF phase = "parse" THEN <<>> ELSE read
             contents == TreesIn(IF phase = "parse" THEN origin ELSE heap, Root)
             new      == TreesIn(heap', Root)
  <2>3. stage = "before" /\ stage' = phase' /\ given' = E /\ contents = start /\ contents' = new
    BY <1>1, <1>10 DEF start, E
  <2>4. \/ /\ IsDocument(E) /\ phase' = "after" /\ new = Expect(E, start, policy) /\ ret' = ret
        \/ /\ ~Viable(E) /\ phase' = "failed" /\ new = Expect(D, start, policy) /\ ret' = ret
        \/ /\ Viable(E) /\ phase' = "idle" /\ ret' \in AddErrors
           /\ Refuses(E, start, policy, ret') /\ new = Expect(D, start, policy)
    <3> HIDE DEF new
    <3>1. CASE phase' = "after"
      BY <1>6, <1>7, <2>2, <3>1 DEF new
    <3>2. CASE phase' = "failed"
      BY <1>6, <1>7, <2>2, <3>2 DEF new
    <3>3. CASE phase' = "idle"
      <4>1. Viable(E) /\ ret' \in AddErrors /\ new = Expect(D, start, policy)
        BY <1>1, <1>4, <2>2, <3>3 DEF new
      <4>2. Refuses(E, start, policy, ret')
        BY <1>3, <4>1
      <4>3. QED
        BY <3>3, <4>1, <4>2
    <3>4. QED
      BY <1>1, <1>10, <3>1, <3>2, <3>3
  <2> HIDE DEF stage, given, contents, new
  <2>5. /\ stage = "before" /\ calls = Contract!Due
        /\ given' # <<>> /\ Viable(Contract!Front(given'))
        /\ \/ /\ IsDocument(given') /\ stage' = "after"
              /\ contents' = Expect(given', contents, policy)
              /\ UNCHANGED ret
           \/ /\ ~Viable(given') /\ stage' = "failed"
              /\ contents' = Expect(Contract!Front(given'), contents, policy)
              /\ UNCHANGED ret
           \/ /\ Viable(given') /\ stage' = "idle" /\ ret' \in Contract!AddErrors
              /\ Refuses(given', contents, policy, ret')
              /\ contents' = Expect(Contract!Front(given'), contents, policy)
    <3>1. Contract!Front(given') = D /\ Contract!AddErrors = AddErrors
      BY <2>1, <2>3, SameWords
    <3>2. given' # <<>> /\ Viable(Contract!Front(given'))
      BY <1>4, <1>5, <2>3, <3>1
    <3>3. CASE phase' = "after"
      BY <1>8, <2>3, <2>4, <3>2, <3>3
    <3>4. CASE phase' = "failed"
      BY <1>8, <2>3, <2>4, <3>1, <3>2, <3>4
    <3>5. CASE phase' = "idle"
      BY <1>8, <2>3, <2>4, <3>1, <3>2, <3>5
    <3>6. QED
      BY <2>4, <3>3, <3>4, <3>5
  <2>6. UNCHANGED <<Contract!client, calls>>
    BY <1>1, <2>1 DEF Contract!client
  <2>7. Contract!ReadText
    BY <2>5, <2>6 DEF Contract!ReadText, stage, given, contents
  <2>8. QED
    BY <2>7 DEF Contract!Next
<1>11. QED
  BY <1>9, <1>10

\* The answer of a read that has not been thrown out of.
LEMMA AnswerMapped ==
    ASSUME ReadSound, Grammatical, CallsInOrder, ReportFailure \/ EndRead
    PROVE  Contract!Answer
<1>1. CASE ReportFailure
  <2>1. /\ phase = "failed" /\ phase' = "idle" /\ UNCHANGED <<heap, client, read>>
        /\ \/ onFailure = "null" /\ ret' = "ParseError" /\ calls' = calls
           \/ /\ onFailure = "hook" /\ calls' = Append(calls, <<"failure", 1>>)
              /\ ret' \in {"ParseError", "done", "HookException"}
    BY <1>1 DEF ReportFailure, Finish
  <2>2. QED
    BY <2>1 DEF Contract!Answer, Contract!client, client
<1>2. CASE EndRead
  <2>1. /\ phase = "after" /\ next > Len(after) /\ phase' = "idle" /\ ret' = "done"
        /\ UNCHANGED <<heap, client, read, calls>>
    BY <1>2 DEF EndRead, Finish
  <2>2. /\ next \in 1..(Len(after) + 1)
        /\ calls = Called("before", before) \o CalledSoFar("after", after)[next - 1]
    BY <2>1 DEF CallsInOrder
  <2>3. next - 1 = Len(after)
    <3>1. Len(after) \in Nat
      BY HooksTyped
    <3>2. QED
      BY ONLY <2>1, <2>2, <3>1
  <2>4. calls = Contract!Due
    BY <2>1, <2>2, <2>3, DueIs DEF AllHooks, Called
  <2>5. QED
    BY <2>1, <2>4 DEF Contract!Answer, Contract!client, client
<1>3. QED
  BY <1>1, <1>2

LEMMA InitMapped == Init => Contract!Init
<1> SUFFICES ASSUME Init
             PROVE  Contract!Init
  OBVIOUS
<1>1. heap[Root].kids = <<>>
  BY ReadAssumption DEF Init, NewItem, Addresses
<1>2. TreesIn(heap, Root) = <<>>
  BY <1>1 DEF TreesIn
<1>3. QED
  BY <1>2 DEF Init, Contract!Init

\* Every step of a read is one of the contract, or nothing to the client.
LEMMA StepMapped ==
    ASSUME ReadSound, ReadSound', Grammatical, Grammatical', Delivering, CallsInOrder,
           [Next]_vars
    PROVE  [Contract!Next]_Contract!vars
<1>1. CASE Client
  BY <1>1, ClientMapped DEF Contract!Next
<1>2. CASE StartRead
  <2>1. Contract!Begin
    BY <1>2 DEF StartRead, Contract!Begin, Contract!client, client
  <2>2. QED
    BY <2>1 DEF Contract!Next
<1>3. CASE CallHook("before", before) \/ CallHook("after", after)
  BY <1>3, HookMapped
<1>4. CASE ReportFailure \/ EndRead
  BY <1>4, AnswerMapped DEF Contract!Next
<1>5. CASE StartParse
  <2>1. phase = "before" /\ read = <<>>
    BY <1>5 DEF StartParse, Grammatical
  <2>2. UNCHANGED Contract!vars
    BY <1>5, <2>1 DEF StartParse, Contract!vars, Contract!client, client
  <2>3. QED
    BY <2>2
<1>6. CASE ReadToken
  BY <1>6, TokenMapped
<1>7. CASE UNCHANGED vars
  BY <1>7 DEF vars, history, client, Contract!vars, Contract!client
<1>8. QED
  BY <1>1, <1>2, <1>3, <1>4, <1>5, <1>6, <1>7 DEF Next, ReadStep, Hooks

\* A read of TextRead is a read of ReadContract: the hooks are called in their
\* order and once each, between them the whole text is added in one step or all
\* of it before the token at which the read stops, nothing else happens to the
\* root, and no answer but the failure hook's hides an error (static
\* Parser::Parse, Config::operator<<).
THEOREM ReadsKeepTheContract == Spec => ReadKeepsTheContract
<1>1. ReadSound /\ ReadSound' /\ Grammatical /\ Grammatical' /\ Delivering /\ CallsInOrder
         /\ [Next]_vars => [Contract!Next]_Contract!vars
  BY StepMapped
<1>2. QED
  BY <1>1, InitMapped, ReadSoundness, GrammarHolds, DeliveringHolds, CallsHold, PTL
     DEF Spec, ReadKeepsTheContract, Contract!Spec
=============================================================================
