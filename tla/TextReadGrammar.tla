-------------------------- MODULE TextReadGrammar --------------------------
(***************************************************************************)
(* Proofs that the parser of TextRead accepts exactly the documents of      *)
(* Grammar, and that a read calls the hooks it should.                      *)
(***************************************************************************)
EXTENDS TextReadProofs, FiniteSetTheorems

(* The grammar, one token later *)

\* How many tokens of some types there are among the first k.
LEMMA CountIs ==
    ASSUME NEW D, NEW k \in Nat, NEW types
    PROVE  /\ Count(D, k, types) \in Nat
           /\ k = 0 => Count(D, k, types) = 0
<1> DEFINE S == {j \in 1..k : D[j].type \in types}
<1>1. IsFiniteSet(1..k) /\ S \in SUBSET (1..k)
  BY FS_Interval
<1>2. IsFiniteSet(S)
  BY <1>1, FS_Subset
<1>3. Cardinality(S) \in Nat
  BY <1>2, FS_CardinalityType
<1>4. k = 0 => S = {}
  OBVIOUS
<1>5. k = 0 => Cardinality(S) = 0
  BY <1>2, <1>4, FS_EmptySet
<1>6. QED
  BY <1>3, <1>5 DEF Count

\* A token adds itself to the counts, and leaves those before it alone.
LEMMA CountMore ==
    ASSUME NEW D \in Seq(Token), NEW t \in Token, NEW types, NEW n, n = Len(D)
    PROVE  /\ \A k \in 0..n : Count(Append(D, t), k, types) = Count(D, k, types)
           /\ Count(Append(D, t), n + 1, types) =
                Count(D, n, types) + IF t.type \in types THEN 1 ELSE 0
<1> DEFINE E    == Append(D, t)
           S(k) == {j \in 1..k : D[j].type \in types}
           T(k) == {j \in 1..k : E[j].type \in types}
<1>1. /\ n \in Nat /\ E[n + 1] = t /\ \A k \in 1..n : E[k] = D[k]
  BY LenProperties, AppendKeeps
<1> HIDE DEF E
<1>2. \A k \in 0..n : T(k) = S(k)
  BY <1>1
<1>3. T(n + 1) = IF t.type \in types THEN S(n) \cup {n + 1} ELSE S(n)
  BY <1>1
<1>4. IsFiniteSet(S(n)) /\ n + 1 \notin S(n)
  <2>1. IsFiniteSet(1..n) /\ S(n) \in SUBSET (1..n)
    BY <1>1, FS_Interval
  <2>2. QED
    BY <1>1, <2>1, FS_Subset
<1>5. Cardinality(S(n)) \in Nat
  BY <1>4, FS_CardinalityType
<1>6. Cardinality(S(n) \cup {n + 1}) = Cardinality(S(n)) + 1
  BY <1>4, FS_AddElement
<1>7. Cardinality(T(n + 1)) = Cardinality(S(n)) + IF t.type \in types THEN 1 ELSE 0
  <2> HIDE DEF S, T
  <2>1. QED
    BY <1>3, <1>5, <1>6
<1>8. /\ \A k \in 0..n : Count(E, k, types) = Count(D, k, types)
      /\ Count(E, n + 1, types) = Count(D, n, types) + IF t.type \in types THEN 1 ELSE 0
  BY <1>2, <1>7 DEF Count
<1>9. QED
  BY <1>8 DEF E

LEMMA DepthIs ==
    ASSUME NEW D, NEW k \in Nat
    PROVE  Depth(D, k) \in Int /\ (k = 0 => Depth(D, k) = 0)
<1>1. /\ Count(D, k, Openers) \in Nat /\ Count(D, k, Closers) \in Nat
      /\ k = 0 => Count(D, k, Openers) = 0 /\ Count(D, k, Closers) = 0
  BY CountIs
<1>2. QED
  BY <1>1 DEF Depth

\* An opener goes one deeper, a closer one back.
LEMMA DepthMore ==
    ASSUME NEW D \in Seq(Token), NEW t \in Token, NEW n, n = Len(D)
    PROVE  /\ \A k \in 0..n : Depth(Append(D, t), k) = Depth(D, k)
           /\ Depth(Append(D, t), n + 1) =
                CASE t.type \in Openers -> Depth(D, n) + 1
                  [] t.type \in Closers -> Depth(D, n) - 1
                  [] OTHER -> Depth(D, n)
<1> DEFINE E == Append(D, t)
<1>1. n \in Nat
  BY LenProperties
<1>2. /\ \A k \in 0..n : /\ Count(E, k, Openers) = Count(D, k, Openers)
                         /\ Count(E, k, Closers) = Count(D, k, Closers)
      /\ Count(E, n + 1, Openers) = Count(D, n, Openers) + IF t.type \in Openers THEN 1 ELSE 0
      /\ Count(E, n + 1, Closers) = Count(D, n, Closers) + IF t.type \in Closers THEN 1 ELSE 0
  BY CountMore
<1>3. Count(D, n, Openers) \in Nat /\ Count(D, n, Closers) \in Nat
  BY <1>1, CountIs
<1>4. t.type \notin Openers \/ t.type \notin Closers
  BY DEF Openers, Closers
<1>5. \A k \in 0..n : Depth(E, k) = Depth(D, k)
  BY <1>2 DEF Depth
<1>6. Depth(E, n + 1) = CASE t.type \in Openers -> Depth(D, n) + 1
                          [] t.type \in Closers -> Depth(D, n) - 1
                          [] OTHER -> Depth(D, n)
  BY <1>2, <1>3, <1>4 DEF Depth
<1>7. QED
  BY <1>5, <1>6

\* What is around a token does not depend on the token.
LEMMA AroundMore ==
    ASSUME NEW D \in Seq(Token), NEW t \in Token, NEW n, n = Len(D), NEW k \in 1..(n + 1)
    PROVE  Around(Append(D, t), k) = Around(D, k)
<1> DEFINE E == Append(D, t)
<1>1. /\ n \in Nat /\ \A j \in 1..n : E[j] = D[j]
      /\ \A j \in 0..n : Depth(E, j) = Depth(D, j)
  BY LenProperties, AppendKeeps, DepthMore
<1> HIDE DEF E
<1>2. {j \in 1..(k - 1) : /\ E[j].type \in Openers
                          /\ \A i \in j..(k - 1) : Depth(E, i) >= Depth(E, j)} =
      {j \in 1..(k - 1) : /\ D[j].type \in Openers
                          /\ \A i \in j..(k - 1) : Depth(D, i) >= Depth(D, j)}
  BY <1>1
<1>3. Around(E, k) = Around(D, k)
  BY <1>2 DEF Around
<1>4. QED
  BY <1>3 DEF E

\* Whether token k is in a list is said by the tokens before it.
LEMMA InListMore ==
    ASSUME NEW D \in Seq(Token), NEW t \in Token, NEW n, n = Len(D), NEW k \in 1..(n + 1),
           Around(D, k) \in 0..n
    PROVE  InList(Append(D, t), k) = InList(D, k)
<1>1. Around(Append(D, t), k) = Around(D, k)
  BY AroundMore
<1>2. \A j \in 1..n : Append(D, t)[j] = D[j]
  BY AppendKeeps
<1>3. n \in Nat
  BY LenProperties
<1>4. QED
  BY <1>1, <1>2, <1>3 DEF InList

\* The greatest of some numbers.
LEMMA MaxIs ==
    ASSUME NEW m \in Nat, NEW S \in SUBSET (0..m), 0 \in S
    PROVE  /\ Max(S) \in S /\ Max(S) \in 0..m
           /\ \A y \in S : Max(S) >= y
<1> DEFINE U == {u \in 0..m : \A y \in S : u >= y}
<1>1. U \in SUBSET Nat /\ m \in U
  OBVIOUS
<1>2. PICK u \in U : \A v \in U : u <= v
  <2> HIDE DEF U
  <2>1. QED
    BY <1>1, LeastElement
<1>3. u \in S
  <2>1. SUFFICES ASSUME u \notin S
                 PROVE  FALSE
    OBVIOUS
  <2>2. u \in 1..m /\ \A y \in S : u - 1 >= y
    BY <1>2, <2>1
  <2>3. u - 1 \in U
    BY <2>2
  <2>4. QED
    BY <1>2, <2>2, <2>3
<1>4. \E x \in S : \A y \in S : x >= y
  BY <1>2, <1>3
<1>5. Max(S) \in S /\ \A y \in S : Max(S) >= y
  BY <1>4 DEF Max
<1>6. QED
  BY <1>5

\* A bracket j is open around token k.
Encloses(D, j, k) ==
    /\ j \in 1..(k - 1) /\ D[j].type \in Openers
    /\ \A i \in j..(k - 1) : Depth(D, i) >= Depth(D, j)

LEMMA AroundIs ==
    ASSUME NEW D, NEW k \in Nat \ {0}
    PROVE  /\ Around(D, k) \in 0..(k - 1)
           /\ Around(D, k) # 0 => Encloses(D, Around(D, k), k)
           /\ \A j \in 1..(k - 1) : Encloses(D, j, k) => j <= Around(D, k)
<1> DEFINE S == {0} \cup {j \in 1..(k - 1) :
                             /\ D[j].type \in Openers
                             /\ \A i \in j..(k - 1) : Depth(D, i) >= Depth(D, j)}
<1>1. k - 1 \in Nat /\ S \in SUBSET (0..(k - 1)) /\ 0 \in S
  OBVIOUS
<1>2. Around(D, k) = Max(S)
  BY DEF Around
<1>3. /\ Max(S) \in S /\ Max(S) \in 0..(k - 1)
      /\ \A y \in S : Max(S) >= y
  <2> HIDE DEF S
  <2>1. QED
    BY <1>1, MaxIs
<1>4. \A j : Encloses(D, j, k) => j \in S
  BY DEF Encloses
<1>5. \A j \in S : j # 0 => Encloses(D, j, k)
  BY DEF Encloses
<1>6. QED
  <2> HIDE DEF S
  <2>1. Around(D, k) # 0 => Encloses(D, Around(D, k), k)
    BY <1>2, <1>3, <1>5
  <2>2. ASSUME NEW j \in 1..(k - 1), Encloses(D, j, k)
        PROVE  j <= Around(D, k)
    <3>1. Max(S) >= j
      BY <1>3, <1>4, <2>2
    <3>2. QED
      BY <1>2, <1>3, <3>1
  <2>3. QED
    BY <1>2, <1>3, <2>1, <2>2

\* What a token has to be, given those before it: the conditions of Viable at
\* the last token.
Fits(D, t) ==
    LET n == Len(D)
    IN  /\ t.type \in Closers => Depth(D, n) > 0
        /\ t.type # "Bad"
        /\ t.type = "Equal" <=> Follows(D, n + 1, {"Identifier"})
        /\ t.type = "Identifier" => ~InList(D, n + 1)
        /\ t.type \in ItemTokens \ {"Comment"} =>
              InList(D, n + 1) \/ Follows(D, n + 1, {"Equal"})
        /\ t.type \notin ItemTokens => ~Follows(D, n + 1, {"Equal"})
        /\ t.type = "EndOfFile" => Depth(D, n) = 0

Endless(D) == \A k \in 1..Len(D) : D[k].type # "EndOfFile"

\* A document begun goes on with the tokens that fit, and with no other.
LEMMA ViableMore ==
    ASSUME NEW D \in Seq(Token), NEW t \in Token, Viable(D), Endless(D)
    PROVE  Viable(Append(D, t)) <=> Fits(D, t)
<1> DEFINE n == Len(D)
           E == Append(D, t)
<1>1. /\ n \in Nat /\ DOMAIN D = 1..n /\ DOMAIN E = 1..(n + 1) /\ Len(E) = n + 1
      /\ E[n + 1] = t /\ \A k \in 1..n : E[k] = D[k]
  BY LenProperties, AppendKeeps
<1>2. /\ \A k \in 0..n : Depth(E, k) = Depth(D, k)
      /\ Depth(E, n + 1) = CASE t.type \in Openers -> Depth(D, n) + 1
                             [] t.type \in Closers -> Depth(D, n) - 1
                             [] OTHER -> Depth(D, n)
  BY DepthMore
<1>3. \A k \in 1..(n + 1) : InList(E, k) = InList(D, k)
  <2> SUFFICES ASSUME NEW k \in 1..(n + 1)
               PROVE  InList(E, k) = InList(D, k)
    OBVIOUS
  <2>1. Around(D, k) \in 0..(k - 1)
    BY <1>1, AroundIs
  <2>2. Around(D, k) \in 0..n
    BY <1>1, <2>1
  <2>3. QED
    BY <2>2, InListMore
<1>4. \A T : \A k \in 1..(n + 1) : Follows(E, k, T) = Follows(D, k, T)
  BY <1>1 DEF Follows
<1>5. Depth(D, n) \in Int /\ Depth(D, n) >= 0
  <2>1. Depth(D, n) \in Int /\ (n = 0 => Depth(D, n) = 0)
    BY <1>1, DepthIs
  <2>2. n # 0 => n \in DOMAIN D
    BY <1>1
  <2>3. n # 0 => Depth(D, n) >= 0
    BY <2>2 DEF Viable
  <2>4. QED
    BY <2>1, <2>3
<1> DEFINE Ok(F, k) ==
        /\ Depth(F, k) >= 0
        /\ F[k].type # "Bad"
        /\ F[k].type = "Equal" <=> Follows(F, k, {"Identifier"})
        /\ F[k].type = "Identifier" => ~InList(F, k)
        /\ F[k].type \in ItemTokens \ {"Comment"} => InList(F, k) \/ Follows(F, k, {"Equal"})
        /\ F[k].type \notin ItemTokens => ~Follows(F, k, {"Equal"})
        /\ F[k].type = "EndOfFile" => k = Len(F) /\ Depth(F, k) = 0
<1>6. \A F : Viable(F) <=> \A k \in DOMAIN F : Ok(F, k)
  BY DEF Viable
<1>7. Ok(E, n + 1) <=> Fits(D, t)
  <2>1. t.type \notin Openers \/ t.type \notin Closers
    BY DEF Openers, Closers
  <2>2. t.type = "EndOfFile" => t.type \notin Openers /\ t.type \notin Closers
    BY DEF Openers, Closers
  <2>3. (Depth(E, n + 1) >= 0) <=> (t.type \in Closers => Depth(D, n) > 0)
    BY <1>2, <1>5, <2>1
  <2>4. t.type = "EndOfFile" => Depth(E, n + 1) = Depth(D, n)
    BY <1>2, <2>2
  <2>5. /\ InList(E, n + 1) = InList(D, n + 1)
        /\ Follows(E, n + 1, {"Identifier"}) = Follows(D, n + 1, {"Identifier"})
        /\ Follows(E, n + 1, {"Equal"}) = Follows(D, n + 1, {"Equal"})
    BY <1>1, <1>3, <1>4
  <2> HIDE DEF n, E
  <2>6. QED
    BY <1>1, <2>3, <2>4, <2>5 DEF Fits, n
<1>8. ASSUME NEW k \in 1..n
      PROVE  Ok(E, k)
  <2>1. Ok(D, k) /\ D[k].type # "EndOfFile"
    BY <1>1, <1>6 DEF Endless
  <2>2. /\ InList(E, k) = InList(D, k)
        /\ Follows(E, k, {"Identifier"}) = Follows(D, k, {"Identifier"})
        /\ Follows(E, k, {"Equal"}) = Follows(D, k, {"Equal"})
        /\ E[k] = D[k] /\ Depth(E, k) = Depth(D, k)
    BY <1>1, <1>2, <1>3, <1>4
  <2> HIDE DEF n, E
  <2>3. QED
    BY <2>1, <2>2
<1>9. Viable(E) <=> Ok(E, n + 1)
  <2>1. Viable(E) <=> \A k \in 1..(n + 1) : Ok(E, k)
    BY <1>1, <1>6
  <2>2. \A k \in 1..(n + 1) : k \in 1..n \/ k = n + 1
    BY <1>1
  <2> HIDE DEF n, E, Ok
  <2>3. n + 1 \in 1..(n + 1)
    BY <1>1
  <2>4. QED
    BY <1>8, <2>1, <2>2, <2>3
<1>10. QED
  BY <1>7, <1>9

-----------------------------------------------------------------------------
(* The activations of the parser and the document they have read *)

\* The bracket that opened the activation at depth k is still open.
Opened(D, k, mode) ==
    \E j \in 1..Len(D) :
       /\ D[j].type \in Openers /\ (D[j].type = "LBracket" <=> mode = "Unnamed")
       /\ Depth(D, j) = k - 1
       /\ \A i \in j..Len(D) : Depth(D, i) >= k - 1

\* There is an activation per open bracket, in the mode the bracket is for.
Nested(D, fs) ==
    /\ fs \in Seq(Frame) /\ fs # <<>>
    /\ Depth(D, Len(D)) = Len(fs) - 1
    /\ fs[1].mode = "Named"
    /\ \A k \in 2..Len(fs) : Opened(D, k, fs[k].mode)

\* An activation waits for = after a name, and for an item after =.
Awaits(D, frame) ==
    /\ frame.want = "equal" <=> Follows(D, Len(D) + 1, {"Identifier"})
    /\ frame.want = "value" <=> Follows(D, Len(D) + 1, {"Equal"})

Begun(D, fs) == Viable(D) /\ Endless(D) /\ Nested(D, fs) /\ Awaits(D, Last(fs))

\* An opening bracket opens one more.
LEMMA OpenerDeepens ==
    ASSUME NEW D, NEW j \in Nat \ {0}, D[j].type \in Openers
    PROVE  Depth(D, j) = Depth(D, j - 1) + 1
<1> DEFINE S(k, T) == {i \in 1..k : D[i].type \in T}
<1>1. D[j].type \notin Closers
  BY DEF Openers, Closers
<1>2. /\ S(j, Openers) = S(j - 1, Openers) \cup {j}
      /\ S(j, Closers) = S(j - 1, Closers)
  BY <1>1
<1>3. IsFiniteSet(S(j - 1, Openers)) /\ j \notin S(j - 1, Openers)
  <2>1. IsFiniteSet(1..(j - 1))
    BY FS_Interval
  <2>2. S(j - 1, Openers) \in SUBSET (1..(j - 1)) /\ j \notin S(j - 1, Openers)
    OBVIOUS
  <2> HIDE DEF S
  <2>3. QED
    BY <2>1, <2>2, FS_Subset
<1>4. Cardinality(S(j - 1, Openers) \cup {j}) = Cardinality(S(j - 1, Openers)) + 1
  BY <1>3, FS_AddElement
<1>5. /\ Count(D, j, Openers) = Count(D, j - 1, Openers) + 1
      /\ Count(D, j, Closers) = Count(D, j - 1, Closers)
  BY <1>2, <1>4 DEF Count
<1>6. Count(D, j - 1, Openers) \in Nat /\ Count(D, j - 1, Closers) \in Nat
  BY CountIs
<1>7. QED
  BY <1>5, <1>6 DEF Depth

\* The mode of the innermost activation says whether the next token is in a list.
LEMMA InListByMode ==
    ASSUME NEW D \in Seq(Token), NEW fs, Viable(D), Nested(D, fs)
    PROVE  InList(D, Len(D) + 1) <=> Last(fs).mode = "Unnamed"
<1> DEFINE n == Len(D)
           m == Len(fs)
           a == Around(D, n + 1)
<1>1. /\ n \in Nat /\ DOMAIN D = 1..n /\ n + 1 \in Nat \ {0} /\ n + 1 - 1 = n
      /\ m \in Nat /\ m # 0 /\ Last(fs) = fs[m]
  BY LenProperties, EmptySeq DEF Nested, Last
<1>2. /\ a \in 0..n
      /\ a # 0 => Encloses(D, a, n + 1)
      /\ \A j \in 1..n : Encloses(D, j, n + 1) => j <= a
  <2> HIDE DEF a
  <2>1. QED
    BY <1>1, AroundIs DEF a
<1>3. \A k \in 0..n : Depth(D, k) \in Int /\ Depth(D, k) >= 0
  <2> SUFFICES ASSUME NEW k \in 0..n
               PROVE  Depth(D, k) \in Int /\ Depth(D, k) >= 0
    OBVIOUS
  <2>1. Depth(D, k) \in Int /\ (k = 0 => Depth(D, k) = 0)
    BY <1>1, DepthIs
  <2>2. k # 0 => Depth(D, k) >= 0
    BY <1>1 DEF Viable
  <2>3. QED
    BY <2>1, <2>2
<1>4. \A j \in 1..n : D[j].type \in Openers => Depth(D, j) = Depth(D, j - 1) + 1
  BY <1>1, OpenerDeepens
<1>5. CASE m = 1
  <2>1. Depth(D, n) = 0 /\ fs[m].mode = "Named"
    BY <1>1, <1>5 DEF Nested
  <2>2. a = 0
    <3>1. SUFFICES ASSUME a # 0
                   PROVE  FALSE
      OBVIOUS
    <3>2. /\ a \in 1..n /\ a - 1 \in 0..n /\ n \in a..n
          /\ D[a].type \in Openers /\ Depth(D, n) >= Depth(D, a)
      BY <1>1, <1>2, <3>1 DEF Encloses
    <3> HIDE DEF a, n, m
    <3>3. QED
      BY <1>3, <1>4, <2>1, <3>2
  <2>3. QED
    BY <1>1, <2>1, <2>2 DEF InList
<1>6. CASE m # 1
  <2>1. PICK j \in 1..n :
           /\ D[j].type \in Openers /\ (D[j].type = "LBracket" <=> fs[m].mode = "Unnamed")
           /\ Depth(D, j) = m - 1
           /\ \A i \in j..n : Depth(D, i) >= m - 1
    <3>1. m \in 2..m
      <4> HIDE DEF m, n, a
      <4>1. QED
        BY <1>1, <1>6
    <3>2. QED
      BY <3>1 DEF Nested, Opened
  <2>2. Encloses(D, j, n + 1)
    BY <1>1, <2>1 DEF Encloses
  <2>3. a = j
    <3>1. SUFFICES ASSUME a # j
                   PROVE  FALSE
      OBVIOUS
    <3>2. j <= a /\ a # 0
      BY <1>2, <2>2
    <3>3. /\ a \in 1..n /\ a - 1 \in j..n /\ n \in a..n
          /\ D[a].type \in Openers /\ Depth(D, n) >= Depth(D, a)
      <4>1. Encloses(D, a, n + 1)
        BY <1>2, <3>2
      <4> HIDE DEF a
      <4>2. QED
        BY <1>1, <1>2, <2>1, <3>1, <3>2, <4>1 DEF Encloses
    <3>4. Depth(D, a - 1) >= m - 1 /\ Depth(D, a - 1) \in Int
      <4>1. a - 1 \in 0..n
        BY <1>1, <3>3
      <4>2. QED
        BY <1>3, <2>1, <3>3, <4>1
    <3>5. Depth(D, a) = Depth(D, a - 1) + 1 /\ Depth(D, n) = m - 1
      BY <1>4, <3>3 DEF Nested
    <3> HIDE DEF a, n, m
    <3>6. QED
      BY <1>1, <3>3, <3>4, <3>5
  <2>4. QED
    BY <1>1, <2>1, <2>3 DEF InList
<1>7. QED
  BY <1>5, <1>6

\* The tokens an activation expects are those that a document goes on with.
LEMMA ExpectedFits ==
    ASSUME NEW D \in Seq(Token), Begun(D, frames), NEW token \in Token
    PROVE  Fits(D, token) <=> /\ token.type \in Expected
                              /\ token.type \in Closers => Len(frames) > 1
                              /\ token.type = "EndOfFile" => Len(frames) = 1
<1> DEFINE n    == Len(D)
           type == token.type
<1>1. /\ Len(frames) \in Nat /\ Len(frames) # 0 /\ Top \in Frame
      /\ Depth(D, n) = Len(frames) - 1
  BY FrontAndLast, EmptySeq DEF Begun, Nested, Top
<1>2. /\ Top.want = "equal" <=> Follows(D, n + 1, {"Identifier"})
      /\ Top.want = "value" <=> Follows(D, n + 1, {"Equal"})
      /\ InList(D, n + 1) <=> Top.mode = "Unnamed"
  BY InListByMode DEF Begun, Awaits, Top
<1>3. Top.want \in {"item", "equal", "value"} /\ Top.mode \in {"Named", "Unnamed"}
  BY <1>1 DEF Frame
<1>4. type \in {"Identifier", "Value", "Comment", "LBrace", "LBracket", "RBrace", "RBracket",
                "Equal", "EndOfFile", "Bad"}
  BY DEF Token, Openers, Closers
<1>5. /\ (type \in Closers => Depth(D, n) > 0) <=> (type \in Closers => Len(frames) > 1)
      /\ (type = "EndOfFile" => Depth(D, n) = 0) <=> (type = "EndOfFile" => Len(frames) = 1)
  BY <1>1
<1> DEFINE Rest ==
        /\ type # "Bad"
        /\ type = "Equal" <=> Top.want = "equal"
        /\ type = "Identifier" => Top.mode # "Unnamed"
        /\ type \in ItemTokens \ {"Comment"} => Top.mode = "Unnamed" \/ Top.want = "value"
        /\ type \notin ItemTokens => Top.want # "value"
<1>6. Fits(D, token) <=> /\ Rest
                         /\ type \in Closers => Len(frames) > 1
                         /\ type = "EndOfFile" => Len(frames) = 1
  <2> HIDE DEF n, type
  <2>1. QED
    BY <1>2, <1>5 DEF Fits, n, type
<1>7. Rest <=> type \in Expected
  <2> HIDE DEF n, type
  <2>1. CASE Top.want = "equal"
    BY <1>4, <2>1 DEF Expected, ItemTokens, Openers
  <2>2. CASE Top.want = "value"
    BY <1>4, <2>2 DEF Expected, ItemTokens, Openers
  <2>3. CASE Top.want = "item" /\ Top.mode = "Named"
    BY <1>4, <2>3 DEF Expected, ItemTokens, Openers, Closers
  <2>4. CASE Top.want = "item" /\ Top.mode = "Unnamed"
    BY <1>4, <2>4 DEF Expected, ItemTokens, Openers, Closers
  <2>5. QED
    BY <1>3, <2>1, <2>2, <2>3, <2>4
<1>8. QED
  BY <1>6, <1>7

\* Reading a token that fits, the parser has begun what it read with the token
\* when it opens and closes activations as the token opens and closes brackets.
LEMMA BegunMore ==
    ASSUME NEW D \in Seq(Token), NEW token \in Token, token.type # "EndOfFile",
           NEW fs, Begun(D, fs), Fits(D, token),
           NEW gs \in Seq(Frame), gs # <<>>,
           Len(gs) = CASE token.type \in Openers -> Len(fs) + 1
                       [] token.type \in Closers -> Len(fs) - 1
                       [] OTHER -> Len(fs),
           \A k \in 1..Len(gs) : k <= Len(fs) => gs[k].mode = fs[k].mode,
           token.type \in Openers => (token.type = "LBracket" <=> Last(gs).mode = "Unnamed"),
           Last(gs).want = "equal" <=> token.type = "Identifier",
           Last(gs).want = "value" <=> token.type = "Equal"
    PROVE  Begun(Append(D, token), gs)
<1> DEFINE n == Len(D)
           E == Append(D, token)
           l == Len(fs)
           m == Len(gs)
<1>1. /\ n \in Nat /\ Len(E) = n + 1 /\ E[n + 1] = token /\ \A k \in 1..n : E[k] = D[k]
      /\ l \in Nat /\ l # 0 /\ m \in Nat /\ m # 0 /\ Last(gs) = gs[m]
  BY LenProperties, AppendKeeps, EmptySeq DEF Begun, Nested, Last
<1>2. /\ \A k \in 0..n : Depth(E, k) = Depth(D, k)
      /\ Depth(E, n + 1) = CASE token.type \in Openers -> Depth(D, n) + 1
                             [] token.type \in Closers -> Depth(D, n) - 1
                             [] OTHER -> Depth(D, n)
  BY DepthMore
<1>3. Depth(D, n) = l - 1 /\ Depth(E, n + 1) = m - 1
  BY <1>1, <1>2 DEF Begun, Nested
<1>4. Viable(E)
  BY ViableMore DEF Begun
<1>5. Endless(E)
  BY <1>1 DEF Endless, Begun
<1>6. gs[1].mode = "Named"
  BY <1>1, SMTT(30) DEF Begun, Nested
<1>7. ASSUME NEW k \in 2..m, k <= l
      PROVE  Opened(E, k, gs[k].mode)
  <2>1. gs[k].mode = fs[k].mode /\ k \in 2..l
    BY <1>1, <1>7
  <2>2. PICK j \in 1..n :
           /\ D[j].type \in Openers /\ (D[j].type = "LBracket" <=> fs[k].mode = "Unnamed")
           /\ Depth(D, j) = k - 1
           /\ \A i \in j..n : Depth(D, i) >= k - 1
    BY <2>1 DEF Begun, Nested, Opened
  <2>3. /\ j \in 1..(n + 1) /\ E[j] = D[j] /\ Depth(E, j) = Depth(D, j)
    BY <1>1, <1>2
  <2>4. ASSUME NEW i \in j..(n + 1)
        PROVE  Depth(E, i) >= k - 1
    <3>1. CASE i = n + 1
      BY <1>1, <1>3, <1>7, <3>1
    <3>2. CASE i # n + 1
      <4>1. i \in 0..n /\ i \in j..n
        BY <1>1, <3>2
      <4>2. QED
        BY <1>2, <2>2, <4>1
    <3>3. QED
      BY <3>1, <3>2
  <2> HIDE DEF n, E, l, m
  <2>5. QED
    BY <1>1, <2>1, <2>2, <2>3, <2>4 DEF Opened
<1>8. ASSUME NEW k \in 2..m, k > l
      PROVE  Opened(E, k, gs[k].mode)
  <2>1. token.type \in Openers /\ m = l + 1 /\ k = m
    <3>1. m = CASE token.type \in Openers -> l + 1
                [] token.type \in Closers -> l - 1
                [] OTHER -> l
      OBVIOUS
    <3> HIDE DEF l, m
    <3>2. QED
      BY <1>1, <1>8, <3>1
  <2>2. /\ E[n + 1].type \in Openers
        /\ E[n + 1].type = "LBracket" <=> gs[k].mode = "Unnamed"
        /\ Depth(E, n + 1) = k - 1
    BY <1>1, <1>3, <2>1
  <2>3. \A i \in (n + 1)..(n + 1) : i = n + 1
    BY <1>1
  <2>4. n + 1 \in 1..(n + 1) /\ k - 1 \in Int /\ \A i \in (n + 1)..(n + 1) : Depth(E, i) >= k - 1
    BY <1>1, <2>2, <2>3
  <2> HIDE DEF n, E, l, m
  <2>5. QED
    BY <1>1, <2>2, <2>4 DEF Opened
<1>9. Nested(E, gs)
  <2> HIDE DEF n, E, l, m
  <2>1. \A k \in 2..m : k <= l \/ k > l
    BY <1>1
  <2>2. \A k \in 2..m : Opened(E, k, gs[k].mode)
    BY <1>7, <1>8, <2>1
  <2>3. QED
    BY <1>1, <1>3, <1>6, <2>2 DEF Nested, m
<1>10. \A T : Follows(E, n + 2, T) <=> token.type \in T
  BY <1>1 DEF Follows
<1>11. Awaits(E, Last(gs))
  <2>1. Len(E) + 1 = n + 2
    BY <1>1
  <2> HIDE DEF n, E, l, m
  <2>2. QED
    BY <1>10, <2>1 DEF Awaits
<1>12. QED
  BY <1>4, <1>5, <1>9, <1>11 DEF Begun

\* The innermost activation goes round its loop, or waits for something else.
LEMMA AgainKeepsModes ==
    ASSUME NEW fs \in Seq(Frame), fs # <<>>, NEW f \in Frame, f.mode = Last(fs).mode,
           NEW gs, gs = Append(Front(fs), f)
    PROVE  /\ gs \in Seq(Frame) /\ gs # <<>> /\ Len(gs) = Len(fs) /\ Last(gs) = f
           /\ \A k \in 1..Len(gs) : k <= Len(fs) => gs[k].mode = fs[k].mode
<1> DEFINE n == Len(fs)
<1>1. /\ n \in Nat /\ n \in 1..n /\ Last(fs) = fs[n]
      /\ Front(fs) \in Seq(Frame) /\ Len(Front(fs)) = n - 1
      /\ \A k \in 1..(n - 1) : Front(fs)[k] = fs[k]
  BY FrontAndLast
<1>2. /\ gs \in Seq(Frame) /\ Len(gs) = n - 1 + 1 /\ gs[n - 1 + 1] = f
      /\ \A k \in 1..(n - 1) : gs[k] = Front(fs)[k]
  BY <1>1, AppendKeeps
<1>3. Len(gs) = n /\ gs[n] = f /\ \A k \in 1..(n - 1) : gs[k] = fs[k]
  BY <1>1, <1>2
<1>4. gs # <<>>
  BY <1>1, <1>3, EmptySeq
<1>5. \A k \in 1..n : k = n \/ k \in 1..(n - 1)
  BY <1>1
<1>6. QED
  BY <1>1, <1>2, <1>3, <1>4, <1>5 DEF Last

\* An Add of the parser lets an exception out of the read, or the innermost
\* activation goes round its loop.
LEMMA DeliverAgain ==
    ASSUME NEW h, NEW x, NEW fs \in Seq(Frame), fs # <<>>, Deliver(h, x, fs)
    PROVE  \/ phase' = "idle"
           \/ /\ phase' = phase
              /\ frames' \in Seq(Frame) /\ frames' # <<>> /\ Len(frames') = Len(fs)
              /\ \A k \in 1..Len(frames') : k <= Len(fs) => frames'[k].mode = fs[k].mode
              /\ Last(frames').want = "item"
<1> DEFINE f == NewFrame(Last(fs).at, Last(fs).mode)
<1>1. f \in Frame /\ f.mode = Last(fs).mode /\ f.want = "item"
  <2>1. Last(fs) \in Frame
    BY FrontAndLast
  <2>2. QED
    BY <2>1 DEF Frame, NewFrame, AnyName
<1>2. \/ phase' = "idle"
      \/ phase' = phase /\ frames' = Append(Front(fs), f)
  BY DEF Deliver, Finish
<1> HIDE DEF f
<1>3. QED
  BY <1>1, <1>2, AgainKeepsModes

\* What the parser has read is the beginning of a document as its activations
\* stand; when it is done it is a document, and when it has failed it is none.
Grammatical ==
    /\ phase = "before" => read = <<>>
    /\ phase = "parse" => Begun(read, frames)
    /\ phase = "after" => IsDocument(read)
    /\ phase = "failed" => ~Viable(read)

LEMMA BegunEmpty ==
    ASSUME NEW D, D = <<>>
    PROVE  Begun(D, <<NewFrame(Root, "Named")>>)
<1> DEFINE f  == NewFrame(Root, "Named")
           fs == <<f>>
<1>1. f \in Frame /\ f.mode = "Named" /\ f.want = "item"
  BY ReadAssumption DEF NewFrame, Frame, Addresses, AnyName
<1> HIDE DEF f
<1>2. fs \in Seq(Frame) /\ Len(fs) = 1 /\ fs[1] = f /\ fs # <<>>
  BY <1>1
<1>3. Len(D) = 0 /\ DOMAIN D = {}
  OBVIOUS
<1>4. Depth(D, 0) = 0
  BY DepthIs
<1>5. Nested(D, fs)
  <2> HIDE DEF fs
  <2>1. QED
    BY <1>1, <1>2, <1>3, <1>4 DEF Nested
<1>6. Last(fs) = f
  BY <1>2 DEF Last
<1>7. Awaits(D, f)
  BY <1>1, <1>3 DEF Awaits, Follows
<1>8. Viable(D) /\ Endless(D)
  BY <1>3 DEF Viable, Endless
<1> HIDE DEF fs
<1>9. Begun(D, fs)
  BY <1>5, <1>6, <1>7, <1>8 DEF Begun
<1>10. QED
  BY <1>9 DEF fs, f

\* A token is read.
LEMMA ConsumeBegun ==
    ASSUME ReadSound, Grammatical, NEW token \in Token, Consume(token)
    PROVE  /\ phase = "parse" /\ read \in Seq(Token) /\ read' = Append(read, token)
           /\ Begun(read, frames) /\ level = Len(frames) - 1
           /\ frames \in Seq(Frame) /\ frames # <<>> /\ Len(frames) \in Nat
           /\ Top = frames[Len(frames)] /\ Top \in Frame
           /\ Viable(read') <=> Fits(read, token)
           /\ Fits(read, token) <=> /\ token.type \in Expected
                                    /\ token.type \in Closers => Len(frames) > 1
                                    /\ token.type = "EndOfFile" => Len(frames) = 1
<1>1. /\ phase = "parse" /\ read \in Seq(Token) /\ read' = Append(read, token)
      /\ frames \in Seq(Frame) /\ frames # <<>> /\ level = Len(frames) - 1
  BY DEF ReadSound, Control, Stacked, Consume
<1>2. Begun(read, frames)
  BY <1>1 DEF Grammatical
<1>3. Viable(read') <=> Fits(read, token)
  BY <1>1, <1>2, ViableMore DEF Begun
<1>4. Fits(read, token) <=> /\ token.type \in Expected
                            /\ token.type \in Closers => Len(frames) > 1
                            /\ token.type = "EndOfFile" => Len(frames) = 1
  BY <1>1, <1>2, ExpectedFits
<1>5. Len(frames) \in Nat /\ Top = frames[Len(frames)] /\ Top \in Frame
  BY <1>1, FrontAndLast DEF Top
<1>6. QED
  BY <1>1, <1>2, <1>3, <1>4, <1>5

\* A token that does not fit fails the parse, and only such a token does.
LEMMA FailGrammatical ==
    ASSUME ReadSound, Grammatical, NEW token \in Token, Consume(token), Fail,
           ~Fits(read, token)
    PROVE  Grammatical'
<1>1. phase' = "failed" /\ ~Viable(read')
  BY ConsumeBegun DEF Fail
<1>2. QED
  BY <1>1 DEF Grammatical

\* The parse goes on.
LEMMA GoesOnGrammatical ==
    ASSUME ReadSound, Grammatical, NEW token \in Token, Consume(token),
           Fits(read, token), token.type # "EndOfFile",
           \/ phase' = "idle"
           \/ /\ phase' = phase
              /\ frames' \in Seq(Frame) /\ frames' # <<>>
              /\ Len(frames') = CASE token.type \in Openers -> Len(frames) + 1
                                  [] token.type \in Closers -> Len(frames) - 1
                                  [] OTHER -> Len(frames)
              /\ \A k \in 1..Len(frames') : k <= Len(frames) => frames'[k].mode = frames[k].mode
              /\ token.type \in Openers =>
                    (token.type = "LBracket" <=> Last(frames').mode = "Unnamed")
              /\ Last(frames').want = "equal" <=> token.type = "Identifier"
              /\ Last(frames').want = "value" <=> token.type = "Equal"
    PROVE  Grammatical'
<1>1. phase = "parse" /\ read \in Seq(Token) /\ Begun(read, frames) /\ read' = Append(read, token)
  BY ConsumeBegun
<1>2. CASE phase' = "idle"
  BY <1>2 DEF Grammatical
<1>3. CASE phase' # "idle"
  <2>1. Begun(Append(read, token), frames')
    <3> DEFINE gs == frames'
    <3>1. /\ gs \in Seq(Frame) /\ gs # <<>>
          /\ Len(gs) = CASE token.type \in Openers -> Len(frames) + 1
                          [] token.type \in Closers -> Len(frames) - 1
                          [] OTHER -> Len(frames)
          /\ \A k \in 1..Len(gs) : k <= Len(frames) => gs[k].mode = frames[k].mode
          /\ token.type \in Openers => (token.type = "LBracket" <=> Last(gs).mode = "Unnamed")
          /\ Last(gs).want = "equal" <=> token.type = "Identifier"
          /\ Last(gs).want = "value" <=> token.type = "Equal"
      BY <1>3
    <3> HIDE DEF gs
    <3>2. Begun(Append(read, token), gs)
      BY <1>1, <3>1, BegunMore
    <3>3. QED
      BY <3>2 DEF gs
  <2>2. QED
    BY <1>1, <1>3, <2>1 DEF Grammatical
<1>4. QED
  BY <1>2, <1>3

LEMMA TypesDiffer ==
    /\ Openers \cap Closers = {} /\ Openers \subseteq ItemTokens
    /\ Closers \cap ItemTokens = {}
    /\ \A t \in {"Identifier", "Equal", "EndOfFile", "Value", "Comment"} :
          t \notin Openers /\ t \notin Closers
BY DEF Openers, Closers, ItemTokens

LEMMA UnexpectedGrammatical ==
    ASSUME ReadSound, Grammatical, NEW token \in Token, Unexpected(token)
    PROVE  Grammatical'
<1>1. Consume(token) /\ token.type \notin Expected /\ Fail
  BY DEF Unexpected
<1>2. ~Fits(read, token)
  BY <1>1, ConsumeBegun
<1>3. QED
  BY <1>1, <1>2, FailGrammatical

LEMMA AwaitGrammatical ==
    ASSUME ReadSound, Grammatical, NEW token \in Token, ReadName(token) \/ ReadEqual(token)
    PROVE  Grammatical'
<1>1. /\ Consume(token) /\ token.type \in {"Identifier", "Equal"} /\ token.type \in Expected
      /\ UNCHANGED phase
  BY DEF ReadName, ReadEqual, Await
<1>2. PICK want \in {"equal", "value"}, name \in AnyName :
         /\ frames' = Append(Front(frames), Wanting(Top, want, name))
         /\ want = "equal" <=> token.type = "Identifier"
  <2>1. Top.name \in AnyName
    BY <1>1, ConsumeBegun DEF Frame
  <2>2. CASE ReadName(token)
    <3>1. token.text \in AnyName
      BY <2>2 DEF ReadName, Token, Openers, Closers, AnyName
    <3>2. QED
      BY <2>2, <3>1 DEF ReadName, Await
  <2>3. CASE ReadEqual(token)
    BY <2>1, <2>3 DEF ReadEqual, Await
  <2>4. QED
    BY <2>2, <2>3
<1> DEFINE f == Wanting(Top, want, name)
<1>3. f \in Frame /\ f.mode = Top.mode /\ f.want = want
  BY <1>1, ConsumeBegun DEF Frame, Wanting
<1>4. /\ frames \in Seq(Frame) /\ frames # <<>> /\ Top = Last(frames)
      /\ frames' = Append(Front(frames), f)
  BY <1>1, <1>2, ConsumeBegun DEF Top
<1> HIDE DEF f
<1>5. /\ frames' \in Seq(Frame) /\ frames' # <<>> /\ Len(frames') = Len(frames)
      /\ Last(frames') = f
      /\ \A k \in 1..Len(frames') : k <= Len(frames) => frames'[k].mode = frames[k].mode
  BY <1>3, <1>4, AgainKeepsModes, ZenonT(30)
<1>6. Fits(read, token)
  BY <1>1, ConsumeBegun, TypesDiffer
<1>7. QED
  BY <1>1, <1>2, <1>3, <1>5, <1>6, TypesDiffer, GoesOnGrammatical

LEMMA ReadItemGrammatical ==
    ASSUME ReadSound, Grammatical, NEW token \in Token, NEW x \in Ids, ReadItem(token, x)
    PROVE  Grammatical'
<1>1. /\ Consume(token) /\ token.type \in {"Value", "Comment"} /\ token.type \in Expected
      /\ Deliver([heap EXCEPT ![x] = NewItem(token.type, Top.name, token.text)], x, frames)
  BY DEF ReadItem, AddItem
<1>2. Fits(read, token) /\ frames \in Seq(Frame) /\ frames # <<>>
  BY <1>1, ConsumeBegun, TypesDiffer
<1>3. \/ phase' = "idle"
      \/ /\ phase' = phase
         /\ frames' \in Seq(Frame) /\ frames' # <<>> /\ Len(frames') = Len(frames)
         /\ \A k \in 1..Len(frames') : k <= Len(frames) => frames'[k].mode = frames[k].mode
         /\ Last(frames').want = "item"
  BY <1>1, <1>2, DeliverAgain
<1>4. QED
  BY <1>1, <1>2, <1>3, TypesDiffer, GoesOnGrammatical

LEMMA OpenContainerGrammatical ==
    ASSUME ReadSound, Grammatical, NEW token \in Token, NEW x \in Ids, OpenContainer(token, x)
    PROVE  Grammatical'
<1>1. /\ Consume(token) /\ token.type \in Openers /\ token.type \in Expected
      /\ UNCHANGED phase
  BY DEF OpenContainer
<1>2. PICK mode \in {"Named", "Unnamed"} :
         /\ mode = "Unnamed" <=> token.type = "LBracket"
         /\ frames' = Append(frames, NewFrame(x, mode))
  BY DEF OpenContainer
<1> DEFINE f == NewFrame(x, mode)
<1>3. f \in Frame /\ f.mode = mode /\ f.want = "item"
  BY DEF NewFrame, Frame, Addresses, AnyName
<1> HIDE DEF f
<1>4. /\ frames \in Seq(Frame) /\ frames' = Append(frames, f)
      /\ Fits(read, token)
  BY <1>1, <1>2, ConsumeBegun, TypesDiffer DEF f
<1>5. /\ frames' \in Seq(Frame) /\ Len(frames) \in Nat /\ Len(frames') = Len(frames) + 1
      /\ frames'[Len(frames) + 1] = f
      /\ \A k \in 1..Len(frames) : frames'[k] = frames[k]
  BY <1>3, <1>4, AppendKeeps, LenProperties
<1>6. frames' # <<>> /\ Last(frames') = f
  BY <1>5, EmptySeq DEF Last
<1>7. token.type \notin {"Identifier", "Equal", "EndOfFile"}
  BY <1>1, TypesDiffer
<1>8. \A k \in 1..Len(frames') : k <= Len(frames) => frames'[k].mode = frames[k].mode
  BY <1>5
<1>9. QED
  BY <1>1, <1>2, <1>3, <1>4, <1>5, <1>6, <1>7, <1>8, TypesDiffer, GoesOnGrammatical

LEMMA CloseContainerGrammatical ==
    ASSUME ReadSound, Grammatical, NEW token \in Token, CloseContainer(token)
    PROVE  Grammatical'
<1>1. Consume(token) /\ token.type \in Closers /\ token.type \in Expected
  BY DEF CloseContainer
<1>2. /\ level = Len(frames) - 1 /\ frames \in Seq(Frame) /\ frames # <<>>
      /\ Len(frames) \in Nat
      /\ Fits(read, token) <=> Len(frames) > 1
  BY <1>1, ConsumeBegun, TypesDiffer
<1>3. CASE level = 0 /\ Fail
  <2>1. ~Fits(read, token)
    <3>1. ~(Len(frames) > 1)
      BY <1>2, <1>3
    <3>2. QED
      BY <1>2, <3>1
  <2>2. QED
    BY <1>1, <1>3, <2>1, FailGrammatical
<1>4. CASE level > 0 /\ Deliver([heap EXCEPT ![Top.at].name = Last(Front(frames)).name],
                               Top.at, Front(frames))
  <2> DEFINE fs == Front(frames)
             g  == [heap EXCEPT ![Top.at].name = Last(Front(frames)).name]
             x  == Top.at
  <2>1. /\ fs \in Seq(Frame) /\ Len(fs) = Len(frames) - 1
        /\ \A k \in 1..(Len(frames) - 1) : fs[k] = frames[k]
    BY <1>2, FrontAndLast
  <2>2. fs # <<>>
    BY <1>2, <1>4, <2>1, EmptySeq
  <2>3. Deliver(g, x, fs)
    BY <1>4
  <2> HIDE DEF fs, g, x
  <2>4. \/ phase' = "idle"
        \/ /\ phase' = phase
           /\ frames' \in Seq(Frame) /\ frames' # <<>> /\ Len(frames') = Len(fs)
           /\ \A k \in 1..Len(frames') : k <= Len(fs) => frames'[k].mode = fs[k].mode
           /\ Last(frames').want = "item"
    BY <2>1, <2>2, <2>3, DeliverAgain
  <2>5. \/ phase' = "idle"
        \/ /\ phase' = phase
           /\ frames' \in Seq(Frame) /\ frames' # <<>> /\ Len(frames') = Len(frames) - 1
           /\ \A k \in 1..Len(frames') : k <= Len(frames) => frames'[k].mode = frames[k].mode
           /\ Last(frames').want = "item"
    BY <1>2, <2>1, <2>4
  <2>6. Fits(read, token)
    BY <1>2, <1>4
  <2>7. token.type \notin {"Identifier", "Equal", "EndOfFile"} /\ token.type \notin Openers
    BY <1>1, TypesDiffer
  <2>8. QED
    BY <1>1, <2>5, <2>6, <2>7, GoesOnGrammatical
<1>5. QED
  BY <1>3, <1>4 DEF CloseContainer

LEMMA EndDocumentGrammatical ==
    ASSUME ReadSound, Grammatical, NEW token \in Token, EndDocument(token)
    PROVE  Grammatical'
<1>1. Consume(token) /\ token.type = "EndOfFile" /\ token.type \in Expected
  BY DEF EndDocument
<1>2. /\ level = Len(frames) - 1 /\ Len(frames) \in Nat
      /\ Fits(read, token) <=> Len(frames) = 1
      /\ Viable(read') <=> Fits(read, token)
      /\ read \in Seq(Token) /\ read' = Append(read, token)
  BY <1>1, ConsumeBegun, TypesDiffer
<1>3. CASE level > 0 /\ Fail
  <2>1. ~Fits(read, token)
    BY <1>2, <1>3
  <2>2. QED
    BY <1>1, <1>3, <2>1, FailGrammatical
<1>4. CASE level = 0 /\ phase' = "after"
  <2>1. Viable(read')
    BY <1>2, <1>4
  <2>2. /\ Len(read) \in Nat /\ read' \in Seq(Token) /\ Len(read') = Len(read) + 1
        /\ read'[Len(read) + 1] = token
    BY <1>2, LenProperties, AppendKeeps
  <2>3. read' # <<>> /\ Last(read') = token
    BY <2>2, EmptySeq DEF Last
  <2>4. QED
    BY <1>1, <1>4, <2>1, <2>3 DEF Grammatical, IsDocument
<1>5. QED
  BY <1>3, <1>4 DEF EndDocument

LEMMA GrammaticalStep ==
    ASSUME ReadSound, Grammatical, [Next]_vars
    PROVE  Grammatical'
<1>1. CASE Client
  BY <1>1 DEF Client, OnExistingAction, AddHookBeforeRead, AddHookAfterRead, OnParseFailure,
              Idle, Grammatical
<1>2. CASE StartRead
  BY <1>2 DEF StartRead, Grammatical
<1>3. CASE Hooks
  <2>1. CASE CallHook("before", before) \/ CallHook("after", after)
    <3>1. /\ phase \in {"before", "after"} /\ UNCHANGED read
          /\ phase' = phase \/ phase' = "idle"
      BY <2>1 DEF CallHook, HookBody, HookReturns, HookAdds, HookThrows, Finish
    <3>2. QED
      BY <3>1 DEF Grammatical
  <2>2. CASE ReportFailure
    <3>1. phase' = "idle"
      BY <2>2 DEF ReportFailure, Finish
    <3>2. QED
      BY <3>1 DEF Grammatical
  <2>3. QED
    BY <1>3, <2>1, <2>2 DEF Hooks
<1>4. CASE StartParse
  <2>1. /\ phase = "before" /\ phase' = "parse" /\ UNCHANGED read
        /\ frames' = <<NewFrame(Root, "Named")>>
    BY <1>4 DEF StartParse
  <2>2. read = <<>>
    BY <2>1 DEF Grammatical
  <2>3. Begun(read, <<NewFrame(Root, "Named")>>)
    BY <2>2, BegunEmpty
  <2>4. Begun(read', frames')
    BY <2>1, <2>3
  <2>5. QED
    BY <2>1, <2>4 DEF Grammatical
<1>5. CASE ReadToken
  <2>1. PICK token \in Token :
           \/ Unexpected(token) \/ ReadName(token) \/ ReadEqual(token)
           \/ \E x \in Ids : ReadItem(token, x) \/ OpenContainer(token, x)
           \/ CloseContainer(token) \/ EndDocument(token)
    BY <1>5 DEF ReadToken
  <2>2. QED
    BY <2>1, UnexpectedGrammatical, AwaitGrammatical, ReadItemGrammatical,
       OpenContainerGrammatical, CloseContainerGrammatical, EndDocumentGrammatical
<1>6. CASE EndRead
  BY <1>6 DEF EndRead, Finish, Grammatical
<1>7. CASE UNCHANGED vars
  BY <1>7 DEF vars, Grammatical
<1>8. QED
  BY <1>1, <1>2, <1>3, <1>4, <1>5, <1>6, <1>7 DEF Next, ReadStep

LEMMA GrammarHolds == Spec => []Grammatical
<1>1. Init => Grammatical
  BY DEF Init, Grammatical
<1>2. QED
  BY <1>1, GrammaticalStep, ReadSoundness, PTL DEF Spec

\* The parser accepts exactly the documents: it goes on while what it has read
\* begins one, calls the after hooks for a document only, and fails at the first
\* token that no document goes on with (Parser::Parse).
THEOREM ParserDecides == Spec => []GrammarDecides
<1>1. Grammatical => GrammarDecides
  BY DEF Grammatical, GrammarDecides, Begun
<1>2. QED
  BY <1>1, GrammarHolds, PTL

-----------------------------------------------------------------------------
(* The hooks a read calls *)

\* What is told of the calls of hooks.
Call  == {"before", "after", "failure"} \X Nat
Calls == Seq(Call)

\* The calls of the first k hooks are those of the hooks before the k-th, and its
\* own unless it is empty.
LEMMA CalledSoFarIs ==
    ASSUME NEW when \in {"before", "after"}, NEW hooks \in Seq({"null", "hook"})
    PROVE  LET called == CalledSoFar(when, hooks)
           IN  /\ called[0] = <<>>
               /\ \A k \in 0..Len(hooks) : called[k] \in Calls
               /\ \A k \in 1..Len(hooks) :
                     called[k] = IF hooks[k] = "hook" THEN Append(called[k - 1], <<when, k>>)
                                                      ELSE called[k - 1]
<1> DEFINE n    == Len(hooks)
           none == <<>>
           step == [k \in 1..n |-> [s \in Calls |-> IF hooks[k] = "hook" THEN Append(s, <<when, k>>)
                                                                        ELSE s]]
           Is(f) == f = [k \in 0..n |-> IF k = 0 THEN none
                                        ELSE IF hooks[k] = "hook"
                                             THEN Append(f[k - 1], <<when, k>>)
                                        ELSE f[k - 1]]
<1>1. n \in Nat
  BY LenProperties
<1>2. none \in Calls
  BY EmptySeq DEF Calls
<1>3. step \in [1..n -> [Calls -> Calls]]
  <2>1. ASSUME NEW k \in 1..n, NEW s \in Calls
        PROVE  Append(s, <<when, k>>) \in Calls
    <3>1. <<when, k>> \in Call
      BY <1>1 DEF Call
    <3>2. QED
      BY <3>1, AppendProperties DEF Calls
  <2>2. QED
    BY <2>1
<1>4. PICK f : Iterates(f, n, Calls, none, step)
  <2> HIDE DEF none, step, n
  <2>1. QED
    BY <1>1, <1>2, <1>3, RecursionExists
<1>5. /\ f \in [0..n -> Calls] /\ f[0] = none
      /\ \A k \in 1..n : f[k] = step[k][f[k - 1]] /\ f[k - 1] \in Calls
  <2> HIDE DEF none, step, n
  <2>1. \A k \in 1..n : k - 1 \in 0..n
    BY <1>1
  <2>2. QED
    BY <1>4, <2>1 DEF Iterates
<1>6. ASSUME NEW k \in 1..n
      PROVE  f[k] = IF hooks[k] = "hook" THEN Append(f[k - 1], <<when, k>>) ELSE f[k - 1]
  <2>1. f[k] = step[k][f[k - 1]] /\ f[k - 1] \in Calls
    BY <1>5
  <2> HIDE DEF n
  <2>2. QED
    BY <2>1
<1>7. Is(f)
  <2> HIDE DEF none, step, n
  <2>1. ASSUME NEW k \in 0..n
        PROVE  f[k] = IF k = 0 THEN none
                      ELSE IF hooks[k] = "hook" THEN Append(f[k - 1], <<when, k>>)
                      ELSE f[k - 1]
    <3>1. k = 0 \/ k \in 1..n
      BY <1>1
    <3>2. QED
      BY <1>1, <1>5, <1>6, <3>1
  <2>2. f = [k \in 0..n |-> f[k]]
    BY <1>5
  <2>3. QED
    BY <2>1, <2>2
<1> DEFINE called == CalledSoFar(when, hooks)
<1>8. called = CHOOSE g : Is(g)
  BY DEF CalledSoFar
<1>9. Is(called)
  <2> HIDE DEF Is, called
  <2>1. QED
    BY <1>7, <1>8
<1> HIDE DEF called
<1>10. /\ called[0] = none
       /\ \A k \in 1..n : called[k] = IF hooks[k] = "hook" THEN Append(called[k - 1], <<when, k>>)
                                                           ELSE called[k - 1]
  <2> HIDE DEF none, n
  <2>1. 0 \in 0..n /\ \A k \in 1..n : k \in 0..n /\ k # 0
    BY <1>1
  <2>2. QED
    BY <1>9, <2>1
<1>11. \A k \in 0..n : called[k] \in Calls
  <2> DEFINE Bad == {k \in 0..n : called[k] \notin Calls}
  <2>1. SUFFICES ASSUME Bad # {}
                 PROVE  FALSE
    OBVIOUS
  <2>2. PICK k \in Bad : \A j \in Bad : k <= j
    <3>1. Bad \in SUBSET Nat
      OBVIOUS
    <3> HIDE DEF Bad
    <3>2. QED
      BY <2>1, <3>1, LeastElement
  <2>3. k # 0
    BY <1>2, <1>10, <2>2
  <2>4. k \in 1..n /\ k - 1 \in 0..n /\ called[k - 1] \in Calls
    BY <1>1, <2>2, <2>3
  <2>5. called[k] = step[k][called[k - 1]]
    BY <1>10, <2>4
  <2>6. called[k] \in Calls
    <3> HIDE DEF step
    <3>1. QED
      BY <1>3, <2>4, <2>5
  <2>7. QED
    BY <2>2, <2>6
<1>12. QED
  BY <1>10, <1>11 DEF called

LEMMA CallAppended ==
    ASSUME NEW s \in Calls, NEW u \in Calls, NEW e \in Call
    PROVE  Append(u, e) \in Calls /\ Append(s \o u, e) = s \o Append(u, e)
<1> DEFINE a == Append(s \o u, e)
           b == s \o Append(u, e)
<1> HIDE DEF Call
<1>1. s \in Seq(Call) /\ u \in Seq(Call)
  BY DEF Calls
<1>2. /\ s \o u \in Seq(Call) /\ Append(u, e) \in Seq(Call)
      /\ Len(s) \in Nat /\ Len(u) \in Nat
      /\ Len(s \o u) = Len(s) + Len(u) /\ Len(Append(u, e)) = Len(u) + 1
  BY <1>1, LenProperties, ConcatProperties, AppendProperties
<1>3. a \in Seq(Call) /\ b \in Seq(Call) /\ Len(a) = Len(b)
  BY <1>1, <1>2, ConcatProperties, AppendProperties
<1>4. \A i \in 1..Len(a) : a[i] = b[i]
  BY <1>1, <1>2
<1> HIDE DEF a, b
<1>5. a = b
  BY <1>3, <1>4, SeqEqual
<1>6. QED
  BY <1>2, <1>5 DEF a, b, Calls

LEMMA CallsConcat ==
    ASSUME NEW s \in Calls, NEW u \in Calls, NEW v \in Calls
    PROVE  s \o u \in Calls /\ (s \o u) \o v = s \o (u \o v)
<1> DEFINE a == (s \o u) \o v
           b == s \o (u \o v)
<1> HIDE DEF Call
<1>1. s \in Seq(Call) /\ u \in Seq(Call) /\ v \in Seq(Call)
  BY DEF Calls
<1>2. /\ s \o u \in Seq(Call) /\ u \o v \in Seq(Call)
      /\ Len(s) \in Nat /\ Len(u) \in Nat /\ Len(v) \in Nat
      /\ Len(s \o u) = Len(s) + Len(u) /\ Len(u \o v) = Len(u) + Len(v)
  BY <1>1, LenProperties, ConcatProperties
<1>3. /\ a \in Seq(Call) /\ b \in Seq(Call) /\ Len(a) = Len(b)
      /\ Len(a) = Len(s) + Len(u) + Len(v)
  BY <1>1, <1>2, ConcatProperties
<1>4. \A i \in 1..Len(a) : a[i] = b[i]
  BY <1>1, <1>2, <1>3
<1> HIDE DEF a, b
<1>5. a = b
  BY <1>3, <1>4, SeqEqual
<1>6. QED
  BY <1>2, <1>5 DEF a, b, Calls

LEMMA PrefixOfConcat ==
    ASSUME NEW S, NEW s \in Seq(S), NEW u \in Seq(S)
    PROVE  IsPrefix(s, s \o u)
<1> DEFINE t == s \o u
<1>1. /\ t \in Seq(S) /\ Len(s) \in Nat /\ Len(u) \in Nat /\ Len(t) = Len(s) + Len(u)
      /\ \A i \in 1..Len(s) : t[i] = s[i]
  BY LenProperties, ConcatProperties
<1>2. Len(s) <= Len(t)
  BY <1>1
<1>3. SubSeq(s, 1, Len(s)) = SubSeq(t, 1, Len(s))
  BY <1>1, <1>2
<1>4. QED
  BY <1>2, <1>3 DEF IsPrefix

\* The calls of the first hooks begin the calls of them all.
LEMMA CalledGrows ==
    ASSUME NEW when \in {"before", "after"}, NEW hooks \in Seq({"null", "hook"}),
           NEW k \in 0..Len(hooks)
    PROVE  \E u \in Calls : Called(when, hooks) = CalledSoFar(when, hooks)[k] \o u
<1> DEFINE n      == Len(hooks)
           called == CalledSoFar(when, hooks)
           Bad    == {m \in k..n : ~\E u \in Calls : called[m] = called[k] \o u}
<1>1. /\ n \in Nat /\ \A m \in 0..n : called[m] \in Calls
      /\ \A m \in 1..n : called[m] = IF hooks[m] = "hook" THEN Append(called[m - 1], <<when, m>>)
                                                         ELSE called[m - 1]
  BY LenProperties, CalledSoFarIs
<1> HIDE DEF called, n
<1>2. Bad = {}
  <2>1. SUFFICES ASSUME Bad # {}
                 PROVE  FALSE
    OBVIOUS
  <2>2. PICK m \in Bad : \A j \in Bad : m <= j
    <3>1. Bad \in SUBSET Nat
      BY <1>1 DEF n
    <3> HIDE DEF Bad
    <3>2. QED
      BY <2>1, <3>1, LeastElement
  <2>3. k \in 0..n /\ m \in k..n
    BY DEF n
  <2>4. called[k] \in Calls
    BY <1>1, <2>3
  <2>5. CASE m = k
    <3> DEFINE none == <<>>
    <3>1. none \in Calls /\ called[k] \o none = called[k]
      BY <2>4, EmptySeq, ConcatEmptySeq DEF Calls
    <3> HIDE DEF none
    <3>2. QED
      BY <2>2, <2>5, <3>1
  <2>6. CASE m # k
    <3>1. m \in 1..n /\ m - 1 \in k..n /\ m - 1 \in 0..n /\ ~(m <= m - 1)
      BY <1>1, <2>3, <2>6
    <3>2. m - 1 \notin Bad
      BY <2>2, <3>1
    <3>3. PICK u \in Calls : called[m - 1] = called[k] \o u
      BY <3>1, <3>2
    <3> DEFINE e == <<when, m>>
               v == IF hooks[m] = "hook" THEN Append(u, e) ELSE u
    <3>4. e \in Call
      BY <1>1, <3>1 DEF Call
    <3> HIDE DEF e
    <3>5. Append(u, e) \in Calls /\ Append(called[k] \o u, e) = called[k] \o Append(u, e)
      <4>1. u \in Calls
        BY <3>3
      <4> HIDE DEF Bad
      <4>2. QED
        BY <2>4, <3>4, <4>1, CallAppended
    <3>6. called[m] = IF hooks[m] = "hook" THEN Append(called[m - 1], e) ELSE called[m - 1]
      BY <1>1, <3>1 DEF e
    <3>7. v \in Calls /\ called[m] = called[k] \o v
      BY <3>3, <3>5, <3>6
    <3> HIDE DEF v
    <3>8. QED
      BY <2>2, <3>7
  <2>7. QED
    BY <2>5, <2>6
<1>3. n \in k..n
  BY <1>1 DEF n
<1>4. \E u \in Calls : called[n] = called[k] \o u
  BY <1>2, <1>3
<1>5. QED
  BY <1>4 DEF Called, called, n

\* The hooks called so far are those before the loop's position, in their order.
CallsInOrder ==
    /\ phase = "before" => /\ next \in 1..(Len(before) + 1)
                           /\ calls = CalledSoFar("before", before)[next - 1]
    /\ phase \in {"parse", "failed"} => calls = Called("before", before)
    /\ phase = "after" => /\ next \in 1..(Len(after) + 1)
                          /\ calls = Called("before", before)
                                       \o CalledSoFar("after", after)[next - 1]

\* One iteration of a loop over hooks.
LEMMA CallHookIs ==
    ASSUME ReadSound, NEW when, NEW hooks, CallHook(when, hooks)
    PROVE  /\ phase = when /\ next <= Len(hooks)
           /\ UNCHANGED <<before, after, onFailure, read>>
           /\ calls' = IF hooks[next] = "hook" THEN Append(calls, <<when, next>>) ELSE calls
           /\ \/ phase' = phase /\ next' = next + 1
              \/ /\ phase' = "idle" /\ hooks[next] = "hook"
                 /\ ret' \in AddErrors \cup {"HookException"}
BY DEF CallHook, HookBody, HookReturns, HookAdds, HookThrows, Finish, client

LEMMA TokenCalls ==
    ASSUME ReadToken
    PROVE  /\ phase = "parse" /\ UNCHANGED <<before, after, calls>>
           /\ \/ phase' \in {"parse", "failed"}
              \/ phase' = "after" /\ next' = 1
              \/ phase' = "idle" /\ ret' \in AddErrors
<1>1. PICK token \in Token :
         \/ Unexpected(token) \/ ReadName(token) \/ ReadEqual(token)
         \/ \E x \in Ids : ReadItem(token, x) \/ OpenContainer(token, x)
         \/ CloseContainer(token) \/ EndDocument(token)
  BY DEF ReadToken
<1>2. Consume(token)
  BY <1>1 DEF Unexpected, ReadName, ReadEqual, ReadItem, OpenContainer, CloseContainer, EndDocument
<1>3. phase = "parse" /\ UNCHANGED <<before, after, calls>>
  BY <1>2 DEF Consume, client
<1>4. \A h, x, fs : Deliver(h, x, fs) =>
         \/ phase' = phase
         \/ phase' = "idle" /\ ret' \in AddErrors
  BY DEF Deliver, Finish
<1>5. \/ phase' \in {"parse", "failed"}
      \/ phase' = "after" /\ next' = 1
      \/ phase' = "idle" /\ ret' \in AddErrors
  <2>1. CASE Unexpected(token) \/ ReadName(token) \/ ReadEqual(token)
    BY <1>3, <2>1 DEF Unexpected, ReadName, ReadEqual, Fail, Await
  <2>2. ASSUME NEW x \in Ids, ReadItem(token, x)
        PROVE  phase' = "parse" \/ (phase' = "idle" /\ ret' \in AddErrors)
    <3>1. Deliver([heap EXCEPT ![x] = NewItem(token.type, Top.name, token.text)], x, frames)
      BY <2>2 DEF ReadItem, AddItem
    <3>2. QED
      BY <1>3, <1>4, <3>1
  <2>3. ASSUME NEW x \in Ids, OpenContainer(token, x)
        PROVE  phase' = "parse"
    BY <1>3, <2>3 DEF OpenContainer
  <2>4. CASE CloseContainer(token)
    <3>1. CASE Fail
      BY <3>1 DEF Fail
    <3>2. CASE Deliver([heap EXCEPT ![Top.at].name = Last(Front(frames)).name],
                       Top.at, Front(frames))
      BY <1>3, <1>4, <3>2
    <3>3. QED
      BY <2>4, <3>1, <3>2 DEF CloseContainer
  <2>5. CASE EndDocument(token)
    BY <2>5 DEF EndDocument, Fail
  <2>6. QED
    BY <1>1, <2>1, <2>2, <2>3, <2>4, <2>5
<1>6. QED
  BY <1>3, <1>5

\* Which hooks there are.
LEMMA HooksTyped ==
    ASSUME ReadSound
    PROVE  /\ before \in Seq({"null", "hook"}) /\ after \in Seq({"null", "hook"})
           /\ Len(before) \in Nat /\ Len(after) \in Nat /\ next \in Nat \ {0}
           /\ Called("before", before) \in Calls /\ Called("after", after) \in Calls
           /\ \A k \in 0..Len(before) : CalledSoFar("before", before)[k] \in Calls
           /\ \A k \in 0..Len(after) : CalledSoFar("after", after)[k] \in Calls
           /\ CalledSoFar("before", before)[0] = <<>> /\ CalledSoFar("after", after)[0] = <<>>
<1>1. before \in Seq({"null", "hook"}) /\ after \in Seq({"null", "hook"}) /\ next \in Nat \ {0}
  BY DEF ReadSound, Control
<1>2. Len(before) \in Nat /\ Len(after) \in Nat
  BY <1>1, LenProperties
<1>3. /\ \A k \in 0..Len(before) : CalledSoFar("before", before)[k] \in Calls
      /\ \A k \in 0..Len(after) : CalledSoFar("after", after)[k] \in Calls
      /\ CalledSoFar("before", before)[0] = <<>> /\ CalledSoFar("after", after)[0] = <<>>
  BY <1>1, CalledSoFarIs
<1>4. Len(before) \in 0..Len(before) /\ Len(after) \in 0..Len(after)
  BY <1>2
<1>5. QED
  BY <1>1, <1>2, <1>3, <1>4 DEF Called

\* What a call adds to the calls of a loop.
LEMMA CallMore ==
    ASSUME NEW when \in {"before", "after"}, NEW hooks \in Seq({"null", "hook"}),
           NEW k \in 1..Len(hooks), NEW s \in Calls
    PROVE  s \o CalledSoFar(when, hooks)[k] =
             IF hooks[k] = "hook" THEN Append(s \o CalledSoFar(when, hooks)[k - 1], <<when, k>>)
                                  ELSE s \o CalledSoFar(when, hooks)[k - 1]
<1> DEFINE called == CalledSoFar(when, hooks)
           e      == <<when, k>>
<1>1. /\ k - 1 \in 0..Len(hooks) /\ k \in Nat
  BY LenProperties
<1>2. /\ called[k - 1] \in Calls
      /\ called[k] = IF hooks[k] = "hook" THEN Append(called[k - 1], e) ELSE called[k - 1]
  BY <1>1, CalledSoFarIs
<1>3. e \in Call
  BY <1>1 DEF Call
<1> HIDE DEF called, e
<1>4. Append(s \o called[k - 1], e) = s \o Append(called[k - 1], e)
  BY <1>2, <1>3, CallAppended
<1>5. s \o called[k] = IF hooks[k] = "hook" THEN Append(s \o called[k - 1], e)
                                            ELSE s \o called[k - 1]
  BY <1>2, <1>4
<1>6. QED
  BY <1>5 DEF called, e

LEMMA CallHookInOrder ==
    ASSUME ReadSound, CallsInOrder,
           NEW when \in {"before", "after"}, NEW hooks,
           hooks = IF when = "before" THEN before ELSE after, CallHook(when, hooks)
    PROVE  LET first == IF when = "before" THEN <<>> ELSE Called("before", before)
           IN  /\ next \in 1..Len(hooks)
               /\ first \in Calls
               /\ calls' = first \o CalledSoFar(when, hooks)[next]
<1> DEFINE first == IF when = "before" THEN <<>> ELSE Called("before", before)
<1>1. /\ phase = when /\ next <= Len(hooks)
      /\ calls' = IF hooks[next] = "hook" THEN Append(calls, <<when, next>>) ELSE calls
  BY CallHookIs
<1>2. /\ hooks \in Seq({"null", "hook"}) /\ Len(hooks) \in Nat /\ next \in 1..Len(hooks)
  BY <1>1, HooksTyped
<1>3. first \in Calls
  BY HooksTyped, EmptySeq DEF Calls
<1>4. calls = first \o CalledSoFar(when, hooks)[next - 1]
  <2>1. CASE when = "before"
    <3>1. first = <<>> /\ calls = CalledSoFar(when, hooks)[next - 1]
      BY <1>1, <2>1 DEF CallsInOrder
    <3>2. next - 1 \in 0..Len(hooks)
      BY <1>2
    <3>3. CalledSoFar(when, hooks)[next - 1] \in Calls
      BY <1>2, <3>2, CalledSoFarIs
    <3> HIDE DEF first
    <3>4. <<>> \o CalledSoFar(when, hooks)[next - 1] = CalledSoFar(when, hooks)[next - 1]
      BY <3>3, ConcatEmptySeq DEF Calls
    <3>5. QED
      BY <3>1, <3>4
  <2>2. CASE when = "after"
    BY <1>1, <2>2 DEF CallsInOrder
  <2>3. QED
    BY <2>1, <2>2
<1> HIDE DEF first
<1>5. calls' = first \o CalledSoFar(when, hooks)[next]
  <2>1. first \o CalledSoFar(when, hooks)[next] =
          IF hooks[next] = "hook"
          THEN Append(first \o CalledSoFar(when, hooks)[next - 1], <<when, next>>)
          ELSE first \o CalledSoFar(when, hooks)[next - 1]
    BY <1>2, <1>3, CallMore
  <2>2. QED
    BY <1>1, <1>4, <2>1
<1>6. QED
  BY <1>2, <1>3, <1>5 DEF first

LEMMA CallsInOrderStep ==
    ASSUME ReadSound, CallsInOrder, [Next]_vars
    PROVE  CallsInOrder'
<1>1. CASE phase' = "idle"
  BY <1>1 DEF CallsInOrder
<1>2. CASE Client
  <2>1. phase' = "idle"
    BY <1>2 DEF Client, OnExistingAction, AddHookBeforeRead, AddHookAfterRead, OnParseFailure,
                Idle
  <2>2. QED
    BY <1>1, <2>1
<1>3. CASE StartRead
  <2>1. phase' = "before" /\ next' = 1 /\ calls' = <<>> /\ before' = before
    BY <1>3 DEF StartRead, client
  <2>2. CalledSoFar("before", before)[0] = <<>> /\ Len(before) \in Nat
    BY HooksTyped
  <2>3. next' - 1 = 0 /\ next' \in 1..(Len(before') + 1)
    BY <2>1, <2>2
  <2>4. QED
    BY <2>1, <2>2, <2>3 DEF CallsInOrder
<1>4. ASSUME CallHook("before", before), phase' # "idle"
      PROVE  CallsInOrder'
  <2>1. phase' = "before" /\ next' = next + 1 /\ before' = before
    BY <1>4, CallHookIs
  <2>2. next \in 1..Len(before) /\ calls' = <<>> \o CalledSoFar("before", before)[next]
    BY <1>4, CallHookInOrder
  <2>3. next' \in 1..(Len(before) + 1) /\ next' - 1 = next /\ next \in 0..Len(before)
    BY <2>1, <2>2, HooksTyped
  <2>4. calls' = CalledSoFar("before", before)[next]
    <3>1. CalledSoFar("before", before)[next] \in Seq(Call)
      BY <2>3, HooksTyped DEF Calls
    <3>2. QED
      BY <2>2, <3>1, ConcatEmptySeq
  <2>5. QED
    BY <2>1, <2>3, <2>4 DEF CallsInOrder
<1>5. ASSUME CallHook("after", after), phase' # "idle"
      PROVE  CallsInOrder'
  <2>1. phase' = "after" /\ next' = next + 1 /\ before' = before /\ after' = after
    BY <1>5, CallHookIs
  <2>2. /\ next \in 1..Len(after)
        /\ calls' = Called("before", before) \o CalledSoFar("after", after)[next]
    BY <1>5, CallHookInOrder
  <2>3. next' \in 1..(Len(after) + 1) /\ next' - 1 = next
    BY <2>1, <2>2, HooksTyped
  <2>4. QED
    BY <2>1, <2>2, <2>3 DEF CallsInOrder
<1>6. CASE StartParse
  <2>1. /\ phase = "before" /\ phase' = "parse" /\ next > Len(before)
        /\ before' = before /\ calls' = calls
    BY <1>6 DEF StartParse, client
  <2>2. next \in 1..(Len(before) + 1) /\ calls = CalledSoFar("before", before)[next - 1]
    BY <2>1 DEF CallsInOrder
  <2>3. next - 1 = Len(before)
    BY <2>1, <2>2, HooksTyped
  <2>4. QED
    BY <2>1, <2>2, <2>3 DEF CallsInOrder, Called
<1>7. ASSUME ReadToken, phase' # "idle"
      PROVE  CallsInOrder'
  <2>1. /\ phase = "parse" /\ UNCHANGED <<before, after, calls>>
        /\ \/ phase' \in {"parse", "failed"}
           \/ phase' = "after" /\ next' = 1
    BY <1>7, TokenCalls
  <2>2. calls' = Called("before", before) /\ before' = before /\ after' = after
    BY <2>1 DEF CallsInOrder
  <2>3. CASE phase' \in {"parse", "failed"}
    BY <2>2, <2>3 DEF CallsInOrder
  <2>4. CASE phase' = "after" /\ next' = 1
    <3>1. /\ Called("before", before) \in Seq(Call) /\ Len(after) \in Nat
          /\ CalledSoFar("after", after)[0] = <<>>
      BY HooksTyped DEF Calls
    <3>2. next' - 1 = 0 /\ next' \in 1..(Len(after') + 1)
      BY <2>2, <2>4, <3>1
    <3>3. calls' = Called("before", before) \o CalledSoFar("after", after)[0]
      BY <2>2, <3>1, ConcatEmptySeq
    <3>4. QED
      BY <2>2, <2>4, <3>2, <3>3 DEF CallsInOrder
  <2>5. QED
    BY <2>1, <2>3, <2>4
<1>8. CASE ReportFailure \/ EndRead
  <2>1. phase' = "idle"
    BY <1>8 DEF ReportFailure, EndRead, Finish
  <2>2. QED
    BY <1>1, <2>1
<1>9. CASE UNCHANGED vars
  <2>1. UNCHANGED <<phase, next, before, after, calls>>
    BY <1>9 DEF vars, client
  <2>2. QED
    BY <2>1 DEF CallsInOrder
<1>10. QED
  BY <1>1, <1>2, <1>3, <1>4, <1>5, <1>6, <1>7, <1>8, <1>9 DEF Next, ReadStep, Hooks

\* The calls of a loop over hooks that was left are the first of those due.
LEMMA CallsArePrefix ==
    ASSUME ReadSound
    PROVE  /\ \A k \in 0..Len(before) :
                 IsPrefix(CalledSoFar("before", before)[k], AllHooks)
           /\ \A k \in 0..Len(after) :
                 IsPrefix(Called("before", before) \o CalledSoFar("after", after)[k], AllHooks)
           /\ IsPrefix(Called("before", before), AllHooks)
<1> DEFINE b == Called("before", before)
           a == Called("after", after)
<1>1. b \in Calls /\ a \in Calls /\ AllHooks = b \o a
  BY HooksTyped DEF AllHooks
<1>2. \A s, u \in Calls : IsPrefix(s, s \o u)
  BY PrefixOfConcat DEF Calls
<1>3. ASSUME NEW k \in 0..Len(before)
      PROVE  IsPrefix(CalledSoFar("before", before)[k], AllHooks)
  <2> DEFINE s == CalledSoFar("before", before)[k]
  <2>1. PICK u \in Calls : b = s \o u
    BY HooksTyped, CalledGrows
  <2>2. s \in Calls
    BY HooksTyped
  <2> HIDE DEF a, b, s
  <2>3. AllHooks = s \o (u \o a) /\ u \o a \in Calls
    BY <1>1, <2>1, <2>2, CallsConcat
  <2>4. IsPrefix(s, AllHooks)
    BY <1>2, <2>2, <2>3
  <2>5. QED
    BY <2>4 DEF s
<1>4. ASSUME NEW k \in 0..Len(after)
      PROVE  IsPrefix(b \o CalledSoFar("after", after)[k], AllHooks)
  <2> DEFINE s == CalledSoFar("after", after)[k]
  <2>1. PICK u \in Calls : a = s \o u
    BY HooksTyped, CalledGrows
  <2>2. s \in Calls
    BY HooksTyped
  <2> HIDE DEF a, b, s
  <2>3. (b \o s) \o u = b \o (s \o u) /\ b \o s \in Calls
    <3>1. b \in Calls /\ s \in Calls /\ u \in Calls
      BY <1>1, <2>2
    <3>2. b \o s \in Calls
      BY <3>1, CallsConcat
    <3>3. (b \o s) \o u = b \o (s \o u)
      BY <3>1, CallsConcat
    <3>4. QED
      BY <3>2, <3>3
  <2>4. IsPrefix(b \o s, AllHooks)
    BY <1>1, <1>2, <2>1, <2>3
  <2>5. QED
    BY <2>4 DEF s
<1>5. IsPrefix(b, AllHooks)
  BY <1>1, <1>2
<1>6. QED
  BY <1>3, <1>4, <1>5

\* What a read has called when it is over.
LEMMA ReadEndsAsTold ==
    ASSUME ReadSound, Grammatical, CallsInOrder, Next, phase # "idle", phase' = "idle"
    PROVE  EndsAsTold
<1>1. /\ "done" \notin AddErrors /\ "ParseError" \notin AddErrors
      /\ "HookException" \notin AddErrors
  BY DEF AddErrors
<1>2. ASSUME ret' \in AddErrors \cup {"HookException"}, IsPrefix(calls', AllHooks)
      PROVE  EndsAsTold
  BY <1>1, <1>2 DEF EndsAsTold
<1>3. CASE CallHook("before", before)
  <2>1. ret' \in AddErrors \cup {"HookException"}
    BY <1>3, CallHookIs
  <2>2. next \in 1..Len(before) /\ calls' = <<>> \o CalledSoFar("before", before)[next]
    BY <1>3, CallHookInOrder
  <2>3. next \in 0..Len(before)
    BY <2>2, HooksTyped
  <2>4. calls' = CalledSoFar("before", before)[next]
    <3>1. CalledSoFar("before", before)[next] \in Seq(Call)
      BY <2>3, HooksTyped DEF Calls
    <3>2. QED
      BY <2>2, <3>1, ConcatEmptySeq
  <2>5. QED
    BY <1>2, <2>1, <2>3, <2>4, CallsArePrefix
<1>4. CASE CallHook("after", after)
  <2>1. ret' \in AddErrors \cup {"HookException"}
    BY <1>4, CallHookIs
  <2>2. /\ next \in 1..Len(after)
        /\ calls' = Called("before", before) \o CalledSoFar("after", after)[next]
    BY <1>4, CallHookInOrder
  <2>3. next \in 0..Len(after)
    BY <2>2, HooksTyped
  <2>4. QED
    BY <1>2, <2>1, <2>2, <2>3, CallsArePrefix
<1>5. CASE ReportFailure
  <2>1. /\ phase = "failed"
        /\ \/ onFailure = "null" /\ ret' = "ParseError" /\ calls' = calls
           \/ /\ onFailure = "hook" /\ calls' = Append(calls, <<"failure", 1>>)
              /\ ret' \in {"ParseError", "done", "HookException"}
    BY <1>5 DEF ReportFailure, Finish
  <2>2. ~Viable(read) /\ calls = Called("before", before)
    BY <2>1 DEF Grammatical, CallsInOrder
  <2>3. /\ ret' = "done" => calls' = FailureHooks
        /\ ret' = "HookException" => calls' = FailureHooks
        /\ ret' = "ParseError" =>
              calls' = IF onFailure = "hook" THEN FailureHooks ELSE Called("before", before)
    BY <2>1, <2>2 DEF FailureHooks
  <2>4. QED
    BY <1>1, <2>1, <2>2, <2>3 DEF EndsAsTold
<1>6. CASE EndRead
  <2>1. phase = "after" /\ next > Len(after) /\ ret' = "done" /\ calls' = calls
    BY <1>6 DEF EndRead, Finish
  <2>2. /\ next \in 1..(Len(after) + 1)
        /\ calls = Called("before", before) \o CalledSoFar("after", after)[next - 1]
        /\ IsDocument(read)
    BY <2>1 DEF CallsInOrder, Grammatical
  <2>3. next - 1 = Len(after)
    BY <2>1, <2>2, HooksTyped
  <2>4. calls' = AllHooks
    BY <2>1, <2>2, <2>3 DEF AllHooks, Called
  <2>5. QED
    BY <1>1, <2>1, <2>2, <2>4 DEF EndsAsTold
<1>7. CASE ReadToken
  <2>1. phase = "parse" /\ calls' = calls /\ ret' \in AddErrors
    BY <1>7, TokenCalls
  <2>2. calls = Called("before", before)
    BY <2>1 DEF CallsInOrder
  <2>3. QED
    BY <1>2, <2>1, <2>2, CallsArePrefix
<1>8. CASE StartParse
  BY <1>8 DEF StartParse
<1>9. CASE Client \/ StartRead
  BY <1>9 DEF Client, OnExistingAction, AddHookBeforeRead, AddHookAfterRead, OnParseFailure,
              Idle, StartRead
<1>10. QED
  BY <1>3, <1>4, <1>5, <1>6, <1>7, <1>8, <1>9 DEF Next, ReadStep, Hooks

LEMMA CallsHold == Spec => []CallsInOrder
<1>1. Init => CallsInOrder
  BY DEF Init, CallsInOrder
<1>2. ReadSound /\ CallsInOrder /\ [Next]_vars => CallsInOrder'
  BY CallsInOrderStep
<1>3. QED
  BY <1>1, <1>2, ReadSoundness, PTL DEF Spec

\* However a read ends, by returning, by a ParseError or by an exception of a
\* hook or of Add, the hooks that were called are those the protocol says, in
\* the order of registration and once each; the after hooks are called for a
\* document only and the failure hook for none (static Parser::Parse).
THEOREM HooksFollowProtocol == Spec => HookProtocol
<1>1. ReadSound /\ Grammatical /\ CallsInOrder /\ [Next]_vars =>
         [phase # "idle" /\ phase' = "idle" => EndsAsTold]_vars
  BY ReadEndsAsTold
<1>2. QED
  BY <1>1, CallsHold, ReadSoundness, GrammarHolds, PTL DEF Spec, HookProtocol
=============================================================================
