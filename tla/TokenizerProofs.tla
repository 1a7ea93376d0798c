-------------------------- MODULE TokenizerProofs --------------------------
(***************************************************************************)
(* Type correctness of Tokenizer, that lines are counted and that nothing   *)
(* of a text is lost, for texts of any length.                              *)
(*                                                                         *)
(* What the three rest on is the shape of a step (Shape): a step takes one  *)
(* character or none, and skips a blank, begins a token, goes on with it or *)
(* returns it.                                                              *)
(***************************************************************************)
EXTENDS Tokenizer, FiniteSetTheorems, TLAPS

\* The tokenizer is in the middle of a token.
Inside(m) == m \in Modes \ {"next", "stopped"}

\* The character taken, if one is, is counted, but for the last of all.
Advance ==
    \/ pos < Len(text) /\ pos' = pos + 1 /\ line' = IF text[pos + 1] = "nl" THEN line + 1 ELSE line
    \/ pos' = pos /\ line' = line
    \/ pos < Len(text) /\ pos' = pos + 1 /\ line' = line /\ mode' = "stopped"

Skips ==
    /\ mode = "next" /\ mode' = "next" /\ pos < Len(text) /\ pos' = pos + 1
    /\ text[pos + 1] \in Blanks
    /\ UNCHANGED <<start, startLine, double, tokens>>

Begins ==
    /\ mode = "next" /\ Inside(mode') /\ pos' = pos + 1
    /\ start' = pos + 1 /\ startLine' = line /\ double' = FALSE /\ tokens' = tokens

GoesOn ==
    /\ Inside(mode) /\ Inside(mode') /\ double' \in BOOLEAN
    /\ UNCHANGED <<start, startLine, tokens>>

\* The token that is returned ends with what has been taken.
Returns(t) ==
    /\ mode # "stopped" /\ mode' \in {"next", "stopped"}
    /\ t \in Token /\ t.last = pos' /\ t.first = IF mode = "next" THEN pos + 1 ELSE start
    /\ tokens' = Append(tokens, t)
    /\ UNCHANGED <<start, startLine, double>>

\* What a step of the tokenizer may do.
Shape ==
    /\ text' = text /\ ended' = ended /\ Advance
    /\ Skips \/ Begins \/ GoesOn \/ \E t : Returns(t)

-----------------------------------------------------------------------------
(* Every action has the shape *)

\* What is not the end of the stream is the next character of the text.
LEMMA CharIsNext ==
    ASSUME TypeOK, Char # "eof" PROVE pos < Len(text) /\ Char = text[pos + 1]
  BY DEF Char

\* Taking a character that is there advances.
LEMMA TakeAdvances ==
    ASSUME TypeOK, Char # "eof", Take PROVE Advance /\ pos' = pos + 1 /\ pos < Len(text)
  BY CharIsNext DEF Take, Advance

\* So does leaving it: no character is taken.
LEMMA LeaveAdvances == ASSUME Leave PROVE Advance
  BY DEF Leave, Advance

\* A token that is returned while one is being read.
LEMMA ReturnShape ==
    ASSUME TypeOK, NEW type \in TokenTypes, NEW at \in Nat \ {0}, Return(type, at),
           mode # "stopped", pos' \in Nat
    PROVE  (\E t : Returns(t)) /\ text' = text /\ ended' = ended
  <1> DEFINE t == [type |-> type, line |-> at, last |-> pos',
                   first |-> IF mode = "next" THEN pos + 1 ELSE start]
  <1>1. t \in Token
    BY DEF Token, TypeOK
  <1>2. tokens' = Append(tokens, t) /\ t.last = pos'
        /\ t.first = IF mode = "next" THEN pos + 1 ELSE start
    BY DEF Return
  <1>3. mode' \in {"next", "stopped"} /\ UNCHANGED <<start, startLine, double, text, ended>>
    BY DEF Return
  <1> HIDE DEF t
  <1>4. Returns(t)
    BY <1>1, <1>2, <1>3 DEF Returns
  <1> QED BY <1>3, <1>4

\* A function goes on with its token.
LEMMA GoOnShape ==
    ASSUME TypeOK, NEW m, GoOn(m), Inside(mode), Inside(m)
    PROVE  GoesOn /\ text' = text /\ ended' = ended
  BY DEF GoOn, GoesOn, TypeOK

\* The two together, for the alternatives of an action that take a character,
\* and for those that leave it.
LEMMA TakeGoesOn ==
    ASSUME TypeOK, NEW m, Char # "eof", Take, GoOn(m), Inside(mode), Inside(m)
    PROVE  Shape
  BY TakeAdvances, GoOnShape DEF Shape

\* The same of one that leaves the character and goes on.
LEMMA LeaveGoesOn ==
    ASSUME TypeOK, NEW m, Leave, GoOn(m), Inside(mode), Inside(m)
    PROVE  Shape
  BY LeaveAdvances, GoOnShape DEF Shape

\* A token that ends with the character taken.
LEMMA TakeReturns ==
    ASSUME TypeOK, NEW type \in TokenTypes, NEW at \in Nat \ {0}, Char # "eof", Take,
           Return(type, at), mode # "stopped"
    PROVE  Shape
  <1>1. pos' \in Nat /\ Advance
    BY TakeAdvances DEF TypeOK
  <1> QED BY <1>1, ReturnShape DEF Shape

\* A token that ends before the character looked at.
LEMMA LeaveReturns ==
    ASSUME TypeOK, NEW type \in TokenTypes, NEW at \in Nat \ {0}, Leave,
           Return(type, at), mode # "stopped"
    PROVE  Shape
  <1>1. pos' \in Nat /\ Advance
    BY LeaveAdvances DEF Leave, TypeOK
  <1> QED BY <1>1, ReturnShape DEF Shape

\* The numbers among the variables.
LEMMA Numbers == ASSUME TypeOK PROVE line \in Nat \ {0} /\ startLine \in Nat \ {0} /\ pos \in Nat
  BY DEF TypeOK

\* Every step of the tokenizer has the shape.
LEMMA StepShape == ASSUME TypeOK, Step PROVE Shape
  <1> USE Numbers
  <1>1. CASE SkipWhitespace
    <2>1. mode = "next" /\ Char \in Blanks /\ Char # "eof" /\ Take /\ GoOn("next")
      BY <1>1 DEF SkipWhitespace, In, Blanks
    <2>2. Advance /\ pos' = pos + 1 /\ pos < Len(text) /\ Char = text[pos + 1]
      BY <2>1, TakeAdvances, CharIsNext
    <2>3. Skips /\ text' = text /\ ended' = ended
      BY <2>1, <2>2 DEF Skips, GoOn
    <2> QED BY <2>2, <2>3 DEF Shape
  <1>2. CASE Begin
    <2>1. Char # "eof" /\ Inside(Reader)
      BY <1>2 DEF Begin, Reader, Inside, Modes, Letters, Signs, Digits, Quote
    <2>2. Advance /\ pos' = pos + 1
      BY <1>2, <2>1, TakeAdvances DEF Begin
    <2>3. Begins /\ text' = text /\ ended' = ended
      BY <1>2, <2>1, <2>2 DEF Begins, Begin, In
    <2> QED BY <2>2, <2>3 DEF Shape
  <1>3. CASE ReadSymbol
    <2>1. Char # "eof" /\ SymbolType[Char] \in TokenTypes
      BY <1>3 DEF ReadSymbol, Symbols, SymbolType, TokenTypes
    <2> QED BY <1>3, <2>1, TakeReturns DEF ReadSymbol, In
  <1>4. CASE ReadUnknown
    <2>1. "Unknown" \in TokenTypes
      BY DEF TokenTypes
    <2> QED BY <1>4, <2>1, TakeReturns DEF ReadUnknown, In
  <1>5. CASE ReadEnd
    <2>1. "EndOfFile" \in TokenTypes
      BY DEF TokenTypes
    <2> QED BY <1>5, <2>1, LeaveReturns DEF ReadEnd, In
  <1>6. CASE ReadString
    <2>1. {"String", "Unknown"} \subseteq TokenTypes /\ Quote # "eof" /\ Backslash # "eof"
      BY DEF TokenTypes, Quote, Backslash
    <2>2. Inside("string") /\ Inside("escape") /\ mode = "string"
      BY <1>6 DEF Inside, Modes, ReadString, In
    <2> QED BY <1>6, <2>1, <2>2, TakeReturns, LeaveReturns, TakeGoesOn DEF ReadString
  <1>7. CASE ReadEscape
    <2>1. "Unknown" \in TokenTypes /\ "eof" \notin Escapes
      BY DEF TokenTypes, Escapes, Quote, Backslash
    <2>2. Inside("string") /\ Inside("escape") /\ mode = "escape"
      BY <1>7 DEF Inside, Modes, ReadEscape, In
    <2>3. CASE /\ Char \notin Escapes \cup {"eof"}
               /\ pos' = pos + 1 /\ UNCHANGED line /\ Return("Unknown", line)
      <3>1. pos < Len(text) /\ mode' = "stopped" /\ pos' \in Nat
        BY <2>3, CharIsNext DEF Return
      <3>2. Advance
        BY <2>3, <3>1 DEF Advance
      <3> QED BY <2>1, <2>2, <2>3, <3>1, <3>2, ReturnShape DEF Shape
    <2> QED BY <1>7, <2>1, <2>2, <2>3, LeaveReturns, TakeGoesOn DEF ReadEscape
  <1>8. CASE LookForBinary
    <2>1. Inside("after_b") /\ Inside("binary") /\ Inside("word") /\ mode = "after_b"
      BY <1>8 DEF Inside, Modes, LookForBinary, In
    <2> QED BY <1>8, <2>1, TakeGoesOn, LeaveGoesOn DEF LookForBinary, Quote
  <1>9. CASE ReadBinary
    <2>1. {"Binary", "Unknown"} \subseteq TokenTypes /\ Quote # "eof"
      BY DEF TokenTypes, Quote
    <2>2. Inside("binary") /\ mode = "binary"
      BY <1>9 DEF Inside, Modes, ReadBinary, In
    <2> QED BY <1>9, <2>1, <2>2, TakeReturns, LeaveReturns, TakeGoesOn DEF ReadBinary
  <1>10. CASE ReadNumber
    <2>1. {"Double", "Integer"} \subseteq TokenTypes /\ "eof" \notin Digits
      BY DEF TokenTypes, Digits
    <2>2. Inside("number") /\ Inside("after_e") /\ mode = "number"
      BY <1>10 DEF Inside, Modes, ReadNumber, In
    <2>3. CASE Char \in Digits /\ Take /\ GoOn("number")
      BY <2>1, <2>2, <2>3, TakeGoesOn
    <2>4. CASE /\ Char = "e" \/ (Char = "." /\ ~double)
               /\ mode' = IF Char = "e" THEN "after_e" ELSE "number"
               /\ double' = TRUE
               /\ Take /\ UNCHANGED <<text, ended, start, startLine, tokens>>
      <3>1. Advance
        BY <2>4, TakeAdvances
      <3>2. GoesOn
        BY <2>2, <2>4 DEF GoesOn
      <3> QED BY <2>4, <3>1, <3>2 DEF Shape
    <2>5. CASE /\ Char \notin Digits \cup {"e"} /\ ~(Char = "." /\ ~double)
               /\ Leave /\ Return(IF double THEN "Double" ELSE "Integer", line)
      BY <2>1, <2>2, <2>5, LeaveReturns
    <2> QED BY <1>10, <2>3, <2>4, <2>5 DEF ReadNumber
  <1>11. CASE ReadExponent
    <2>1. Inside("after_e") /\ Inside("number") /\ mode = "after_e"
      BY <1>11 DEF Inside, Modes, ReadExponent, In
    <2> QED BY <1>11, <2>1, TakeGoesOn, LeaveGoesOn DEF ReadExponent, Signs
  <1>12. CASE ReadIdentifierOrKeyword
    <2>1. {"Bool", "Identifier"} \subseteq TokenTypes /\ "eof" \notin WordChars
      BY DEF TokenTypes, WordChars, Letters, Digits
    <2>2. Inside("word") /\ mode = "word"
      BY <1>12 DEF Inside, Modes, ReadIdentifierOrKeyword, In
    <2>3. CASE Char \in WordChars /\ Take /\ GoOn("word")
      BY <2>1, <2>2, <2>3, TakeGoesOn
    <2>4. CASE Leave /\ Return(IF SubSeq(text, start, pos) = <<"true">> THEN "Bool"
                                                                     ELSE "Identifier", line)
      BY <2>1, <2>2, <2>4, LeaveReturns
    <2> QED BY <1>12, <2>3, <2>4 DEF ReadIdentifierOrKeyword
  <1>13. CASE LookForComment
    <2>1. Inside("after_slash") /\ Inside("line_comment") /\ Inside("block")
          /\ mode = "after_slash" /\ "Unknown" \in TokenTypes
      BY <1>13 DEF Inside, Modes, LookForComment, In, TokenTypes
    <2> QED BY <1>13, <2>1, TakeGoesOn, LeaveReturns DEF LookForComment
  <1>14. CASE ReadSingleLineComment
    <2>1. {"SingleLineBash", "SingleLineC"} \subseteq TokenTypes
      BY DEF TokenTypes, CommentTypes
    <2>2. Inside("line_comment") /\ mode = "line_comment"
      BY <1>14 DEF Inside, Modes, ReadSingleLineComment, In
    <2>3. CASE Char \notin {"nl", "eof"} /\ Take /\ GoOn("line_comment")
      BY <2>2, <2>3, TakeGoesOn
    <2>4. CASE /\ (Char = "nl" /\ Take) \/ (Char = "eof" /\ Leave)
               /\ Return(IF text[start] = "#" THEN "SingleLineBash" ELSE "SingleLineC", line')
      <3>1. line' \in Nat \ {0}
        BY <2>4 DEF Take, Leave
      <3> QED BY <2>1, <2>2, <2>4, <3>1, TakeReturns, LeaveReturns
    <2> QED BY <1>14, <2>3, <2>4 DEF ReadSingleLineComment
  <1>15. CASE ReadMultiLineComment
    <2>1. Inside("block") /\ Inside("after_star") /\ mode = "block" /\ "Unknown" \in TokenTypes
      BY <1>15 DEF Inside, Modes, ReadMultiLineComment, In, TokenTypes
    <2> QED BY <1>15, <2>1, TakeGoesOn, LeaveReturns DEF ReadMultiLineComment
  <1>16. CASE LookForSlash
    <2>1. Inside("block") /\ Inside("after_star") /\ mode = "after_star"
          /\ "MultiLineC" \in TokenTypes
      BY <1>16 DEF Inside, Modes, LookForSlash, In, TokenTypes, CommentTypes
    <2> QED BY <1>16, <2>1, TakeReturns, LeaveGoesOn DEF LookForSlash
  <1> QED
    BY <1>1, <1>2, <1>3, <1>4, <1>5, <1>6, <1>7, <1>8, <1>9, <1>10, <1>11, <1>12, <1>13,
       <1>14, <1>15, <1>16 DEF Step

-----------------------------------------------------------------------------
(* Type correctness *)

\* Types hold at first.
LEMMA TypeInit == ASSUME Init PROVE TypeOK
  <1>1. text \in Seq(Chars) /\ pos = 0
    BY CharsAssumption DEF Init, Started
  <1>2. tokens \in Seq(Token)
    BY DEF Init, Started
  <1>3. mode \in Modes /\ ended \in BOOLEAN /\ double \in BOOLEAN
    BY DEF Init, Started, Modes
  <1>4. pos \in 0..Len(text) /\ line \in 1..(pos + 1) /\ start \in 1..(pos + 1)
        /\ startLine \in 1..line
    BY <1>1 DEF Init, Started
  <1> QED BY <1>1, <1>2, <1>3, <1>4 DEF TypeOK

\* An interval that grows at its end keeps what is in it.
LEMMA Within ==
    ASSUME NEW m \in Nat, NEW n \in Nat, m <= n, NEW k \in 1..(m + 1)
    PROVE  k \in 1..(n + 1)
  OBVIOUS

\* A step of the tokenizer keeps the types: start and line never pass pos.
LEMMA TypeShape == ASSUME TypeOK, Shape PROVE TypeOK'
  <1>1. text' \in Seq(Chars) /\ ended' \in BOOLEAN /\ Len(text') = Len(text)
    BY DEF TypeOK, Shape
  <1>2. pos' \in 0..Len(text) /\ line' \in 1..(pos' + 1) /\ pos <= pos' /\ line <= line'
    BY DEF TypeOK, Shape, Advance
  <1>3. double \in BOOLEAN /\ tokens \in Seq(Token)
    BY DEF TypeOK
  <1>4. start' \in 1..(pos' + 1) /\ startLine' \in 1..line'
    <2>3. /\ pos \in Nat /\ pos' \in Nat /\ line \in Nat \ {0} /\ line' \in Nat \ {0}
          /\ pos <= pos' /\ line <= line'
          /\ start \in 1..(pos + 1) /\ startLine \in 1..line
      BY <1>2 DEF TypeOK
    <2>4. pos' = pos + 1 \/ start' = start
      BY DEF Shape, Skips, Begins, GoesOn, Returns
    <2>1. CASE start' = start /\ startLine' = startLine
      <3>1. start \in 1..(pos' + 1)
        BY <2>3, Within
      <3>2. startLine' \in 1..line'
        BY <2>1, <2>3
      <3> QED BY <2>1, <3>1, <3>2
    <2>2. CASE start' = pos + 1 /\ startLine' = line
      <3>1. pos + 1 \in 1..(pos' + 1)
        BY <2>3, pos + 1 \in 1..(pos + 1), Within
      <3>2. startLine' \in 1..line'
        BY <2>2, <2>3
      <3> QED BY <2>2, <3>1, <3>2
    <2> QED BY <2>1, <2>2 DEF Shape, Skips, Begins, GoesOn, Returns
  <1>5. tokens' \in Seq(Token)
    <2>1. ASSUME NEW t, Returns(t) PROVE tokens' \in Seq(Token)
      <3>1. t \in Token /\ tokens' = Append(tokens, t)
        BY <2>1 DEF Returns
      <3> QED BY <1>3, <3>1
    <2> QED BY <1>3, <2>1 DEF Shape, Skips, Begins, GoesOn
  <1>6. mode' \in Modes
    BY DEF Shape, Skips, Begins, GoesOn, Returns, Inside, Modes
  <1>7. double' \in BOOLEAN
    BY <1>3 DEF Shape, Skips, Begins, GoesOn, Returns
  <1> QED BY <1>1, <1>2, <1>4, <1>5, <1>6, <1>7 DEF TypeOK

\* The stream does nothing but deliver or end.
LEMMA StreamStep ==
    ASSUME TypeOK, End \/ \E c \in Later : Deliver(c)
    PROVE  /\ text' \in Seq(Chars) /\ ended' \in BOOLEAN
           /\ Len(text) <= Len(text') /\ \A i \in 1..Len(text) : text'[i] = text[i]
           /\ UNCHANGED <<pos, line, mode, start, startLine, double, tokens>>
  <1>1. CASE End
    BY <1>1 DEF End, TypeOK
  <1>2. ASSUME NEW c \in Later, Deliver(c)
        PROVE  /\ text' \in Seq(Chars) /\ ended' \in BOOLEAN
               /\ Len(text) <= Len(text') /\ \A i \in 1..Len(text) : text'[i] = text[i]
               /\ UNCHANGED <<pos, line, mode, start, startLine, double, tokens>>
    BY <1>2, CharsAssumption DEF Deliver, TypeOK
  <1> QED BY <1>1, <1>2

\* So does every step.
LEMMA TypeStep == ASSUME TypeOK, [Next]_vars PROVE TypeOK'
  <1>1. CASE Step
    BY <1>1, StepShape, TypeShape
  <1>2. CASE End \/ \E c \in Later : Deliver(c)
    BY <1>2, StreamStep DEF TypeOK
  <1>3. CASE UNCHANGED vars
    BY <1>3 DEF vars, TypeOK
  <1> QED BY <1>1, <1>2, <1>3 DEF Next

\* Every variable has its type and the tokenizer is never past the text,
\* whatever the stream delivers.
THEOREM TokenizerTypeCorrect == Spec => []TypeOK
  BY TypeInit, TypeStep, PTL DEF Spec

-----------------------------------------------------------------------------
(* Lines *)

\* The invariant behind LinesCounted: in the middle of a token as well.
Counted == mode # "stopped" => line = 1 + LineEnds(pos)

\* One character more is one line end more, or none.
LEMMA LineEndsGrow ==
    ASSUME TypeOK, pos < Len(text)
    PROVE  LineEnds(pos + 1) = IF text[pos + 1] = "nl" THEN LineEnds(pos) + 1 ELSE LineEnds(pos)
  <1> DEFINE Old == {i \in 1..pos : text[i] = "nl"}
             New == {i \in 1..(pos + 1) : text[i] = "nl"}
  <1>1. pos \in Nat /\ 1..(pos + 1) = 1..pos \cup {pos + 1} /\ pos + 1 \notin 1..pos
    BY DEF TypeOK
  <1>2. IsFiniteSet(Old)
    <2>1. IsFiniteSet(1..pos)
      BY <1>1, FS_Interval
    <2> QED BY <2>1, FS_Subset
  <1>3. CASE text[pos + 1] = "nl"
    <2>1. New = Old \cup {pos + 1} /\ pos + 1 \notin Old
      BY <1>1, <1>3
    <2>2. Cardinality(New) = Cardinality(Old) + 1
      BY <1>2, <2>1, FS_AddElement
    <2> QED BY <1>3, <2>2 DEF LineEnds
  <1>4. CASE text[pos + 1] # "nl"
    <2>1. New = Old
      BY <1>1, <1>4
    <2> QED BY <1>4, <2>1 DEF LineEnds
  <1> QED BY <1>3, <1>4

\* The count is a number, and depends on the text that has been taken only.
LEMMA LineEndsNat == ASSUME TypeOK PROVE LineEnds(pos) \in Nat
  <1>1. IsFiniteSet(1..pos)
    BY FS_Interval DEF TypeOK
  <1>2. IsFiniteSet({i \in 1..pos : text[i] = "nl"})
    BY <1>1, FS_Subset
  <1> QED BY <1>2, FS_CardinalityType DEF LineEnds

\* Delivering characters ends no line among those that were taken.
LEMMA LineEndsKept ==
    ASSUME TypeOK, pos' = pos, \A i \in 1..Len(text) : text'[i] = text[i]
    PROVE  LineEnds(pos)' = LineEnds(pos)
  <1>1. {i \in 1..pos' : text'[i] = "nl"} = {i \in 1..pos : text[i] = "nl"}
    BY DEF TypeOK
  <1> QED BY <1>1 DEF LineEnds

\* Every step but the last counts the line end that it takes.
LEMMA CountedStep == ASSUME TypeOK, Counted, [Next]_vars PROVE Counted'
  <1>1. CASE Step
    <2> SUFFICES ASSUME mode' # "stopped" PROVE line' = 1 + LineEnds(pos)'
      BY DEF Counted
    <2>1. Shape
      BY <1>1, StepShape
    <2>2. mode # "stopped"
      BY <2>1 DEF Shape, Skips, Begins, GoesOn, Returns, Inside
    <2>3. line = 1 + LineEnds(pos) /\ LineEnds(pos) \in Nat /\ line \in Nat /\ pos \in Nat
      BY <2>2, LineEndsNat, Numbers DEF Counted
    <2>4. text' = text
      BY <2>1 DEF Shape
    <2>5. CASE pos < Len(text) /\ pos' = pos + 1
               /\ line' = IF text[pos + 1] = "nl" THEN line + 1 ELSE line
      <3>1. LineEnds(pos)' = LineEnds(pos + 1)
        BY <2>4, <2>5 DEF LineEnds
      <3>2. LineEnds(pos + 1) = IF text[pos + 1] = "nl" THEN LineEnds(pos) + 1 ELSE LineEnds(pos)
        BY <2>5, LineEndsGrow
      <3> QED BY <2>3, <2>5, <3>1, <3>2
    <2>6. CASE pos' = pos /\ line' = line
      <3>1. LineEnds(pos)' = LineEnds(pos)
        BY <2>4, <2>6 DEF LineEnds
      <3> QED BY <2>3, <2>6, <3>1
    <2> QED BY <2>1, <2>5, <2>6 DEF Shape, Advance
  <1>2. CASE End \/ \E c \in Later : Deliver(c)
    BY <1>2, StreamStep, LineEndsKept DEF Counted
  <1>3. CASE UNCHANGED vars
    BY <1>3, LineEndsKept DEF vars, Counted
  <1> QED BY <1>1, <1>2, <1>3 DEF Next

\* The tokenizer begins in line 1.
LEMMA CountedInit == ASSUME Init PROVE Counted
  <1>1. {i \in 1..0 : text[i] = "nl"} = {}
    OBVIOUS
  <1> QED BY <1>1, FS_EmptySet DEF Init, Started, Counted, LineEnds

\* Between two tokens the line number is one more than the line ends that were
\* taken, in texts of any length and whatever the lines of the tokens.
THEOREM LinesAreCounted == Spec => []LinesCounted
  <1>1. Counted => LinesCounted
    BY DEF Counted, LinesCounted
  <1> QED BY <1>1, TypeInit, TypeStep, CountedInit, CountedStep, PTL DEF Spec

-----------------------------------------------------------------------------
(* Nothing is lost *)

\* The characters after position a, up to b, are blank.
Blank(a, b) == \A i \in (a + 1)..b : text[i] \in Blanks

\* Token k begins after the one before it, after blanks, and has been taken.
Placed(k) ==
    /\ Before(k) < tokens[k].first /\ tokens[k].first <= pos + 1 /\ tokens[k].last <= pos
    /\ Blank(Before(k), tokens[k].first - 1)

\* Where the token that is being read, or the next one, may begin.
Rest == Before(Len(tokens) + 1)

\* The invariant behind NothingLost: it accounts for the token that is being
\* read too.
Gapless ==
    /\ \A k \in 1..Len(tokens) : Placed(k)
    /\ mode = "next" => Blank(Rest, pos)
    /\ Inside(mode) => Rest < start /\ Blank(Rest, start - 1)

\* The bounds of a token are numbers.
LEMMA TokenBounds ==
    ASSUME TypeOK, NEW k \in 1..Len(tokens)
    PROVE  tokens[k].first \in Nat \ {0} /\ tokens[k].last \in Nat
  <1>1. tokens[k] \in Token
    BY DEF TypeOK
  <1> QED BY <1>1 DEF Token

\* What is before a token has been taken.
LEMMA BeforeNat ==
    ASSUME TypeOK, Gapless, NEW k \in 1..(Len(tokens) + 1)
    PROVE  Before(k) \in Nat /\ Before(k) <= pos
  <1>1. Len(tokens) \in Nat /\ pos \in Nat
    BY DEF TypeOK
  <1>2. CASE k = 1
    BY <1>1, <1>2 DEF Before
  <1>3. CASE k # 1
    <2>1. k - 1 \in 1..Len(tokens)
      BY <1>1, <1>3
    <2>2. tokens[k - 1].last \in Nat /\ tokens[k - 1].last <= pos
      BY <2>1, TokenBounds DEF Gapless, Placed
    <2> QED BY <1>3, <2>2 DEF Before
  <1> QED BY <1>2, <1>3

\* What is blank stays so, and pos only grows.
LEMMA PlacedKeeps ==
    ASSUME TypeOK, Gapless, NEW k \in 1..Len(tokens), tokens'[k] = tokens[k],
           Before(k)' = Before(k), pos' \in Nat, pos <= pos',
           \A i \in 1..Len(text) : text'[i] = text[i]
    PROVE  Placed(k)'
  <1>1. Placed(k) /\ Before(k) \in Nat /\ pos \in Nat /\ pos <= Len(text) /\ Len(text) \in Nat
    <2>1. k \in 1..(Len(tokens) + 1) /\ pos \in Nat /\ pos <= Len(text) /\ Len(text) \in Nat
      BY DEF TypeOK
    <2> QED BY <2>1, BeforeNat DEF Gapless
  <1>2. tokens[k].first \in Nat \ {0} /\ tokens[k].last \in Nat
    BY TokenBounds
  <1>3. Before(k) < tokens[k].first /\ tokens[k].first <= pos' + 1 /\ tokens[k].last <= pos'
    BY <1>1, <1>2 DEF Placed
  <1>4. ASSUME NEW i \in (Before(k) + 1)..(tokens[k].first - 1) PROVE text'[i] \in Blanks
    <2>1. i \in 1..Len(text) /\ text[i] \in Blanks
      BY <1>1, <1>2 DEF Placed, Blank
    <2> QED BY <2>1
  <1> QED BY <1>3, <1>4 DEF Placed, Blank

\* A step that returns no token, and leaves what has been taken as it was.
LEMMA SameTokens ==
    ASSUME TypeOK, Gapless, tokens' = tokens, pos' \in Nat, pos <= pos',
           \A i \in 1..Len(text) : text'[i] = text[i]
    PROVE  /\ \A k \in 1..Len(tokens') : Placed(k)'
           /\ Rest' = Rest /\ Rest \in Nat /\ Rest <= pos
  <1>1. \A k \in 1..Len(tokens') : Placed(k)'
    <2> TAKE k \in 1..Len(tokens')
    <2>1. Before(k)' = Before(k) /\ tokens'[k] = tokens[k] /\ k \in 1..Len(tokens)
      BY DEF Before
    <2> QED BY <2>1, PlacedKeeps
  <1>2. Rest' = Rest
    BY DEF Rest, Before
  <1>3. Len(tokens) + 1 \in 1..(Len(tokens) + 1)
    BY DEF TypeOK
  <1> QED BY <1>1, <1>2, <1>3, BeforeNat DEF Rest

\* A token is appended: the places of the others stay, and the next one may
\* begin after it.
LEMMA AppendedToken ==
    ASSUME TypeOK, NEW t \in Token, tokens' = Append(tokens, t)
    PROVE  /\ Len(tokens') = Len(tokens) + 1 /\ tokens'[Len(tokens) + 1] = t
           /\ \A k \in 1..Len(tokens) : tokens'[k] = tokens[k]
           /\ \A k \in 1..(Len(tokens) + 1) : Before(k)' = Before(k)
           /\ Rest' = t.last
  <1>1. tokens \in Seq(Token) /\ Len(tokens) \in Nat
    BY DEF TypeOK
  <1>2. /\ Len(tokens') = Len(tokens) + 1 /\ tokens'[Len(tokens) + 1] = t
        /\ \A k \in 1..Len(tokens) : tokens'[k] = tokens[k]
    BY <1>1
  <1>3. \A k \in 1..(Len(tokens) + 1) : Before(k)' = Before(k)
    <2> TAKE k \in 1..(Len(tokens) + 1)
    <2>1. k # 1 => k - 1 \in 1..Len(tokens)
      BY <1>1
    <2> QED BY <1>2, <2>1 DEF Before
  <1>4. Rest' = t.last
    <2>1. Len(tokens') + 1 # 1 /\ (Len(tokens') + 1) - 1 = Len(tokens) + 1
      BY <1>1, <1>2
    <2> QED BY <1>2, <2>1 DEF Rest, Before
  <1> QED BY <1>2, <1>3, <1>4

\* Nothing is between the end of a token and the end of what was taken.
LEMMA NoneAfter == ASSUME NEW n \in Nat PROVE (n + 1)..n = {}
  OBVIOUS

\* A step of the tokenizer leaves no gap: a blank is skipped between two tokens only,
\* and a token ends where the next may begin.
LEMMA GaplessShape == ASSUME TypeOK, Gapless, Shape PROVE Gapless'
  <1>1. /\ text' = text /\ pos \in Nat /\ pos' \in Nat /\ pos <= pos'
        /\ start \in Nat /\ start <= pos + 1
    BY DEF TypeOK, Shape, Advance
  <1>2. \A i \in 1..Len(text) : text'[i] = text[i]
    BY <1>1
  <1>3. Rest \in Nat /\ Rest <= pos
    <2>1. Len(tokens) + 1 \in 1..(Len(tokens) + 1)
      BY DEF TypeOK
    <2> QED BY <2>1, BeforeNat DEF Rest
  <1>4. CASE Skips
    <2>1. (\A k \in 1..Len(tokens') : Placed(k)') /\ Rest' = Rest
      BY <1>1, <1>2, <1>4, SameTokens DEF Skips
    <2>2. ASSUME NEW i \in (Rest + 1)..(pos + 1) PROVE text[i] \in Blanks
      <3>1. i = pos + 1 \/ i \in (Rest + 1)..pos
        BY <1>1, <1>3
      <3> QED BY <1>4, <3>1 DEF Skips, Gapless, Blank
    <2>3. Blank(Rest, pos)' /\ mode' = "next"
      BY <1>1, <1>4, <2>1, <2>2 DEF Skips, Blank
    <2> QED BY <2>1, <2>3 DEF Gapless, Inside
  <1>5. CASE Begins
    <2>1. (\A k \in 1..Len(tokens') : Placed(k)') /\ Rest' = Rest
      BY <1>1, <1>2, <1>5, SameTokens DEF Begins
    <2>2. Blank(Rest, pos) /\ start' = pos + 1 /\ mode' # "next"
      BY <1>5 DEF Begins, Gapless, Inside
    <2>3. Rest < start' /\ start' - 1 = pos
      BY <1>1, <1>3, <2>2
    <2>4. Blank(Rest, start - 1)'
      BY <1>1, <2>1, <2>2, <2>3 DEF Blank
    <2> QED BY <2>1, <2>2, <2>3, <2>4 DEF Gapless
  <1>6. CASE GoesOn
    <2>1. (\A k \in 1..Len(tokens') : Placed(k)') /\ Rest' = Rest
      BY <1>1, <1>2, <1>6, SameTokens DEF GoesOn
    <2>2. Rest < start /\ Blank(Rest, start - 1) /\ start' = start /\ mode' # "next"
      BY <1>6 DEF GoesOn, Gapless, Inside
    <2>3. Blank(Rest, start - 1)'
      BY <1>1, <2>1, <2>2 DEF Blank
    <2> QED BY <2>1, <2>2, <2>3 DEF Gapless
  <1>7. ASSUME NEW t, Returns(t) PROVE Gapless'
    <2>1. t \in Token /\ tokens' = Append(tokens, t) /\ t.last = pos'
          /\ t.first = IF mode = "next" THEN pos + 1 ELSE start
      BY <1>7 DEF Returns
    <2>2. Rest < t.first /\ Blank(Rest, t.first - 1) /\ t.first <= pos + 1 /\ t.first \in Nat
      <3>1. CASE mode = "next"
        <4>1. Blank(Rest, pos) /\ t.first = pos + 1
          BY <2>1, <3>1 DEF Gapless
        <4>2. t.first - 1 = pos /\ Rest < t.first
          BY <1>1, <1>3, <4>1
        <4> QED BY <1>1, <4>1, <4>2
      <3>2. CASE mode # "next"
        <4>1. Inside(mode)
          BY <1>7, <3>2 DEF Returns, TypeOK, Inside
        <4> QED BY <1>1, <2>1, <3>2, <4>1 DEF Gapless
      <3> QED BY <3>1, <3>2
    <2>3. \A k \in 1..Len(tokens) : Placed(k)'
      <3> TAKE k \in 1..Len(tokens)
      <3>1. tokens'[k] = tokens[k] /\ Before(k)' = Before(k)
        <4>1. k \in 1..(Len(tokens) + 1)
          BY DEF TypeOK
        <4> QED BY <2>1, <4>1, AppendedToken
      <3> QED BY <1>1, <1>2, <3>1, PlacedKeeps
    <2>0. PICK n \in Nat : n = Len(tokens) + 1
      BY DEF TypeOK
    <2>4. Placed(n)'
      <3>1. Before(n)' = Rest
        <4>1. n \in 1..(Len(tokens) + 1)
          BY <2>0 DEF TypeOK
        <4>2. Before(n)' = Before(n)
          BY <2>1, <4>1, AppendedToken
        <4> QED BY <2>0, <4>2 DEF Rest
      <3>2. tokens'[n] = t
        BY <2>0, <2>1, AppendedToken
      <3> QED BY <1>1, <2>1, <2>2, <3>1, <3>2 DEF Placed, Blank
    <2>5. Len(tokens') = Len(tokens) + 1 /\ Rest' = pos'
      BY <2>1, AppendedToken
    <2>6. Blank(Rest, pos)'
      <3>1. (pos' + 1)..pos' = {}
        BY <1>1, NoneAfter
      <3> QED BY <2>5, <3>1 DEF Blank
    <2>7. \A k \in 1..Len(tokens') : Placed(k)'
      <3> TAKE k \in 1..Len(tokens')
      <3>1. k \in 1..Len(tokens) \/ k = n
        BY <2>0, <2>5 DEF TypeOK
      <3> QED BY <2>3, <2>4, <3>1
    <2>8. ~Inside(mode')
      BY <1>7 DEF Returns, Inside
    <2> QED BY <2>6, <2>7, <2>8 DEF Gapless
  <1> QED BY <1>4, <1>5, <1>6, <1>7 DEF Shape

\* What the stream delivers comes after all that was taken.
LEMMA GaplessStep == ASSUME TypeOK, Gapless, [Next]_vars PROVE Gapless'
  <1>1. CASE Step
    BY <1>1, StepShape, GaplessShape
  <1>2. CASE (End \/ \E c \in Later : Deliver(c)) \/ UNCHANGED vars
    <2>1. /\ \A i \in 1..Len(text) : text'[i] = text[i]
          /\ UNCHANGED <<pos, mode, start, tokens>>
      BY <1>2, StreamStep DEF vars
    <2>2. /\ pos \in Nat /\ pos <= Len(text) /\ Len(text) \in Nat
          /\ start \in Nat /\ start <= pos + 1
      BY DEF TypeOK
    <2>3. /\ \A k \in 1..Len(tokens') : Placed(k)'
          /\ Rest' = Rest /\ Rest \in Nat /\ Rest <= pos
      BY <2>1, <2>2, SameTokens
    <2>4. \A i \in 1..pos : text'[i] = text[i]
      BY <2>1, <2>2
    <2>5. \A b \in Nat : b <= pos /\ Blank(Rest, b) => \A i \in (Rest + 1)..b : text'[i] \in Blanks
      <3> TAKE b \in Nat
      <3> HAVE b <= pos /\ Blank(Rest, b)
      <3> TAKE i \in (Rest + 1)..b
      <3>1. i \in 1..pos
        BY <2>2, <2>3
      <3> QED BY <2>4, <3>1 DEF Blank
    <2>6. mode' = "next" => Blank(Rest, pos)'
      BY <2>1, <2>2, <2>3, <2>5 DEF Gapless, Blank
    <2>7. Inside(mode') => Rest' < start' /\ Blank(Rest, start - 1)'
      <3> SUFFICES ASSUME Inside(mode) PROVE Rest < start /\ Blank(Rest, start - 1)'
        BY <2>1, <2>3
      <3>1. Rest < start /\ Blank(Rest, start - 1)
        BY DEF Gapless
      <3>2. start - 1 \in Nat /\ start - 1 <= pos
        BY <2>2, <2>3, <3>1
      <3> QED BY <2>1, <2>3, <2>5, <3>1, <3>2 DEF Blank
    <2> QED BY <2>3, <2>6, <2>7 DEF Gapless
  <1> QED BY <1>1, <1>2 DEF Next

\* There is no token and no gap at first.
LEMMA GaplessInit == ASSUME Init PROVE Gapless
  <1>1. Len(tokens) = 0 /\ mode = "next" /\ pos = 0
    BY DEF Init, Started
  <1>2. Rest = 0
    BY <1>1 DEF Rest, Before
  <1> QED BY <1>1, <1>2 DEF Gapless, Blank, Inside

\* Nothing but blanks is left out between the tokens of a text, and nothing is
\* read twice, wherever the tokenizer has looked ahead.
THEOREM NothingIsLost == Spec => []NothingLost
  <1>1. ASSUME TypeOK, Gapless PROVE NothingLost
    <2>1. DOMAIN tokens = 1..Len(tokens)
      BY DEF TypeOK
    <2> QED BY <1>1, <2>1 DEF Gapless, Placed, Blank, Rest, NothingLost
  <1> QED BY <1>1, TypeInit, TypeStep, GaplessInit, GaplessStep, PTL DEF Spec

-----------------------------------------------------------------------------
(***************************************************************************)
(* Tokenizer implements TokenStream: every token it hands over is the one   *)
(* that Lexemes says begins there, as long as it may be, and no character   *)
(* that may still come can change it.                                       *)
(*                                                                         *)
(* The refinement mapping is the identity on text, ended and tokens; what   *)
(* takes the work is the invariant (Reads), which says of every loop of the *)
(* tokenizer what the characters that it has taken are the beginning of.    *)
(***************************************************************************)
-----------------------------------------------------------------------------
(* What Lexemes says in TokenStream it says here *)

\* The characters and the types of tokens.
LEMMA SameSets ==
    /\ Stream!Quote = Quote /\ Stream!Backslash = Backslash /\ Stream!Blanks = Blanks
    /\ Stream!Symbols = Symbols /\ Stream!Signs = Signs /\ Stream!Digits = Digits
    /\ Stream!Letters = Letters /\ Stream!WordChars = WordChars /\ Stream!Escapes = Escapes
    /\ Stream!SymbolType = SymbolType /\ Stream!Lexical = Lexical
  BY DEF Stream!Quote, Quote, Stream!Backslash, Backslash, Stream!Blanks, Blanks,
         Stream!Symbols, Symbols, Stream!Signs, Signs, Stream!Digits, Digits,
         Stream!Letters, Letters, Stream!WordChars, WordChars, Stream!Escapes, Escapes,
         Stream!SymbolType, SymbolType, Stream!Lexical, Lexical, Stream!TokenTypes, TokenTypes,
         Stream!CommentTypes, CommentTypes

\* The operators of the libraries.
LEMMA SameSizes ==
    /\ \A S : Stream!Cardinality(S) = Cardinality(S)
    /\ \A s : Stream!Last(s) = Last(s)
  <1>1. \A S : Stream!Cardinality(S) = Cardinality(S)
    BY DEF Stream!Cardinality, Cardinality
  <1>2. \A s : Stream!Last(s) = Last(s)
    BY DEF Stream!Last, Last
  <1> QED BY <1>1, <1>2

\* What the definitions of the tokens are made of.
LEMMA SameWords ==
    /\ \A a, b, cs : Stream!Has(a, b, cs) <=> Has(a, b, cs)
    /\ \A b, cs : Stream!NotBefore(b, cs) <=> NotBefore(b, cs)
    /\ \A a, k : Stream!IsEscaped(a, k) <=> IsEscaped(a, k)
    /\ \A n : Stream!LineEnds(n) = LineEnds(n)
  <1>1. /\ \A a, b, cs : Stream!Has(a, b, cs) <=> Has(a, b, cs)
        /\ \A b, cs : Stream!NotBefore(b, cs) <=> NotBefore(b, cs)
    BY DEF Stream!Has, Has, Stream!NotBefore, NotBefore
  <1>2. \A a, k : Stream!IsEscaped(a, k) <=> IsEscaped(a, k)
    BY SameSizes DEF Stream!IsEscaped, IsEscaped, Stream!Backslash, Backslash
  <1>3. \A n : Stream!LineEnds(n) = LineEnds(n)
    BY SameSizes DEF Stream!LineEnds, LineEnds
  <1> QED BY <1>1, <1>2, <1>3

\* Strings, in TokenStream and here.
LEMMA SameString == ASSUME NEW a, NEW b PROVE Stream!IsString(a, b) <=> IsString(a, b)
  BY SameSets, SameWords DEF Stream!IsString, IsString

\* Binary literals.
LEMMA SameBinary == ASSUME NEW a, NEW b PROVE Stream!IsBinary(a, b) <=> IsBinary(a, b)
  BY SameSets, SameWords DEF Stream!IsBinary, IsBinary

\* Numbers.
LEMMA SameNumber == ASSUME NEW a, NEW b PROVE Stream!IsNumber(a, b) <=> IsNumber(a, b)
  BY SameSets, SameWords DEF Stream!IsNumber, IsNumber

\* Words.
LEMMA SameWord == ASSUME NEW a, NEW b PROVE Stream!IsWord(a, b) <=> IsWord(a, b)
  BY SameSets, SameWords DEF Stream!IsWord, IsWord

\* Comments of one line.
LEMMA SameLine == ASSUME NEW a, NEW b PROVE Stream!EndsLine(a, b) <=> EndsLine(a, b)
  BY SameSets, SameWords DEF Stream!EndsLine, EndsLine

\* Comments of several.
LEMMA SameBlock == ASSUME NEW a, NEW b PROVE Stream!IsBlock(a, b) <=> IsBlock(a, b)
  BY DEF Stream!IsBlock, IsBlock

\* The types of the symbols.
SymbolTypes == {SymbolType[c] : c \in Symbols}

\* They are five, and no other token has one of them.
LEMMA SymbolTypesAre == SymbolTypes = {"Equal", "LBrace", "RBrace", "LBracket", "RBracket"}
  BY DEF SymbolTypes, SymbolType, Symbols

\* One text is a token of a type in both.
LEMMA SameLexeme ==
    ASSUME NEW type \in Lexical, NEW a, NEW b
    PROVE  Stream!IsLexeme(type, a, b) <=> IsLexeme(type, a, b)
  <1>1. {Stream!SymbolType[c] : c \in Stream!Symbols} = SymbolTypes
    BY SameSets DEF SymbolTypes
  <1>2. CASE type \in SymbolTypes
    BY <1>1, <1>2, SameSets DEF SymbolTypes, Stream!IsLexeme, IsLexeme
  <1>3. CASE type = "String"
    BY <1>1, <1>3, SymbolTypesAre, SameString DEF SymbolTypes, Stream!IsLexeme, IsLexeme
  <1>4. CASE type = "Binary"
    BY <1>1, <1>4, SymbolTypesAre, SameBinary DEF SymbolTypes, Stream!IsLexeme, IsLexeme
  <1>5. CASE type \in {"Integer", "Double"}
    BY <1>1, <1>5, SymbolTypesAre, SameNumber, SameWords DEF SymbolTypes, Stream!IsLexeme, IsLexeme
  <1>6. CASE type \in {"Bool", "Identifier"}
    BY <1>1, <1>6, SymbolTypesAre, SameWord DEF SymbolTypes, Stream!IsLexeme, IsLexeme
  <1>7. CASE type \in {"SingleLineBash", "SingleLineC"}
    BY <1>1, <1>7, SymbolTypesAre, SameLine DEF SymbolTypes, Stream!IsLexeme, IsLexeme
  <1>8. CASE type = "MultiLineC"
    BY <1>1, <1>8, SymbolTypesAre, SameBlock DEF SymbolTypes, Stream!IsLexeme, IsLexeme
  <1> QED
    BY <1>2, <1>3, <1>4, <1>5, <1>6, <1>7, <1>8, SymbolTypesAre
       DEF Lexical, TokenTypes, CommentTypes

-----------------------------------------------------------------------------
(* Which characters are escaped *)

\* One more is even when it was odd.
LEMMA Parity == ASSUME NEW n \in Nat PROVE ((n + 1) % 2 = 1) <=> ~(n % 2 = 1)
  OBVIOUS

\* The backslashes that end at k - 1.
Run(a, k) == {j \in (a + 1)..(k - 1) : \A i \in j..(k - 1) : text[i] = Backslash}

\* A character is escaped when the backslash before it is not.
LEMMA EscapedNext ==
    ASSUME NEW a \in Nat, NEW k \in Nat, a < k
    PROVE  IsEscaped(a, k + 1) <=> text[k] = Backslash /\ ~IsEscaped(a, k)
  <1>1. IsFiniteSet(Run(a, k))
    <2>1. IsFiniteSet((a + 1)..(k - 1))
      BY FS_Interval
    <2> QED BY <2>1, FS_Subset DEF Run
  <1>2. (k + 1) - 1 = k
    OBVIOUS
  <1>3. CASE text[k] = Backslash
    <2>1. Run(a, k + 1) = Run(a, k) \cup {k} /\ k \notin Run(a, k)
      <3>1. ASSUME NEW j PROVE j \in Run(a, k + 1) <=> j \in Run(a, k) \/ j = k
        <4>1. j \in Run(a, k + 1) <=> j \in (a + 1)..k /\ \A i \in j..k : text[i] = Backslash
          BY <1>2 DEF Run
        <4>2. CASE j \in (a + 1)..(k - 1)
          <5>1. j..k = j..(k - 1) \cup {k}
            BY <4>2
          <5> QED BY <1>3, <4>1, <4>2, <5>1 DEF Run
        <4>3. CASE j = k
          BY <1>3, <4>1, <4>3
        <4>4. CASE j \notin (a + 1)..k
          BY <4>1, <4>4 DEF Run
        <4> QED BY <4>2, <4>3, <4>4
      <3> QED BY <3>1 DEF Run
    <2>2. Cardinality(Run(a, k + 1)) = Cardinality(Run(a, k)) + 1
      BY <1>1, <2>1, FS_AddElement
    <2>3. Cardinality(Run(a, k)) \in Nat
      BY <1>1, FS_CardinalityType
    <2> QED BY <1>2, <1>3, <2>2, <2>3, Parity DEF IsEscaped, Run
  <1>4. CASE text[k] # Backslash
    <2>1. Run(a, k + 1) = {}
      BY <1>2, <1>4 DEF Run
    <2>2. Cardinality(Run(a, k + 1)) = 0
      BY <2>1, FS_EmptySet
    <2> QED BY <1>2, <1>4, <2>2 DEF IsEscaped, Run
  <1> QED BY <1>3, <1>4

\* The first character of a string is not escaped.
LEMMA EscapedFirst == ASSUME NEW a \in Nat PROVE ~IsEscaped(a, a + 1)
  <1>1. Run(a, a + 1) = {}
    BY DEF Run
  <1>2. Cardinality(Run(a, a + 1)) = 0
    BY <1>1, FS_EmptySet
  <1> QED BY <1>2 DEF IsEscaped, Run

-----------------------------------------------------------------------------
(* What has been read of a token *)

\* What follows position b is known.
Seen(b) == b < Len(text) \/ ended

\* A string that is not closed, nor spoilt by an escape.
StringTo(a, b) ==
    /\ text[a] = Quote
    /\ \A k \in (a + 1)..b : /\ text[k] = Quote => IsEscaped(a, k)
                             /\ IsEscaped(a, k) => text[k] \in Escapes

\* A binary literal that is not closed.
BinaryTo(a, b) == a < b /\ text[a] = "b" /\ text[a + 1] = Quote /\ ~Has(a + 2, b, {Quote})

\* A number that may go on.
NumberTo(a, b) ==
    /\ text[a] \in Signs \cup Digits
    /\ \A k \in (a + 1)..b :
          \/ text[k] \in Digits \cup {"e"}
          \/ text[k] = "." /\ ~Has(a, k - 1, {".", "e"})
          \/ text[k] \in Signs /\ text[k - 1] = "e"
    /\ double <=> Has(a, b, {".", "e"})

\* A word that may go on; a b alone is known to begin no binary literal.
WordTo(a, b) ==
    /\ text[a] \in Letters \cup {"_"} /\ \A k \in a..b : text[k] \in WordChars
    /\ a = b /\ text[a] = "b" => Seen(b) /\ NotBefore(b, {Quote})

\* A comment of one line, which is not over.
LineTo(a, b) ==
    /\ text[a] = "#" \/ (a < b /\ text[a] = "/" /\ text[a + 1] = "/")
    /\ ~Has(a, b, {"nl"})

\* A comment that is not closed.
BlockTo(a, b) ==
    /\ a < b /\ text[a] = "/" /\ text[a + 1] = "*"
    /\ \A k \in (a + 3)..b : ~(text[k - 1] = "*" /\ text[k] = "/")

\* In mode m, the text from a to b is what has been read of a token.
Reads(m, a, b) ==
    /\ m = "string" => StringTo(a, b) /\ ~IsEscaped(a, b + 1)
    /\ m = "escape" => StringTo(a, b) /\ IsEscaped(a, b + 1)
    /\ m = "after_b" => a = b /\ text[a] = "b"
    /\ m = "binary" => BinaryTo(a, b)
    /\ m = "after_slash" => a = b /\ text[a] = "/"
    /\ m = "number" => NumberTo(a, b) /\ (text[b] = "e" => Seen(b) /\ NotBefore(b, Signs))
    /\ m = "after_e" => NumberTo(a, b) /\ text[b] = "e"
    /\ m = "word" => WordTo(a, b)
    /\ m = "line_comment" => LineTo(a, b)
    /\ m = "block" => /\ BlockTo(a, b)
                      /\ text[b] = "*" /\ a + 1 < b => Seen(b) /\ NotBefore(b, {"/"})
    /\ m = "after_star" => BlockTo(a, b) /\ text[b] = "*" /\ a + 1 < b

\* The invariant behind the refinement: what has been read of a token begins
\* it, on the line noted.
Reading ==
    Inside(mode) =>
        /\ start <= pos /\ text[start] \notin Blanks /\ startLine = 1 + LineEnds(start - 1)
        /\ Reads(mode, start, pos)

\* While the tokenizer goes on, the stream of tokens has not ended.
NotStopped == mode # "stopped" => ~Stream!Stopped

\* All that is known of a tokenizer.
Sound == TypeOK /\ Counted /\ Gapless /\ Reading /\ NotStopped

-----------------------------------------------------------------------------
(* Handing over a token *)

\* No character of a text is the end of the stream.
LEMMA EndIsEnd ==
    ASSUME TypeOK PROVE Char = "eof" <=> pos = Len(text)
  <1>1. CASE pos < Len(text)
    <2>1. text[pos + 1] \in Chars /\ Len(text) \in Nat /\ pos \in Nat
      BY <1>1 DEF TypeOK
    <2>2. "eof" \notin Chars
      BY CharsAssumption DEF Blanks, Symbols, Signs, Digits, Letters, Others, Quote, Backslash
    <2> QED BY <1>1, <2>1, <2>2 DEF Char
  <1>2. CASE ~(pos < Len(text))
    BY <1>2 DEF Char, TypeOK
  <1> QED BY <1>1, <1>2

\* More characters have no fewer line ends.
LEMMA LineEndsOrder ==
    ASSUME NEW m \in Nat, NEW n \in Nat, m <= n
    PROVE  LineEnds(m) \in Nat /\ LineEnds(n) \in Nat /\ LineEnds(m) <= LineEnds(n)
  <1> DEFINE Old == {i \in 1..m : text[i] = "nl"}
             New == {i \in 1..n : text[i] = "nl"}
  <1>1. IsFiniteSet(New)
    <2>1. IsFiniteSet(1..n)
      BY FS_Interval
    <2> QED BY <2>1, FS_Subset
  <1>2. Old \subseteq New
    OBVIOUS
  <1>3. IsFiniteSet(Old) /\ Cardinality(Old) <= Cardinality(New)
    BY <1>1, <1>2, FS_Subset
  <1> QED BY <1>1, <1>3, FS_CardinalityType DEF LineEnds

\* Where the next token may begin, in TokenStream and here.
LEMMA TakenIsRest == ASSUME TypeOK PROVE Stream!Taken = Rest
  <1>1. tokens \in Seq(Token)
    BY DEF TypeOK
  <1>2. CASE tokens = <<>>
    BY <1>2 DEF Stream!Taken, Rest, Before
  <1>3. CASE tokens # <<>>
    <2>1. Len(tokens) \in Nat \ {0}
      BY <1>1, <1>3
    <2>2. (Len(tokens) + 1) - 1 = Len(tokens) /\ Len(tokens) + 1 # 1
      BY <2>1
    <2>3. Stream!Last(tokens) = tokens[Len(tokens)]
      BY SameSizes DEF Last
    <2> QED BY <1>3, <2>2, <2>3 DEF Stream!Taken, Rest, Before
  <1> QED BY <1>2, <1>3

\* After a token that is appended, whether the stream of tokens has ended.
LEMMA Stops ==
    ASSUME TypeOK, NEW t \in Token, tokens' = Append(tokens, t)
    PROVE  /\ tokens' # <<>> /\ Stream!Last(tokens') = t
           /\ Stream!Stopped' <=> t.type \in {"EndOfFile", "Unknown"}
  <1>1. tokens \in Seq(Token)
    BY DEF TypeOK
  <1>2. tokens' # <<>> /\ Len(tokens') = Len(tokens) + 1 /\ tokens'[Len(tokens) + 1] = t
    BY <1>1
  <1>3. Stream!Last(tokens') = t
    BY <1>2, SameSizes DEF Last
  <1> QED BY <1>2, <1>3 DEF Stream!Stopped

\* Where the token that is being read begins.
First == IF mode = "next" THEN pos + 1 ELSE start

\* The lines it stands on, when it ends with what has been taken.
LEMMA OnLine ==
    ASSUME Sound, mode # "stopped", pos' \in {pos, pos + 1}
    PROVE  /\ First \in Nat \ {0}
           /\ 1 + LineEnds(First - 1) <= line /\ line <= 1 + LineEnds(pos')
  <1>0. TypeOK /\ Counted /\ Reading
    BY DEF Sound
  <1>1. pos \in Nat /\ pos' \in Nat /\ pos <= pos' /\ start \in Nat \ {0} /\ startLine <= line
        /\ line = 1 + LineEnds(pos) /\ line \in Nat /\ startLine \in Nat
    BY <1>0 DEF TypeOK, Counted
  <1>2. LineEnds(pos) <= LineEnds(pos') /\ LineEnds(pos) \in Nat /\ LineEnds(pos') \in Nat
    BY <1>1, LineEndsOrder
  <1>3. CASE mode = "next"
    <2>1. First = pos + 1 /\ First - 1 = pos /\ First \in Nat \ {0}
      BY <1>1, <1>3 DEF First
    <2> QED BY <1>1, <1>2, <2>1
  <1>4. CASE mode # "next"
    <2>1. First = start /\ Inside(mode)
      BY <1>0, <1>4 DEF First, Inside, TypeOK
    <2>2. startLine = 1 + LineEnds(start - 1)
      BY <1>0, <2>1 DEF Reading
    <2> QED BY <1>1, <1>2, <2>1, <2>2
  <1> QED BY <1>3, <1>4

\* A step that returns a token hands it over, if TokenStream calls it one.
LEMMA HandsOver ==
    ASSUME Sound, mode # "stopped", NEW type \in TokenTypes, NEW at \in Nat \ {0},
           Return(type, at), pos' \in {pos, pos + 1}, pos' <= Len(text),
           Stream!IsToken(type, First, pos'),
           1 + LineEnds(First - 1) <= at, at <= 1 + LineEnds(pos'),
           mode = "next" /\ pos < Len(text) => text[pos + 1] \notin Blanks
    PROVE  Stream!HandOver /\ NotStopped' /\ Reading'
  <1>0. TypeOK /\ Gapless /\ Reading /\ NotStopped
    BY DEF Sound
  <1> DEFINE t == [type |-> type, line |-> at, last |-> pos', first |-> First]
  <1>1. pos \in Nat /\ pos' \in Nat /\ start \in Nat \ {0} /\ Len(text) \in Nat
    BY <1>0 DEF TypeOK
  <1>2. t \in Token /\ tokens' = Append(tokens, t) /\ t.type = type /\ t.first = First
        /\ t.last = pos' /\ t.line = at /\ UNCHANGED <<text, ended>>
        /\ mode' = (IF type \in {"EndOfFile", "Unknown"} THEN "stopped" ELSE "next")
    BY <1>1 DEF Return, First, Token
  <1> HIDE DEF t
  <1>3. tokens' # <<>> /\ Stream!Last(tokens') = t
        /\ (Stream!Stopped' <=> type \in {"EndOfFile", "Unknown"})
    BY <1>0, <1>2, Stops
  <1>4. NotStopped'
    BY <1>2, <1>3 DEF NotStopped
  <1>5. Reading'
    BY <1>2 DEF Reading, Inside
  <1>6. Rest \in Nat /\ Rest <= pos /\ Stream!Taken = Rest
    <2>1. Len(tokens) + 1 \in 1..(Len(tokens) + 1)
      BY <1>0 DEF TypeOK
    <2> QED BY <1>0, <2>1, BeforeNat, TakenIsRest DEF Rest
  <1>7. Rest < First /\ Blank(Rest, First - 1) /\ (First <= Len(text) => text[First] \notin Blanks)
    <2>1. CASE mode = "next"
      <3>1. Blank(Rest, pos) /\ First = pos + 1 /\ First - 1 = pos
        BY <1>0, <1>1, <2>1 DEF Gapless, First
      <3> QED BY <1>1, <1>6, <2>1, <3>1
    <2>2. CASE mode # "next"
      <3>1. Inside(mode) /\ First = start
        BY <1>0, <2>2 DEF First, Inside, TypeOK
      <3> QED BY <1>0, <3>1 DEF Gapless, Reading
    <2> QED BY <2>1, <2>2
  <1>8. Stream!IsNext(First)
    BY <1>6, <1>7, SameSets DEF Stream!IsNext, Blank
  <1>9. Stream!IsLine(at, First, pos')
    BY SameWords DEF Stream!IsLine
  <1>10. ~Stream!Stopped
    BY <1>0 DEF NotStopped
  <1>11. /\ tokens' = Append(tokens, t)
         /\ t.last <= Len(text) /\ Stream!IsNext(t.first) /\ Stream!IsToken(t.type, t.first, t.last)
         /\ Stream!IsLine(t.line, t.first, t.last)
    BY <1>2, <1>8, <1>9
  <1>12. Stream!HandOver
    BY <1>2, <1>3, <1>10, <1>11 DEF Stream!HandOver
  <1> QED BY <1>4, <1>5, <1>12

-----------------------------------------------------------------------------
(* What has been read stays read *)

\* What comes later escapes nothing before it.
LEMMA EscapedKept ==
    ASSUME NEW a \in Nat, NEW k \in Nat, \A i \in 1..(k - 1) : text'[i] = text[i]
    PROVE  IsEscaped(a, k)' <=> IsEscaped(a, k)
  <1>1. {j \in (a + 1)..(k - 1) : \A i \in j..(k - 1) : text'[i] = Backslash}
          = {j \in (a + 1)..(k - 1) : \A i \in j..(k - 1) : text[i] = Backslash}
    OBVIOUS
  <1> QED BY <1>1 DEF IsEscaped

\* What has been read of a token is not changed by what the stream delivers,
\* nor by its end: what was not known is not used before it is known.
LEMMA ReadsKept ==
    ASSUME NEW m, NEW a \in Nat \ {0}, NEW b \in Nat, a <= b, b <= Len(text),
           Len(text) \in Nat, Len(text') \in Nat, Len(text) <= Len(text'),
           \A i \in 1..Len(text) : text'[i] = text[i],
           double' = double, ended => ended' /\ Len(text') = Len(text),
           Reads(m, a, b)
    PROVE  Reads(m, a, b)'
  <1>1. \A i \in 1..b : text'[i] = text[i]
    OBVIOUS
  <1>2. \A k \in (a + 1)..(b + 1) : IsEscaped(a, k)' <=> IsEscaped(a, k)
    <2> TAKE k \in (a + 1)..(b + 1)
    <2>1. k \in Nat /\ \A i \in 1..(k - 1) : text'[i] = text[i]
      BY <1>1
    <2> QED BY <2>1, EscapedKept
  <1>3. ASSUME NEW cs, Seen(b) /\ NotBefore(b, cs) PROVE (Seen(b) /\ NotBefore(b, cs))'
    BY <1>3 DEF Seen, NotBefore
  <1>5. b + 1 \in (a + 1)..(b + 1)
    OBVIOUS
  <1>6. StringTo(a, b) => StringTo(a, b)'
    BY <1>1, <1>2 DEF StringTo
  <1>7. BinaryTo(a, b) => BinaryTo(a, b)'
    BY <1>1 DEF BinaryTo, Has
  <1>8. NumberTo(a, b) => NumberTo(a, b)'
    <2>1. \A k \in (a + 1)..b : Has(a, k - 1, {".", "e"})' <=> Has(a, k - 1, {".", "e"})
      BY <1>1 DEF Has
    <2>2. Has(a, b, {".", "e"})' <=> Has(a, b, {".", "e"})
      BY <1>1 DEF Has
    <2>3. \A k \in (a + 1)..b : text'[k] = text[k] /\ text'[k - 1] = text[k - 1]
      BY <1>1
    <2>4. text'[a] = text[a]
      BY <1>1
    <2> SUFFICES ASSUME NumberTo(a, b) PROVE NumberTo(a, b)'
      OBVIOUS
    <2>5. text[a] \in Signs \cup Digits /\ (double <=> Has(a, b, {".", "e"}))
      BY DEF NumberTo
    <2>6. ASSUME NEW k \in (a + 1)..b
          PROVE  \/ text'[k] \in Digits \cup {"e"}
                 \/ text'[k] = "." /\ ~Has(a, k - 1, {".", "e"})'
                 \/ text'[k] \in Signs /\ text'[k - 1] = "e"
      <3>1. \/ text[k] \in Digits \cup {"e"}
            \/ text[k] = "." /\ ~Has(a, k - 1, {".", "e"})
            \/ text[k] \in Signs /\ text[k - 1] = "e"
        BY DEF NumberTo
      <3> QED BY <2>1, <2>3, <3>1
    <2> QED BY <2>2, <2>4, <2>5, <2>6 DEF NumberTo
  <1>9. WordTo(a, b) => WordTo(a, b)'
    <2>1. Seen(b) /\ NotBefore(b, {Quote}) => (Seen(b) /\ NotBefore(b, {Quote}))'
      BY <1>3
    <2>2. (\A k \in a..b : text[k] \in WordChars) => \A k \in a..b : text'[k] \in WordChars
      BY <1>1
    <2>3. text'[a] = text[a]
      BY <1>1
    <2> QED BY <2>1, <2>2, <2>3 DEF WordTo
  <1>10. LineTo(a, b) => LineTo(a, b)'
    BY <1>1 DEF LineTo, Has
  <1>11. BlockTo(a, b) => BlockTo(a, b)'
    BY <1>1 DEF BlockTo
  <1>12. text'[a] = text[a] /\ text'[b] = text[b]
    BY <1>1
  <1> QED BY <1>2, <1>3, <1>5, <1>6, <1>7, <1>8, <1>9, <1>10, <1>11, <1>12 DEF Reads

\* Nor is it by a step that takes no part of it.
LEMMA SameReads ==
    ASSUME NEW m, NEW a, NEW b, text' = text, ended' = ended, double' = double, Reads(m, a, b)
    PROVE  Reads(m, a, b)'
  <1>1. ASSUME NEW k PROVE IsEscaped(a, k)' <=> IsEscaped(a, k)
    BY DEF IsEscaped
  <1>2. StringTo(a, b) => StringTo(a, b)'
    BY <1>1 DEF StringTo
  <1>3. NumberTo(a, b) => NumberTo(a, b)'
    BY DEF NumberTo, Has
  <1>4. BlockTo(a, b) => BlockTo(a, b)'
    BY DEF BlockTo
  <1>5. BinaryTo(a, b) => BinaryTo(a, b)'
    BY DEF BinaryTo, Has
  <1>6. WordTo(a, b) => WordTo(a, b)'
    BY DEF WordTo, Seen, NotBefore
  <1>7. LineTo(a, b) => LineTo(a, b)'
    BY DEF LineTo, Has
  <1>8. ASSUME NEW cs PROVE (Seen(b) /\ NotBefore(b, cs))' <=> Seen(b) /\ NotBefore(b, cs)
    BY DEF Seen, NotBefore
  <1> QED BY <1>1, <1>2, <1>3, <1>4, <1>5, <1>6, <1>7, <1>8 DEF Reads

-----------------------------------------------------------------------------
(* What every step keeps *)

\* A step that hands over the next token or does not show, and keeps the invariant.
Keeps == (tokens' = tokens \/ Stream!HandOver) /\ NotStopped' /\ Reading'

\* Tokens that are not handed over stop nothing.
LEMMA StillNot ==
    ASSUME NotStopped, mode # "stopped", tokens' = tokens PROVE NotStopped'
  BY DEF NotStopped, Stream!Stopped, Stream!Last

\* A step that goes on with the token.
LEMMA ReadsOn ==
    ASSUME Sound, Inside(mode), NEW m, NEW a, NEW b, a = start, b = pos', pos' \in {pos, pos + 1},
           mode' = m, UNCHANGED <<text, start, startLine, tokens>>, Reads(m, a, b)'
    PROVE  Keeps
  <1>0. TypeOK /\ Reading /\ NotStopped
    BY DEF Sound
  <1>1. NotStopped'
    BY <1>0, StillNot DEF Inside
  <1>2. start <= pos /\ text[start] \notin Blanks /\ startLine = 1 + LineEnds(start - 1)
    BY <1>0 DEF Reading
  <1>3. start' <= pos' /\ text'[start'] \notin Blanks
    BY <1>0, <1>2 DEF TypeOK
  <1>4. LineEnds(start - 1)' = LineEnds(start - 1)
    BY DEF LineEnds
  <1>5. Reading'
    BY <1>2, <1>3, <1>4 DEF Reading
  <1> QED BY <1>1, <1>5 DEF Keeps

\* A token, of which the end is settled.
LEMMA TokenIs ==
    ASSUME NEW type \in Lexical, NEW a, NEW b, a <= b, IsLexeme(type, a, b),
           Seen(b) \/ text[b] = "nl" \/ type \in {"String", "Binary", "MultiLineC"} \cup SymbolTypes
    PROVE  Stream!IsToken(type, a, b)
  <1>1. Stream!IsLexeme(type, a, b)
    BY SameLexeme
  <1>2. Stream!Settles(type, b)
    BY SameSets DEF Stream!Settles, Seen, SymbolTypes
  <1>3. type \notin {"EndOfFile", "Unknown"}
    BY DEF Lexical
  <1> QED BY <1>1, <1>2, <1>3, SameSets DEF Stream!IsToken

\* The token for a place where none begins.
LEMMA NoToken ==
    ASSUME NEW a, NEW b, a <= b, \A i \in a..Len(text), t \in Lexical : ~IsLexeme(t, a, i)
    PROVE  Stream!IsToken("Unknown", a, b)
  <1>1. \A i \in a..Len(text), t \in Lexical : ~Stream!IsLexeme(t, a, i)
    BY SameLexeme
  <1>2. \A i \in a..Len(text), t \in Stream!Lexical : ~Stream!IsLexeme(t, a, i)
    BY <1>1, SameSets
  <1>3. "Unknown" \notin Stream!Lexical
    BY SameSets DEF Lexical
  <1> QED BY <1>2, <1>3 DEF Stream!IsToken

\* What IsLexeme says of each type.
LEMMA LexemeOf ==
    ASSUME NEW a, NEW b
    PROVE  /\ \A type \in SymbolTypes :
                 IsLexeme(type, a, b) <=> a = b /\ text[a] \in Symbols /\ SymbolType[text[a]] = type
           /\ IsLexeme("String", a, b) <=> IsString(a, b)
           /\ IsLexeme("Binary", a, b) <=> IsBinary(a, b)
           /\ IsLexeme("Integer", a, b) <=> IsNumber(a, b) /\ ~Has(a, b, {".", "e"})
           /\ IsLexeme("Double", a, b) <=> IsNumber(a, b) /\ Has(a, b, {".", "e"})
           /\ IsLexeme("Bool", a, b) <=> IsWord(a, b) /\ SubSeq(text, a, b) = <<"true">>
           /\ IsLexeme("Identifier", a, b) <=> IsWord(a, b) /\ SubSeq(text, a, b) # <<"true">>
           /\ IsLexeme("SingleLineBash", a, b) <=> text[a] = "#" /\ EndsLine(a, b)
           /\ IsLexeme("SingleLineC", a, b) <=>
                 a < b /\ text[a] = "/" /\ text[a + 1] = "/" /\ EndsLine(a, b)
           /\ IsLexeme("MultiLineC", a, b) <=> IsBlock(a, b)
  <1>1. \A type \in SymbolTypes :
           IsLexeme(type, a, b) <=> a = b /\ text[a] \in Symbols /\ SymbolType[text[a]] = type
    <2> TAKE type \in SymbolTypes
    <2>1. /\ type \in {SymbolType[c] : c \in Symbols}
          /\ type \in {"Equal", "LBrace", "RBrace", "LBracket", "RBracket"}
      BY SymbolTypesAre DEF SymbolTypes
    <2> QED BY <2>1 DEF IsLexeme
  <1>2. {SymbolType[c] : c \in Symbols} = {"Equal", "LBrace", "RBrace", "LBracket", "RBracket"}
    BY SymbolTypesAre DEF SymbolTypes
  <1>3. IsLexeme("String", a, b) <=> IsString(a, b)
    BY <1>2 DEF IsLexeme
  <1>4. IsLexeme("Binary", a, b) <=> IsBinary(a, b)
    BY <1>2 DEF IsLexeme
  <1>5. IsLexeme("Integer", a, b) <=> IsNumber(a, b) /\ ~Has(a, b, {".", "e"})
    BY <1>2 DEF IsLexeme
  <1>6. IsLexeme("Double", a, b) <=> IsNumber(a, b) /\ Has(a, b, {".", "e"})
    BY <1>2 DEF IsLexeme
  <1>7. IsLexeme("Bool", a, b) <=> IsWord(a, b) /\ SubSeq(text, a, b) = <<"true">>
    BY <1>2 DEF IsLexeme
  <1>8. IsLexeme("Identifier", a, b) <=> IsWord(a, b) /\ SubSeq(text, a, b) # <<"true">>
    BY <1>2 DEF IsLexeme
  <1>9. IsLexeme("SingleLineBash", a, b) <=> text[a] = "#" /\ EndsLine(a, b)
    BY <1>2 DEF IsLexeme
  <1>10. IsLexeme("SingleLineC", a, b) <=>
            a < b /\ text[a] = "/" /\ text[a + 1] = "/" /\ EndsLine(a, b)
    BY <1>2 DEF IsLexeme
  <1>11. IsLexeme("MultiLineC", a, b) <=> IsBlock(a, b)
    BY <1>2 DEF IsLexeme
  <1> QED BY <1>1, <1>3, <1>4, <1>5, <1>6, <1>7, <1>8, <1>9, <1>10, <1>11

\* The first character of a token tells its types.
LEMMA FirstChars ==
    ASSUME NEW t \in Lexical, NEW a, NEW i, IsLexeme(t, a, i)
    PROVE  \/ text[a] \in Symbols
           \/ text[a] = Quote /\ IsString(a, i)
           \/ text[a] = "b" /\ IsBinary(a, i)
           \/ text[a] \in Signs \cup Digits
           \/ text[a] \in Letters \cup {"_"} /\ IsWord(a, i)
           \/ text[a] = "#"
           \/ text[a] = "/" /\ ((a < i /\ text[a + 1] = "/") \/ IsBlock(a, i))
  <1>1. t \in SymbolTypes \/ t \in {"String", "Binary", "Integer", "Double", "Bool", "Identifier",
                                    "SingleLineBash", "SingleLineC", "MultiLineC"}
    BY SymbolTypesAre DEF Lexical, TokenTypes, CommentTypes
  <1>2. /\ IsString(a, i) => text[a] = Quote
        /\ IsBinary(a, i) => text[a] = "b"
        /\ IsNumber(a, i) => text[a] \in Signs \cup Digits
        /\ IsWord(a, i) => text[a] \in Letters \cup {"_"}
        /\ IsBlock(a, i) => text[a] = "/"
    BY DEF IsString, IsBinary, IsNumber, IsWord, IsBlock
  <1>3. CASE t \in SymbolTypes
    BY <1>3, LexemeOf
  <1>4. CASE t \notin SymbolTypes
    BY <1>1, <1>2, <1>4, LexemeOf
  <1> QED BY <1>3, <1>4

\* The stream and the character that a step looks at.
LEMMA Looks ==
    ASSUME Sound, mode # "stopped", ~Waiting
    PROVE  /\ Seen(pos) /\ pos \in Nat /\ Len(text) \in Nat /\ pos <= Len(text)
           /\ Char # "eof" => pos < Len(text) /\ pos + 1 <= Len(text) /\ text[pos + 1] = Char
           /\ Char = "eof" => pos = Len(text) /\ ended
  <1>1. TypeOK
    BY DEF Sound
  <1>2. pos \in Nat /\ Len(text) \in Nat /\ pos <= Len(text)
    BY <1>1 DEF TypeOK
  <1>3. Char # "eof" => pos < Len(text) /\ text[pos + 1] = Char
    BY <1>1, CharIsNext
  <1>4. Char = "eof" => pos = Len(text) /\ ended
    BY <1>1, EndIsEnd DEF Waiting
  <1> QED BY <1>2, <1>3, <1>4 DEF Waiting, Seen

-----------------------------------------------------------------------------
(* Between two tokens *)

\* A blank is skipped: nothing shows.
LEMMA SkipKeeps == ASSUME Sound, SkipWhitespace PROVE Keeps
  <1>1. mode = "next" /\ mode' = "next" /\ tokens' = tokens
    BY DEF SkipWhitespace, In, GoOn
  <1>2. NotStopped'
    BY <1>1, StillNot DEF Sound
  <1> QED BY <1>1, <1>2 DEF Keeps, Reading, Inside

\* What the first character says of the function that reads on.
LEMMA ReaderIs ==
    /\ Reader = "string" => Char = Quote
    /\ Reader = "after_b" => Char = "b"
    /\ Reader = "after_slash" => Char = "/"
    /\ Reader = "number" => Char \in Signs \cup Digits
    /\ Reader = "word" => Char \in (Letters \ {"b"}) \cup {"_"}
    /\ Reader = "line_comment" => Char = "#"
    /\ Reader = "none" =>
          Char \notin {Quote, "b", "#", "/", "_"} \cup Signs \cup Digits \cup Letters
    /\ Reader \in {"string", "after_b", "after_slash", "number", "word", "line_comment", "none"}
  BY DEF Reader, Letters, Signs, Digits, Quote

\* The first character of a token is the beginning of it.
LEMMA BeginReads ==
    ASSUME Sound, Begin, NEW m, m = Reader, NEW a \in Nat \ {0}, NEW c, c = Char,
           text'[a] = c
    PROVE  Reads(m, a, a)'
  <1>1. double' = FALSE /\ text' = text /\ ended' = ended /\ m # "none"
    BY DEF Begin
  <1>2. (a + 1)..a = {} /\ (a + 2)..a = {} /\ (a + 3)..a = {} /\ a..a = {a} /\ ~(a < a)
    OBVIOUS
  <1>3. CASE m = "string"
    <2>1. c = Quote
      BY <1>3, ReaderIs
    <2>2. StringTo(a, a)'
      BY <1>2, <2>1 DEF StringTo
    <2>3. ~IsEscaped(a, a + 1)
      BY EscapedFirst
    <2>4. ~IsEscaped(a, a + 1)'
      BY <1>1, <2>3 DEF IsEscaped
    <2> QED BY <1>3, <2>2, <2>4 DEF Reads
  <1>4. CASE m = "after_b"
    BY <1>4, ReaderIs DEF Reads
  <1>5. CASE m = "after_slash"
    BY <1>5, ReaderIs DEF Reads
  <1>6. CASE m = "number"
    <2>1. c \in Signs \cup Digits
      BY <1>6, ReaderIs
    <2>2. c \notin {".", "e"}
      BY <2>1 DEF Signs, Digits
    <2>3. ~Has(a, a, {".", "e"})'
      BY <1>2, <2>2 DEF Has
    <2>4. NumberTo(a, a)'
      BY <1>1, <1>2, <2>1, <2>3 DEF NumberTo
    <2> QED BY <1>6, <2>2, <2>4 DEF Reads
  <1>7. CASE m = "word"
    <2>1. c \in Letters \cup {"_"} /\ c # "b" /\ c \in WordChars
      BY <1>7, ReaderIs DEF WordChars
    <2>2. WordTo(a, a)'
      BY <1>2, <2>1 DEF WordTo
    <2> QED BY <1>7, <2>2 DEF Reads
  <1>8. CASE m = "line_comment"
    <2>1. c = "#"
      BY <1>8, ReaderIs
    <2>2. LineTo(a, a)'
      BY <1>2, <2>1 DEF LineTo, Has
    <2> QED BY <1>8, <2>2 DEF Reads
  <1> QED BY <1>1, <1>3, <1>4, <1>5, <1>6, <1>7, <1>8, ReaderIs

\* A token begins: nothing shows.
LEMMA BeginKeeps == ASSUME Sound, Begin PROVE Keeps
  <1>1. /\ mode = "next" /\ mode' = Reader /\ Char \notin Blanks /\ Reader # "none"
        /\ start' = pos + 1 /\ startLine' = line /\ pos' = pos + 1
        /\ UNCHANGED <<text, ended, tokens>> /\ ~Waiting
    BY DEF Begin, In, Take
  <1>2. Char # "eof"
    BY <1>1 DEF Reader, Letters, Signs, Digits, Quote
  <1>3. pos \in Nat /\ text[pos + 1] = Char
    BY <1>1, <1>2, Looks
  <1>4. PICK m, c, a : a \in Nat \ {0} /\ m = Reader /\ c = Char /\ a = pos + 1
    BY <1>3
  <1>5. text'[a] = c /\ c \notin Blanks /\ a - 1 = pos /\ mode' = m /\ start' = a /\ pos' = a
    BY <1>1, <1>3, <1>4
  <1>6. Reads(m, a, a)'
    BY <1>4, <1>5, BeginReads
  <1>7. line = 1 + LineEnds(a - 1)
    BY <1>1, <1>5 DEF Sound, Counted
  <1>8. LineEnds(a - 1)' = LineEnds(a - 1)
    BY <1>1 DEF LineEnds
  <1>9. Reading'
    BY <1>1, <1>5, <1>6, <1>7, <1>8 DEF Reading
  <1>10. NotStopped'
    BY <1>1, StillNot DEF Sound
  <1> QED BY <1>1, <1>9, <1>10 DEF Keeps

\* A symbol is a token at once.
LEMMA SymbolKeeps == ASSUME Sound, ReadSymbol PROVE Keeps
  <1>1. /\ mode = "next" /\ Char \in Symbols /\ pos' = pos + 1 /\ ~Waiting
        /\ Return(SymbolType[Char], line)
    BY DEF ReadSymbol, In, Take
  <1>2. Char # "eof" /\ Char \notin Blanks
    BY <1>1 DEF Symbols, Blanks
  <1>3. pos \in Nat /\ text[pos + 1] = Char /\ pos + 1 <= Len(text)
    BY <1>1, <1>2, Looks
  <1>4. SymbolType[Char] \in SymbolTypes
    BY <1>1 DEF SymbolTypes
  <1>5. SymbolType[Char] \in Lexical /\ SymbolType[Char] \in TokenTypes
    BY <1>4, SymbolTypesAre DEF Lexical, TokenTypes
  <1>6. First = pos + 1 /\ First = pos' /\ First \in Nat
    BY <1>1, <1>3 DEF First
  <1>7. IsLexeme(SymbolType[Char], First, First)
    BY <1>1, <1>3, <1>4, <1>6, LexemeOf
  <1>8. Stream!IsToken(SymbolType[Char], First, First)
    BY <1>4, <1>5, <1>6, <1>7, TokenIs
  <1>9. 1 + LineEnds(First - 1) <= line /\ line <= 1 + LineEnds(pos') /\ line \in Nat \ {0}
    BY <1>1, OnLine, Numbers DEF Sound
  <1>10. Stream!HandOver /\ NotStopped' /\ Reading'
    BY <1>1, <1>2, <1>3, <1>5, <1>6, <1>8, <1>9, HandsOver
  <1> QED BY <1>10 DEF Keeps

\* No token begins with any other character.
LEMMA UnknownKeeps == ASSUME Sound, ReadUnknown PROVE Keeps
  <1>1. /\ mode = "next" /\ Char \notin Blanks \cup Symbols \cup {"eof"} /\ Reader = "none"
        /\ pos' = pos + 1 /\ ~Waiting /\ Return("Unknown", line)
    BY DEF ReadUnknown, In, Take
  <1>2. pos \in Nat /\ text[pos + 1] = Char /\ pos + 1 <= Len(text)
    BY <1>1, Looks
  <1>3. First = pos + 1 /\ First = pos' /\ First \in Nat
    BY <1>1, <1>2 DEF First
  <1>4. Char \notin Symbols \cup {Quote, "b", "#", "/", "_"} \cup Signs \cup Digits \cup Letters
    BY <1>1, ReaderIs
  <1>5. ASSUME NEW i, NEW t \in Lexical PROVE ~IsLexeme(t, First, i)
    BY <1>2, <1>3, <1>4, FirstChars
  <1>6. Stream!IsToken("Unknown", First, pos')
    BY <1>3, <1>5, NoToken
  <1>7. 1 + LineEnds(First - 1) <= line /\ line <= 1 + LineEnds(pos') /\ line \in Nat \ {0}
    BY <1>1, OnLine, Numbers DEF Sound
  <1>8. "Unknown" \in TokenTypes
    BY DEF TokenTypes
  <1>9. Stream!HandOver /\ NotStopped' /\ Reading'
    BY <1>1, <1>2, <1>3, <1>6, <1>7, <1>8, HandsOver
  <1> QED BY <1>9 DEF Keeps

\* The end of the stream is handed over as a token.
LEMMA EndKeeps == ASSUME Sound, ReadEnd PROVE Keeps
  <1>1. mode = "next" /\ Char = "eof" /\ pos' = pos /\ ~Waiting /\ Return("EndOfFile", line)
    BY DEF ReadEnd, In, Leave
  <1>2. pos \in Nat /\ pos = Len(text) /\ ended
    BY <1>1, Looks
  <1>3. First = Len(text) + 1 /\ First \in Nat
    BY <1>1, <1>2 DEF First
  <1>4. Stream!IsToken("EndOfFile", First, pos')
    BY <1>1, <1>2, <1>3, SameSets DEF Stream!IsToken, Lexical
  <1>7. 1 + LineEnds(First - 1) <= line /\ line <= 1 + LineEnds(pos') /\ line \in Nat \ {0}
    BY <1>1, OnLine, Numbers DEF Sound
  <1>8. "EndOfFile" \in TokenTypes
    BY DEF TokenTypes
  <1>9. Stream!HandOver /\ NotStopped' /\ Reading'
    BY <1>1, <1>2, <1>4, <1>7, <1>8, HandsOver
  <1> QED BY <1>9 DEF Keeps

-----------------------------------------------------------------------------
(* In the middle of a token *)

\* What is known there; c is the character that the step looks at.
LEMMA Middle ==
    ASSUME Sound, Inside(mode), ~Waiting, NEW a, a = start, NEW b, b = pos, NEW c, c = Char
    PROVE  /\ a \in Nat \ {0} /\ b \in Nat /\ Len(text) \in Nat /\ a <= b /\ b <= Len(text)
           /\ Reads(mode, a, b) /\ Seen(b)
           /\ c # "eof" => b + 1 <= Len(text) /\ text[b + 1] = c
           /\ c = "eof" => b = Len(text)
  <1>1. mode # "stopped"
    BY DEF Inside
  <1>2. a \in Nat \ {0} /\ a <= b /\ Reads(mode, a, b)
    BY DEF Sound, TypeOK, Reading
  <1> QED BY <1>1, <1>2, Looks

\* It goes on.
LEMMA GoesOnReading ==
    ASSUME Sound, Inside(mode), NEW m, GoOn(m), NEW a, a = start, NEW b, b = pos',
           pos' \in {pos, pos + 1}, Reads(m, a, b)
    PROVE  Keeps
  <1>1. Reads(m, a, b)' /\ mode' = m /\ UNCHANGED <<text, start, startLine, tokens>>
    BY SameReads DEF GoOn
  <1> QED BY <1>1, ReadsOn

\* It returns a token.
LEMMA ReturnsToken ==
    ASSUME Sound, Inside(mode), NEW type \in Lexical, NEW at, Return(type, at),
           NEW a, a = start, NEW b, b = pos', pos' \in {pos, pos + 1}, b <= Len(text),
           IsLexeme(type, a, b),
           \/ Seen(b) \/ text[b] = "nl"
           \/ type \in {"String", "Binary", "MultiLineC"} \cup SymbolTypes,
           at \in Nat \ {0}, at = line \/ (1 + LineEnds(a - 1) <= at /\ at <= 1 + LineEnds(b))
    PROVE  Keeps
  <1>1. mode # "stopped" /\ mode # "next" /\ First = a /\ type \in TokenTypes
    BY DEF Inside, First, Lexical
  <1>2. a <= b /\ Reading
    BY DEF Sound, TypeOK, Reading
  <1>3. Stream!IsToken(type, a, b)
    BY <1>2, TokenIs
  <1>4. 1 + LineEnds(a - 1) <= line /\ line <= 1 + LineEnds(b)
    BY <1>1, OnLine
  <1>5. 1 + LineEnds(a - 1) <= at /\ at <= 1 + LineEnds(b)
    BY <1>4
  <1>6. Stream!HandOver /\ NotStopped' /\ Reading'
    BY <1>1, <1>3, <1>5, HandsOver
  <1> QED BY <1>6 DEF Keeps

\* It returns the token for what is none.
LEMMA ReturnsUnknown ==
    ASSUME Sound, Inside(mode), Return("Unknown", line),
           NEW a, a = start, pos' \in {pos, pos + 1}, pos' <= Len(text),
           \A i \in a..Len(text), t \in Lexical : ~IsLexeme(t, a, i)
    PROVE  Keeps
  <1>1. mode # "stopped" /\ mode # "next" /\ First = a
    BY DEF Inside, First
  <1>2. a <= pos'
    BY DEF Sound, TypeOK, Reading
  <1>3. Stream!IsToken("Unknown", a, pos')
    BY <1>2, NoToken
  <1>4. 1 + LineEnds(a - 1) <= line /\ line <= 1 + LineEnds(pos') /\ line \in Nat \ {0}
    BY <1>1, OnLine, Numbers DEF Sound
  <1>5. "Unknown" \in TokenTypes
    BY DEF TokenTypes
  <1>6. Stream!HandOver /\ NotStopped' /\ Reading'
    BY <1>1, <1>3, <1>4, <1>5, HandsOver
  <1> QED BY <1>6 DEF Keeps

\* A string that is not closed where the text ends, or before an escape that is
\* none, is no token.
LEMMA NoString ==
    ASSUME NEW a \in Nat \ {0}, NEW b \in Nat, StringTo(a, b), a <= b, Len(text) \in Nat,
           b = Len(text) \/ (IsEscaped(a, b + 1) /\ text[b + 1] \notin Escapes)
    PROVE  \A i \in a..Len(text), t \in Lexical : ~IsLexeme(t, a, i)
  <1> SUFFICES ASSUME NEW i \in a..Len(text), NEW t \in Lexical, IsLexeme(t, a, i) PROVE FALSE
    OBVIOUS
  <1>1. text[a] = Quote
    BY DEF StringTo
  <1>2. Quote \notin Symbols \cup Signs \cup Digits \cup Letters \cup {"b", "_", "#", "/"}
    BY DEF Quote, Symbols, Signs, Digits, Letters
  <1>3. IsString(a, i)
    BY <1>1, <1>2, FirstChars
  <1>4. a < i /\ i \in Nat
    BY <1>3 DEF IsString
  <1>5. CASE i <= b
    <2>1. i \in (a + 1)..b /\ i \in (a + 1)..i
      BY <1>4, <1>5
    <2>2. text[i] = Quote /\ ~IsEscaped(a, i)
      BY <1>3, <2>1 DEF IsString
    <2> QED BY <2>1, <2>2 DEF StringTo
  <1>6. CASE i > b
    <2>1. b # Len(text) /\ b + 1 \in (a + 1)..i
      BY <1>4, <1>6
    <2> QED BY <1>3, <2>1 DEF IsString
  <1> QED BY <1>4, <1>5, <1>6

\* A string ends at the first quote that is not escaped.
LEMMA StringKeeps == ASSUME Sound, ReadString PROVE Keeps
  <1>1. Inside(mode) /\ mode = "string" /\ ~Waiting /\ mode # "next"
    BY DEF ReadString, In, Inside, Modes
  <1>2. PICK a, b, c : a = start /\ b = pos /\ c = Char
    OBVIOUS
  <1>3. /\ a \in Nat \ {0} /\ b \in Nat /\ Len(text) \in Nat /\ a <= b /\ b <= Len(text)
        /\ Reads("string", a, b) /\ Seen(b)
        /\ c # "eof" => b + 1 <= Len(text) /\ text[b + 1] = c
        /\ c = "eof" => b = Len(text)
    BY <1>1, <1>2, Middle
  <1>4. StringTo(a, b) /\ ~IsEscaped(a, b + 1)
    BY <1>3 DEF Reads
  <1>5. c # "eof" => (IsEscaped(a, (b + 1) + 1) <=> c = Backslash)
    <2>1. a \in Nat /\ b + 1 \in Nat /\ a < b + 1
      BY <1>3
    <2> QED BY <1>3, <1>4, <2>1, EscapedNext
  <1>6. \A k \in (a + 1)..(b + 1) : k \in (a + 1)..b \/ k = b + 1
    BY <1>3
  <1>7. c \notin {Quote, "eof"} => StringTo(a, b + 1)
    BY <1>3, <1>4, <1>6 DEF StringTo
  <1>8. "eof" # Quote /\ "eof" # Backslash
    BY DEF Quote, Backslash
  <1>9. CASE c = Quote /\ Take /\ Return("String", line)
    <2>1. pos' = b + 1
      BY <1>2, <1>9 DEF Take
    <2>2. IsString(a, b + 1)
      <3>1. \A k \in (a + 1)..b : k # b + 1
        BY <1>3
      <3> QED BY <1>3, <1>4, <1>6, <1>8, <1>9, <3>1 DEF StringTo, IsString
    <2>3. IsLexeme("String", a, b + 1) /\ "String" \in Lexical
      BY <2>2, LexemeOf DEF Lexical, TokenTypes
    <2>4. line \in Nat \ {0}
      BY Numbers DEF Sound
    <2> QED BY <1>1, <1>2, <1>3, <1>8, <1>9, <2>1, <2>3, <2>4, ReturnsToken
  <1>10. CASE c = Backslash /\ Take /\ GoOn("escape")
    <2>1. pos' = b + 1 /\ c # Quote
      BY <1>2, <1>10 DEF Take, Quote, Backslash
    <2>2. Reads("escape", a, b + 1)
      BY <1>5, <1>7, <1>8, <1>10, <2>1 DEF Reads
    <2> QED BY <1>1, <1>2, <1>10, <2>1, <2>2, GoesOnReading
  <1>11. CASE c \notin {Quote, Backslash, "eof"} /\ Take /\ GoOn("string")
    <2>1. pos' = b + 1
      BY <1>2, <1>11 DEF Take
    <2>2. Reads("string", a, b + 1)
      BY <1>5, <1>7, <1>11 DEF Reads
    <2> QED BY <1>1, <1>2, <1>11, <2>1, <2>2, GoesOnReading
  <1>12. CASE c = "eof" /\ Leave /\ Return("Unknown", line)
    <2>1. pos' = b /\ b = Len(text)
      BY <1>2, <1>3, <1>12 DEF Leave
    <2>2. \A i \in a..Len(text), t \in Lexical : ~IsLexeme(t, a, i)
      BY <1>3, <1>4, <2>1, NoString
    <2> QED BY <1>1, <1>2, <1>3, <1>12, <2>1, <2>2, ReturnsUnknown
  <1> QED BY <1>2, <1>9, <1>10, <1>11, <1>12 DEF ReadString

\* An escape that is none makes the string no token.
LEMMA EscapeKeeps == ASSUME Sound, ReadEscape PROVE Keeps
  <1>1. Inside(mode) /\ mode = "escape" /\ ~Waiting /\ mode # "next"
    BY DEF ReadEscape, In, Inside, Modes
  <1>2. PICK a, b, c : a = start /\ b = pos /\ c = Char
    OBVIOUS
  <1>3. /\ a \in Nat \ {0} /\ b \in Nat /\ Len(text) \in Nat /\ a <= b /\ b <= Len(text)
        /\ Reads("escape", a, b) /\ Seen(b)
        /\ c # "eof" => b + 1 <= Len(text) /\ text[b + 1] = c
        /\ c = "eof" => b = Len(text)
    BY <1>1, <1>2, Middle
  <1>4. StringTo(a, b) /\ IsEscaped(a, b + 1)
    BY <1>3 DEF Reads
  <1>5. "eof" \notin Escapes
    BY DEF Escapes, Quote, Backslash
  <1>6. CASE c \in Escapes /\ Take /\ GoOn("string")
    <2>1. pos' = b + 1
      BY <1>2, <1>6 DEF Take
    <2>2. ~IsEscaped(a, (b + 1) + 1)
      BY <1>3, <1>4, EscapedNext
    <2>3. \A k \in (a + 1)..(b + 1) : k \in (a + 1)..b \/ k = b + 1
      BY <1>3
    <2>4. StringTo(a, b + 1)
      BY <1>3, <1>4, <1>5, <1>6, <2>3 DEF StringTo
    <2>5. Reads("string", a, b + 1)
      BY <2>2, <2>4 DEF Reads
    <2> QED BY <1>1, <1>2, <1>6, <2>1, <2>5, GoesOnReading
  <1>7. CASE /\ c \notin Escapes \cup {"eof"}
             /\ pos' = pos + 1 /\ Return("Unknown", line)
    <2>1. \A i \in a..Len(text), t \in Lexical : ~IsLexeme(t, a, i)
      BY <1>3, <1>4, <1>7, NoString
    <2> QED BY <1>1, <1>2, <1>3, <1>7, <2>1, ReturnsUnknown
  <1>8. CASE c = "eof" /\ Leave /\ Return("Unknown", line)
    <2>1. pos' = b /\ b = Len(text)
      BY <1>2, <1>3, <1>8 DEF Leave
    <2>2. \A i \in a..Len(text), t \in Lexical : ~IsLexeme(t, a, i)
      BY <1>3, <1>4, <2>1, NoString
    <2> QED BY <1>1, <1>2, <1>3, <1>8, <2>1, <2>2, ReturnsUnknown
  <1> QED BY <1>2, <1>6, <1>7, <1>8 DEF ReadEscape

\* A b begins a binary literal or a word.
LEMMA LookForBinaryKeeps == ASSUME Sound, LookForBinary PROVE Keeps
  <1>1. Inside(mode) /\ mode = "after_b" /\ ~Waiting
    BY DEF LookForBinary, In, Inside, Modes
  <1>2. PICK a, b, c : a = start /\ b = pos /\ c = Char
    OBVIOUS
  <1>3. /\ a \in Nat \ {0} /\ b \in Nat /\ Len(text) \in Nat /\ b <= Len(text)
        /\ Reads("after_b", a, b) /\ Seen(b)
        /\ c # "eof" => b + 1 <= Len(text) /\ text[b + 1] = c
        /\ c = "eof" => b = Len(text)
    BY <1>1, <1>2, Middle
  <1>4. a = b /\ text[a] = "b"
    BY <1>3 DEF Reads
  <1>5. CASE c = Quote /\ Take /\ GoOn("binary")
    <2>1. pos' = b + 1
      BY <1>2, <1>5 DEF Take
    <2>2. text[a + 1] = Quote /\ (a + 2)..(a + 1) = {}
      BY <1>3, <1>4, <1>5 DEF Quote
    <2>3. BinaryTo(a, b + 1)
      BY <1>3, <1>4, <2>2 DEF BinaryTo, Has
    <2>4. Reads("binary", a, b + 1)
      BY <2>3 DEF Reads
    <2> QED BY <1>1, <1>2, <1>5, <2>1, <2>4, GoesOnReading
  <1>6. CASE c # Quote /\ Leave /\ GoOn("word")
    <2>1. pos' = b
      BY <1>2, <1>6 DEF Leave
    <2>2. NotBefore(b, {Quote})
      BY <1>3, <1>6 DEF NotBefore
    <2>3. a..b = {a} /\ "b" \in WordChars /\ "b" \in Letters
      BY <1>3, <1>4 DEF WordChars, Letters
    <2>4. WordTo(a, b)
      BY <1>3, <1>4, <2>2, <2>3 DEF WordTo
    <2>5. Reads("word", a, b)
      BY <2>4 DEF Reads
    <2> QED BY <1>1, <1>2, <1>6, <2>1, <2>5, GoesOnReading
  <1> QED BY <1>2, <1>5, <1>6 DEF LookForBinary

\* A binary literal that is not closed where the text ends is no token.
LEMMA NoBinary ==
    ASSUME NEW a \in Nat \ {0}, Len(text) \in Nat, BinaryTo(a, Len(text))
    PROVE  \A i \in a..Len(text), t \in Lexical : ~IsLexeme(t, a, i)
  <1> SUFFICES ASSUME NEW i \in a..Len(text), NEW t \in Lexical, IsLexeme(t, a, i) PROVE FALSE
    OBVIOUS
  <1>1. text[a] = "b" /\ text[a + 1] = Quote /\ a < Len(text) /\ ~Has(a + 2, Len(text), {Quote})
    BY DEF BinaryTo
  <1>2. "b" \notin Symbols \cup Signs \cup Digits \cup {Quote, "#", "/"}
    BY DEF Quote, Symbols, Signs, Digits
  <1>3. IsBinary(a, i) \/ IsWord(a, i)
    BY <1>1, <1>2, FirstChars
  <1>4. CASE IsBinary(a, i)
    <2>1. a + 1 < i /\ text[i] = Quote
      BY <1>4 DEF IsBinary
    <2>2. i \in (a + 2)..Len(text)
      BY <2>1
    <2> QED BY <1>1, <2>1, <2>2 DEF Has
  <1>5. CASE IsWord(a, i)
    <2>1. Quote \notin WordChars
      BY DEF Quote, WordChars, Letters, Digits
    <2>2. CASE a = i
      <3>1. NotBefore(a, {Quote})
        BY <1>1, <1>5, <2>2 DEF IsWord
      <3> QED BY <1>1, <3>1 DEF NotBefore
    <2>3. CASE a # i
      <3>1. a + 1 \in a..i
        BY <2>3
      <3>2. text[a + 1] \in WordChars
        BY <1>5, <3>1 DEF IsWord
      <3> QED BY <1>1, <2>1, <3>2
    <2> QED BY <2>2, <2>3
  <1> QED BY <1>3, <1>4, <1>5

\* A binary literal ends at the next quote.
LEMMA BinaryKeeps == ASSUME Sound, ReadBinary PROVE Keeps
  <1>1. Inside(mode) /\ mode = "binary" /\ ~Waiting
    BY DEF ReadBinary, In, Inside, Modes
  <1>2. PICK a, b, c : a = start /\ b = pos /\ c = Char
    OBVIOUS
  <1>3. /\ a \in Nat \ {0} /\ b \in Nat /\ Len(text) \in Nat /\ a <= b /\ b <= Len(text)
        /\ Reads("binary", a, b) /\ Seen(b)
        /\ c # "eof" => b + 1 <= Len(text) /\ text[b + 1] = c
        /\ c = "eof" => b = Len(text)
    BY <1>1, <1>2, Middle
  <1>4. BinaryTo(a, b)
    BY <1>3 DEF Reads
  <1>5. CASE c = Quote /\ Take /\ Return("Binary", line)
    <2>1. pos' = b + 1 /\ c # "eof"
      BY <1>2, <1>5 DEF Take, Quote
    <2>2. (b + 1) - 1 = b /\ a + 1 < b + 1
      BY <1>3, <1>4 DEF BinaryTo
    <2>3. IsBinary(a, b + 1)
      BY <1>3, <1>4, <1>5, <2>1, <2>2 DEF BinaryTo, IsBinary
    <2>4. IsLexeme("Binary", a, b + 1) /\ "Binary" \in Lexical
      BY <2>3, LexemeOf DEF Lexical, TokenTypes
    <2>5. line \in Nat \ {0}
      BY Numbers DEF Sound
    <2> QED BY <1>1, <1>2, <1>3, <1>5, <2>1, <2>4, <2>5, ReturnsToken
  <1>6. CASE c \notin {Quote, "eof"} /\ Take /\ GoOn("binary")
    <2>1. pos' = b + 1
      BY <1>2, <1>6 DEF Take
    <2>2. \A k \in (a + 2)..(b + 1) : k \in (a + 2)..b \/ k = b + 1
      BY <1>3
    <2>3. BinaryTo(a, b + 1)
      BY <1>3, <1>4, <1>6, <2>2 DEF BinaryTo, Has
    <2>4. Reads("binary", a, b + 1)
      BY <2>3 DEF Reads
    <2> QED BY <1>1, <1>2, <1>6, <2>1, <2>4, GoesOnReading
  <1>7. CASE c = "eof" /\ Leave /\ Return("Unknown", line)
    <2>1. pos' = b /\ b = Len(text)
      BY <1>2, <1>3, <1>7 DEF Leave
    <2>2. \A i \in a..Len(text), t \in Lexical : ~IsLexeme(t, a, i)
      BY <1>3, <1>4, <2>1, NoBinary
    <2> QED BY <1>1, <1>2, <1>3, <1>7, <2>1, <2>2, ReturnsUnknown
  <1> QED BY <1>2, <1>5, <1>6, <1>7 DEF ReadBinary

\* A number ends before the character that cannot go on with it.
LEMMA NumberKeeps == ASSUME Sound, ReadNumber PROVE Keeps
  <1>1. Inside(mode) /\ mode = "number" /\ ~Waiting
    BY DEF ReadNumber, In, Inside, Modes
  <1>2. PICK a, b, c : a = start /\ b = pos /\ c = Char
    OBVIOUS
  <1>3. /\ a \in Nat \ {0} /\ b \in Nat /\ Len(text) \in Nat /\ a <= b /\ b <= Len(text)
        /\ Reads("number", a, b) /\ Seen(b)
        /\ c # "eof" => b + 1 <= Len(text) /\ text[b + 1] = c
        /\ c = "eof" => b = Len(text)
    BY <1>1, <1>2, Middle
  <1>4. NumberTo(a, b) /\ (text[b] = "e" => NotBefore(b, Signs))
    BY <1>3 DEF Reads
  <1>5. /\ text[a] \in Signs \cup Digits
        /\ \A k \in (a + 1)..b :
              \/ text[k] \in Digits \cup {"e"}
              \/ text[k] = "." /\ ~Has(a, k - 1, {".", "e"})
              \/ text[k] \in Signs /\ text[k - 1] = "e"
        /\ double <=> Has(a, b, {".", "e"})
    BY <1>4 DEF NumberTo
  <1>6. /\ \A k \in (a + 1)..(b + 1) : k \in (a + 1)..b \/ k = b + 1
        /\ \A k \in a..(b + 1) : k \in a..b \/ k = b + 1
        /\ a..b \subseteq a..(b + 1) /\ b + 1 \in a..(b + 1) /\ (b + 1) - 1 = b
    BY <1>3
  <1>7. CASE c \in Digits /\ Take /\ GoOn("number")
    <2>1. pos' = b + 1 /\ c # "eof" /\ c \notin {".", "e"}
      BY <1>2, <1>7 DEF Take, Digits
    <2>2. text[b + 1] = c
      BY <1>3, <2>1
    <2>3. Has(a, b + 1, {".", "e"}) <=> Has(a, b, {".", "e"})
      BY <1>6, <2>1, <2>2 DEF Has
    <2>4. NumberTo(a, b + 1)
      BY <1>5, <1>6, <1>7, <2>2, <2>3 DEF NumberTo
    <2>5. Reads("number", a, b + 1)
      BY <2>1, <2>2, <2>4 DEF Reads
    <2> QED BY <1>1, <1>2, <1>7, <2>1, <2>5, GoesOnReading
  <1>8. CASE /\ c = "e" \/ (c = "." /\ ~double)
             /\ mode' = IF c = "e" THEN "after_e" ELSE "number"
             /\ double' = TRUE
             /\ Take /\ UNCHANGED <<text, ended, start, startLine, tokens>>
    <2>1. pos' = b + 1 /\ c # "eof" /\ c \in {".", "e"}
      BY <1>2, <1>8 DEF Take
    <2>2. text[b + 1] = c /\ text' = text
      BY <1>3, <1>8, <2>1
    <2>3. Has(a, b + 1, {".", "e"})
      BY <1>6, <2>1, <2>2 DEF Has
    <2>4. \A k \in (a + 1)..(b + 1) :
             \/ text[k] \in Digits \cup {"e"}
             \/ text[k] = "." /\ ~Has(a, k - 1, {".", "e"})
             \/ text[k] \in Signs /\ text[k - 1] = "e"
      <3> TAKE k \in (a + 1)..(b + 1)
      <3>1. CASE k \in (a + 1)..b
        BY <1>5, <3>1
      <3>2. CASE k = b + 1
        <4>1. c = "e" \/ (c = "." /\ ~Has(a, k - 1, {".", "e"}))
          BY <1>5, <1>6, <1>8, <3>2
        <4> QED BY <2>2, <3>2, <4>1
      <3> QED BY <1>6, <3>1, <3>2
    <2>5. NumberTo(a, b + 1)'
      <3>1. Has(a, b + 1, {".", "e"})'
        BY <2>2, <2>3 DEF Has
      <3>2. ASSUME NEW k PROVE Has(a, k - 1, {".", "e"})' <=> Has(a, k - 1, {".", "e"})
        BY <2>2 DEF Has
      <3> QED BY <1>5, <1>8, <2>2, <2>4, <3>1, <3>2 DEF NumberTo
    <2>6. PICK m : m = IF c = "e" THEN "after_e" ELSE "number"
      OBVIOUS
    <2>7. Reads(m, a, b + 1)'
      <3>1. CASE c = "e"
        BY <2>2, <2>5, <2>6, <3>1 DEF Reads
      <3>2. CASE c # "e"
        BY <2>2, <2>5, <2>6, <3>2 DEF Reads
      <3> QED BY <3>1, <3>2
    <2>8. Inside(m) /\ mode' = m
      BY <1>8, <2>6 DEF Inside, Modes
    <2> QED BY <1>1, <1>2, <1>8, <2>1, <2>7, <2>8, ReadsOn
  <1>9. CASE /\ c \notin Digits \cup {"e"} /\ ~(c = "." /\ ~double)
             /\ Leave /\ Return(IF double THEN "Double" ELSE "Integer", line)
    <2>1. pos' = b
      BY <1>2, <1>9 DEF Leave
    <2>2. b < Len(text) => text[b + 1] = c
      BY <1>3
    <2>3. IsNumber(a, b)
      <3>1. NotBefore(b, Digits \cup {"e"})
        BY <1>9, <2>2 DEF NotBefore
      <3>2. Has(a, b, {".", "e"}) \/ NotBefore(b, {"."})
        BY <1>5, <1>9, <2>2 DEF NotBefore
      <3> QED BY <1>4, <1>5, <3>1, <3>2 DEF IsNumber
    <2>4. line \in Nat \ {0} /\ {"Double", "Integer"} \subseteq Lexical
      BY Numbers DEF Sound, Lexical, TokenTypes
    <2>5. CASE double
      <3>1. Return("Double", line)
        BY <1>9, <2>5
      <3>2. IsLexeme("Double", a, b)
        BY <1>5, <2>3, <2>5, LexemeOf
      <3> QED BY <1>1, <1>2, <1>3, <2>1, <2>4, <3>1, <3>2, ReturnsToken
    <2>6. CASE ~double
      <3>1. Return("Integer", line)
        BY <1>9, <2>6
      <3>2. IsLexeme("Integer", a, b)
        BY <1>5, <2>3, <2>6, LexemeOf
      <3> QED BY <1>1, <1>2, <1>3, <2>1, <2>4, <3>1, <3>2, ReturnsToken
    <2> QED BY <2>5, <2>6
  <1> QED BY <1>2, <1>7, <1>8, <1>9 DEF ReadNumber

\* A sign is a part of it after an e only.
LEMMA ExponentKeeps == ASSUME Sound, ReadExponent PROVE Keeps
  <1>1. Inside(mode) /\ mode = "after_e" /\ ~Waiting
    BY DEF ReadExponent, In, Inside, Modes
  <1>2. PICK a, b, c : a = start /\ b = pos /\ c = Char
    OBVIOUS
  <1>3. /\ a \in Nat \ {0} /\ b \in Nat /\ Len(text) \in Nat /\ a <= b /\ b <= Len(text)
        /\ Reads("after_e", a, b) /\ Seen(b)
        /\ c # "eof" => b + 1 <= Len(text) /\ text[b + 1] = c
        /\ c = "eof" => b = Len(text)
    BY <1>1, <1>2, Middle
  <1>4. NumberTo(a, b) /\ text[b] = "e"
    BY <1>3 DEF Reads
  <1>5. CASE c \in Signs /\ Take /\ GoOn("number")
    <2>1. pos' = b + 1 /\ c # "eof" /\ c \notin {".", "e"}
      BY <1>2, <1>5 DEF Take, Signs
    <2>2. text[b + 1] = c /\ (b + 1) - 1 = b
      BY <1>3, <2>1
    <2>3. /\ \A k \in (a + 1)..(b + 1) : k \in (a + 1)..b \/ k = b + 1
          /\ \A k \in a..(b + 1) : k \in a..b \/ k = b + 1
          /\ a..b \subseteq a..(b + 1)
      BY <1>3
    <2>4. Has(a, b + 1, {".", "e"}) <=> Has(a, b, {".", "e"})
      BY <2>1, <2>2, <2>3 DEF Has
    <2>5. NumberTo(a, b + 1)
      BY <1>4, <1>5, <2>2, <2>3, <2>4 DEF NumberTo
    <2>6. Reads("number", a, b + 1)
      BY <2>1, <2>2, <2>5 DEF Reads
    <2> QED BY <1>1, <1>2, <1>5, <2>1, <2>6, GoesOnReading
  <1>6. CASE c \notin Signs /\ Leave /\ GoOn("number")
    <2>1. pos' = b
      BY <1>2, <1>6 DEF Leave
    <2>2. NotBefore(b, Signs)
      BY <1>3, <1>6 DEF NotBefore
    <2>3. Reads("number", a, b)
      BY <1>3, <1>4, <2>2 DEF Reads
    <2> QED BY <1>1, <1>2, <1>6, <2>1, <2>3, GoesOnReading
  <1> QED BY <1>2, <1>5, <1>6 DEF ReadExponent

\* A word ends before the character that is none of a word's.
LEMMA WordKeeps == ASSUME Sound, ReadIdentifierOrKeyword PROVE Keeps
  <1>1. Inside(mode) /\ mode = "word" /\ ~Waiting
    BY DEF ReadIdentifierOrKeyword, In, Inside, Modes
  <1>2. PICK a, b, c : a = start /\ b = pos /\ c = Char
    OBVIOUS
  <1>3. /\ a \in Nat \ {0} /\ b \in Nat /\ Len(text) \in Nat /\ a <= b /\ b <= Len(text)
        /\ Reads("word", a, b) /\ Seen(b)
        /\ c # "eof" => b + 1 <= Len(text) /\ text[b + 1] = c
        /\ c = "eof" => b = Len(text)
    BY <1>1, <1>2, Middle
  <1>4. /\ text[a] \in Letters \cup {"_"} /\ \A k \in a..b : text[k] \in WordChars
        /\ a = b /\ text[a] = "b" => Seen(b) /\ NotBefore(b, {Quote})
    BY <1>3 DEF Reads, WordTo
  <1>5. CASE c \in WordChars /\ Take /\ GoOn("word")
    <2>1. pos' = b + 1 /\ c # "eof"
      BY <1>2, <1>5 DEF Take, WordChars, Letters, Digits
    <2>2. /\ \A k \in a..(b + 1) : k \in a..b \/ k = b + 1
          /\ a # b + 1
      BY <1>3
    <2>3. WordTo(a, b + 1)
      BY <1>3, <1>4, <1>5, <2>1, <2>2 DEF WordTo
    <2>4. Reads("word", a, b + 1)
      BY <2>3 DEF Reads
    <2> QED BY <1>1, <1>2, <1>5, <2>1, <2>4, GoesOnReading
  <1>6. CASE c \notin WordChars /\ Leave
             /\ Return(IF SubSeq(text, start, pos) = <<"true">> THEN "Bool" ELSE "Identifier", line)
    <2>1. pos' = b
      BY <1>2, <1>6 DEF Leave
    <2>2. NotBefore(b, WordChars)
      BY <1>3, <1>6 DEF NotBefore
    <2>3. IsWord(a, b)
      BY <1>4, <2>2 DEF IsWord
    <2>4. line \in Nat \ {0} /\ {"Bool", "Identifier"} \subseteq Lexical
      BY Numbers DEF Sound, Lexical, TokenTypes
    <2> DEFINE isTrue == SubSeq(text, start, pos) = <<"true">>
    <2>5. CASE isTrue
      <3>1. Return("Bool", line)
        BY <1>6, <2>5
      <3>2. IsLexeme("Bool", a, b)
        BY <1>2, <2>3, <2>5, LexemeOf
      <3> HIDE DEF isTrue
      <3> QED BY <1>1, <1>2, <1>3, <2>1, <2>4, <3>1, <3>2, ReturnsToken
    <2>6. CASE ~isTrue
      <3>1. Return("Identifier", line)
        BY <1>6, <2>6
      <3>2. IsLexeme("Identifier", a, b)
        BY <1>2, <2>3, <2>6, LexemeOf
      <3> HIDE DEF isTrue
      <3> QED BY <1>1, <1>2, <1>3, <2>1, <2>4, <3>1, <3>2, ReturnsToken
    <2> QED BY <2>5, <2>6
  <1> QED BY <1>2, <1>5, <1>6 DEF ReadIdentifierOrKeyword

\* No token begins with a slash that opens no comment, nor with a comment that
\* is not closed where the text ends.
LEMMA NoComment ==
    ASSUME NEW a \in Nat \ {0}, Len(text) \in Nat, a <= Len(text), text[a] = "/",
           \/ NotBefore(a, {"/", "*"})
           \/ BlockTo(a, Len(text))
    PROVE  \A i \in a..Len(text), t \in Lexical : ~IsLexeme(t, a, i)
  <1> SUFFICES ASSUME NEW i \in a..Len(text), NEW t \in Lexical, IsLexeme(t, a, i) PROVE FALSE
    OBVIOUS
  <1>1. "/" \notin Symbols \cup Signs \cup Digits \cup Letters \cup {Quote, "b", "_", "#"}
    BY DEF Quote, Symbols, Signs, Digits, Letters
  <1>2. (a < i /\ text[a + 1] = "/") \/ IsBlock(a, i)
    BY <1>1, FirstChars
  <1>3. CASE NotBefore(a, {"/", "*"})
    <2>1. a < i
      BY <1>2 DEF IsBlock
    <2>2. a < Len(text)
      BY <2>1
    <2>3. text[a + 1] \notin {"/", "*"}
      BY <1>3, <2>2 DEF NotBefore
    <2> QED BY <1>2, <2>3 DEF IsBlock
  <1>4. CASE BlockTo(a, Len(text))
    <2>1. text[a + 1] = "*"
      BY <1>4 DEF BlockTo
    <2>2. IsBlock(a, i)
      BY <1>2, <2>1
    <2>3. a + 2 < i
      BY <2>2 DEF IsBlock
    <2>4. i \in (a + 3)..i /\ i \in (a + 3)..Len(text)
      BY <2>3
    <2>5. text[i - 1] = "*" /\ text[i] = "/"
      BY <2>2, <2>4 DEF IsBlock
    <2> QED BY <1>4, <2>4, <2>5 DEF BlockTo
  <1> QED BY <1>3, <1>4

\* A slash begins a comment or no token.
LEMMA LookForCommentKeeps == ASSUME Sound, LookForComment PROVE Keeps
  <1>1. Inside(mode) /\ mode = "after_slash" /\ ~Waiting
    BY DEF LookForComment, In, Inside, Modes
  <1>2. PICK a, b, c : a = start /\ b = pos /\ c = Char
    OBVIOUS
  <1>3. /\ a \in Nat \ {0} /\ b \in Nat /\ Len(text) \in Nat /\ b <= Len(text)
        /\ Reads("after_slash", a, b) /\ Seen(b)
        /\ c # "eof" => b + 1 <= Len(text) /\ text[b + 1] = c
        /\ c = "eof" => b = Len(text)
    BY <1>1, <1>2, Middle
  <1>4. a = b /\ text[a] = "/"
    BY <1>3 DEF Reads
  <1>5. CASE c = "/" /\ Take /\ GoOn("line_comment")
    <2>1. pos' = b + 1 /\ text[b + 1] = "/"
      BY <1>2, <1>3, <1>5 DEF Take
    <2>2. \A k \in a..(b + 1) : k = a \/ k = b + 1
      BY <1>3, <1>4
    <2>3. LineTo(a, b + 1)
      BY <1>3, <1>4, <2>1, <2>2 DEF LineTo, Has
    <2>4. Reads("line_comment", a, b + 1)
      BY <2>3 DEF Reads
    <2> QED BY <1>1, <1>2, <1>5, <2>1, <2>4, GoesOnReading
  <1>6. CASE c = "*" /\ Take /\ GoOn("block")
    <2>1. pos' = b + 1 /\ text[b + 1] = "*"
      BY <1>2, <1>3, <1>6 DEF Take
    <2>2. (a + 3)..(b + 1) = {} /\ a < b + 1 /\ ~(a + 1 < b + 1)
      BY <1>3, <1>4
    <2>3. BlockTo(a, b + 1)
      BY <1>4, <2>1, <2>2 DEF BlockTo
    <2>4. Reads("block", a, b + 1)
      BY <2>2, <2>3 DEF Reads
    <2> QED BY <1>1, <1>2, <1>6, <2>1, <2>4, GoesOnReading
  <1>7. CASE c \notin {"/", "*"} /\ Leave /\ Return("Unknown", line)
    <2>1. pos' = b
      BY <1>2, <1>7 DEF Leave
    <2>2. NotBefore(a, {"/", "*"})
      BY <1>3, <1>4, <1>7 DEF NotBefore
    <2>3. \A i \in a..Len(text), t \in Lexical : ~IsLexeme(t, a, i)
      BY <1>3, <1>4, <2>2, NoComment
    <2> QED BY <1>1, <1>2, <1>3, <1>7, <2>1, <2>3, ReturnsUnknown
  <1> QED BY <1>2, <1>5, <1>6, <1>7 DEF LookForComment

\* A comment of one line ends with the line, and counts it.
LEMMA SingleLineKeeps == ASSUME Sound, ReadSingleLineComment PROVE Keeps
  <1>1. Inside(mode) /\ mode = "line_comment" /\ ~Waiting /\ mode # "stopped"
    BY DEF ReadSingleLineComment, In, Inside, Modes
  <1>2. PICK a, b, c : a = start /\ b = pos /\ c = Char
    OBVIOUS
  <1>3. /\ a \in Nat \ {0} /\ b \in Nat /\ Len(text) \in Nat /\ a <= b /\ b <= Len(text)
        /\ Reads("line_comment", a, b) /\ Seen(b)
        /\ c # "eof" => b + 1 <= Len(text) /\ text[b + 1] = c
        /\ c = "eof" => b = Len(text)
    BY <1>1, <1>2, Middle
  <1>4. /\ text[a] = "#" \/ (a < b /\ text[a] = "/" /\ text[a + 1] = "/")
        /\ ~Has(a, b, {"nl"})
    BY <1>3 DEF Reads, LineTo
  <1>5. CASE c \notin {"nl", "eof"} /\ Take /\ GoOn("line_comment")
    <2>1. pos' = b + 1 /\ text[b + 1] = c
      BY <1>2, <1>3, <1>5 DEF Take
    <2>2. \A k \in a..(b + 1) : k \in a..b \/ k = b + 1
      BY <1>3
    <2>3. LineTo(a, b + 1)
      BY <1>3, <1>4, <1>5, <2>1, <2>2 DEF LineTo, Has
    <2>4. Reads("line_comment", a, b + 1)
      BY <2>3 DEF Reads
    <2> QED BY <1>1, <1>2, <1>5, <2>1, <2>4, GoesOnReading
  <1>6. CASE /\ (c = "nl" /\ Take) \/ (c = "eof" /\ Leave)
             /\ Return(IF text[start] = "#" THEN "SingleLineBash" ELSE "SingleLineC", line')
    <2>1. PICK d : d = pos'
      OBVIOUS
    <2>2. /\ pos' \in {pos, pos + 1} /\ d <= Len(text) /\ d \in Nat /\ b <= d
          /\ EndsLine(a, d) /\ (Seen(d) \/ text[d] = "nl")
      <3>1. CASE c = "nl" /\ Take
        <4>1. d = b + 1 /\ d - 1 = b /\ text[d] = "nl" /\ d <= Len(text)
          BY <1>2, <1>3, <2>1, <3>1 DEF Take
        <4> QED BY <1>2, <1>3, <1>4, <2>1, <4>1 DEF EndsLine
      <3>2. CASE c = "eof" /\ Leave
        <4>1. d = b /\ b = Len(text)
          BY <1>2, <1>3, <2>1, <3>2 DEF Leave
        <4>2. ~Has(a, b - 1, {"nl"})
          BY <1>3, <1>4 DEF Has
        <4> QED BY <1>2, <1>3, <2>1, <4>1, <4>2 DEF EndsLine
      <3> QED BY <1>6, <3>1, <3>2
    <2>3. line' \in Nat \ {0} /\ 1 + LineEnds(a - 1) <= line' /\ line' <= 1 + LineEnds(d)
      <3>0. TypeOK /\ Counted
        BY DEF Sound
      <3>1. First = a
        BY <1>1, <1>2 DEF First
      <3>2. 1 + LineEnds(a - 1) <= line /\ line \in Nat \ {0} /\ LineEnds(a - 1) \in Nat
        <4>1. a - 1 \in Nat
          BY <1>3
        <4>2. LineEnds(a - 1) \in Nat
          BY <4>1, LineEndsOrder
        <4> QED BY <1>1, <2>2, <3>0, <3>1, <4>2, OnLine, Numbers
      <3>3. line = 1 + LineEnds(b) /\ LineEnds(b) \in Nat
        BY <1>1, <1>2, <3>0, LineEndsNat DEF Counted
      <3>4. CASE c = "nl" /\ Take
        <4>0. line' = line + 1 /\ d = b + 1
          BY <1>2, <2>1, <3>4 DEF Take
        <4>1. b < Len(text) /\ text[b + 1] = "nl"
          BY <1>3, <3>4
        <4>2. LineEnds(d) = LineEnds(b) + 1
          BY <1>2, <3>0, <4>0, <4>1, LineEndsGrow
        <4> QED BY <3>2, <3>3, <4>0, <4>2
      <3>5. CASE c = "eof" /\ Leave
        <4>1. line' = line /\ d = b
          BY <1>2, <2>1, <3>5 DEF Leave
        <4> QED BY <3>2, <3>3, <4>1
      <3> QED BY <1>6, <3>4, <3>5
    <2>4. {"SingleLineBash", "SingleLineC"} \subseteq Lexical
      BY DEF Lexical, TokenTypes, CommentTypes
    <2>5. CASE text[start] = "#"
      <3>1. Return("SingleLineBash", line')
        BY <1>6, <2>5
      <3>2. IsLexeme("SingleLineBash", a, d)
        BY <1>2, <2>2, <2>5, LexemeOf
      <3> QED BY <1>1, <1>2, <2>1, <2>2, <2>3, <2>4, <3>1, <3>2, ReturnsToken
    <2>6. CASE text[start] # "#"
      <3>1. Return("SingleLineC", line')
        BY <1>6, <2>6
      <3>2. a < d /\ text[a] = "/" /\ text[a + 1] = "/"
        BY <1>2, <1>3, <1>4, <2>2, <2>6
      <3>3. IsLexeme("SingleLineC", a, d)
        BY <2>2, <3>2, LexemeOf
      <3> QED BY <1>1, <1>2, <2>1, <2>2, <2>3, <2>4, <3>1, <3>3, ReturnsToken
    <2> QED BY <2>5, <2>6
  <1> QED BY <1>2, <1>5, <1>6 DEF ReadSingleLineComment

\* A comment goes on after a character that does not close it.
LEMMA MultiLineKeeps == ASSUME Sound, ReadMultiLineComment PROVE Keeps
  <1>1. Inside(mode) /\ mode = "block" /\ ~Waiting
    BY DEF ReadMultiLineComment, In, Inside, Modes
  <1>2. PICK a, b, c : a = start /\ b = pos /\ c = Char
    OBVIOUS
  <1>3. /\ a \in Nat \ {0} /\ b \in Nat /\ Len(text) \in Nat /\ a <= b /\ b <= Len(text)
        /\ Reads("block", a, b) /\ Seen(b)
        /\ c # "eof" => b + 1 <= Len(text) /\ text[b + 1] = c
        /\ c = "eof" => b = Len(text)
    BY <1>1, <1>2, Middle
  <1>4. BlockTo(a, b) /\ (text[b] = "*" /\ a + 1 < b => NotBefore(b, {"/"}))
    BY <1>3 DEF Reads
  <1>5. /\ a < b /\ text[a] = "/" /\ text[a + 1] = "*"
        /\ \A k \in (a + 3)..b : ~(text[k - 1] = "*" /\ text[k] = "/")
    BY <1>4 DEF BlockTo
  <1>6. c # "eof" => BlockTo(a, b + 1)
    <2> SUFFICES ASSUME c # "eof" PROVE BlockTo(a, b + 1)
      OBVIOUS
    <2>1. text[b + 1] = c /\ b < Len(text)
      BY <1>3
    <2>2. ASSUME NEW k \in (a + 3)..(b + 1) PROVE ~(text[k - 1] = "*" /\ text[k] = "/")
      <3>1. CASE k \in (a + 3)..b
        BY <1>5, <3>1
      <3>2. CASE k = b + 1
        <4>1. k - 1 = b /\ a + 1 < b
          BY <1>3, <3>2
        <4> QED BY <1>4, <2>1, <3>2, <4>1 DEF NotBefore
      <3>3. k \in (a + 3)..b \/ k = b + 1
        BY <1>3
      <3> QED BY <3>1, <3>2, <3>3
    <2>3. a < b + 1
      BY <1>3
    <2> QED BY <1>5, <2>2, <2>3 DEF BlockTo
  <1>7. CASE c = "*" /\ Take /\ GoOn("after_star")
    <2>1. pos' = b + 1 /\ text[b + 1] = "*" /\ a + 1 < b + 1
      BY <1>2, <1>3, <1>5, <1>7 DEF Take
    <2>2. Reads("after_star", a, b + 1)
      BY <1>6, <1>7, <2>1 DEF Reads
    <2> QED BY <1>1, <1>2, <1>7, <2>1, <2>2, GoesOnReading
  <1>8. CASE c \notin {"*", "eof"} /\ Take /\ GoOn("block")
    <2>1. pos' = b + 1 /\ text[b + 1] # "*"
      BY <1>2, <1>3, <1>8 DEF Take
    <2>2. Reads("block", a, b + 1)
      BY <1>6, <1>8, <2>1 DEF Reads
    <2> QED BY <1>1, <1>2, <1>8, <2>1, <2>2, GoesOnReading
  <1>9. CASE c = "eof" /\ Leave /\ Return("Unknown", line)
    <2>1. pos' = b /\ b = Len(text)
      BY <1>2, <1>3, <1>9 DEF Leave
    <2>2. \A i \in a..Len(text), t \in Lexical : ~IsLexeme(t, a, i)
      BY <1>3, <1>4, <1>5, <2>1, NoComment
    <2> QED BY <1>1, <1>2, <1>3, <1>9, <2>1, <2>2, ReturnsUnknown
  <1> QED BY <1>2, <1>7, <1>8, <1>9 DEF ReadMultiLineComment

\* It is closed by a slash after a star, the last of several or not.
LEMMA LookForSlashKeeps == ASSUME Sound, LookForSlash PROVE Keeps
  <1>1. Inside(mode) /\ mode = "after_star" /\ ~Waiting
    BY DEF LookForSlash, In, Inside, Modes
  <1>2. PICK a, b, c : a = start /\ b = pos /\ c = Char
    OBVIOUS
  <1>3. /\ a \in Nat \ {0} /\ b \in Nat /\ Len(text) \in Nat /\ a <= b /\ b <= Len(text)
        /\ Reads("after_star", a, b) /\ Seen(b)
        /\ c # "eof" => b + 1 <= Len(text) /\ text[b + 1] = c
        /\ c = "eof" => b = Len(text)
    BY <1>1, <1>2, Middle
  <1>4. BlockTo(a, b) /\ text[b] = "*" /\ a + 1 < b
    BY <1>3 DEF Reads
  <1>5. CASE c = "/" /\ Take /\ Return("MultiLineC", startLine)
    <2>1. pos' = b + 1 /\ text[b + 1] = "/" /\ b + 1 <= Len(text)
      BY <1>2, <1>3, <1>5 DEF Take
    <2>2. IsBlock(a, b + 1)
      <3>1. a + 2 < b + 1 /\ text[a] = "/" /\ text[a + 1] = "*"
        BY <1>3, <1>4 DEF BlockTo
      <3>2. ASSUME NEW k \in (a + 3)..(b + 1)
            PROVE  text[k - 1] = "*" /\ text[k] = "/" <=> k = b + 1
        <4>1. CASE k = b + 1
          <5>1. k - 1 = b
            BY <1>3, <4>1
          <5> QED BY <1>4, <2>1, <4>1, <5>1
        <4>2. CASE k # b + 1
          <5>1. k \in (a + 3)..b
            BY <1>3, <4>2
          <5> QED BY <1>4, <4>2, <5>1 DEF BlockTo
        <4> QED BY <4>1, <4>2
      <3> QED BY <3>1, <3>2 DEF IsBlock
    <2>3. IsLexeme("MultiLineC", a, b + 1) /\ "MultiLineC" \in Lexical
      BY <2>2, LexemeOf DEF Lexical, TokenTypes, CommentTypes
    <2>4. /\ startLine \in Nat \ {0}
          /\ 1 + LineEnds(a - 1) <= startLine /\ startLine <= 1 + LineEnds(b + 1)
      <3>1. startLine = 1 + LineEnds(a - 1)
        BY <1>1, <1>2 DEF Sound, Reading
      <3>2. a - 1 \in Nat /\ b + 1 \in Nat /\ a - 1 <= b + 1
        BY <1>3
      <3>3. LineEnds(a - 1) \in Nat /\ LineEnds(b + 1) \in Nat /\ LineEnds(a - 1) <= LineEnds(b + 1)
        BY <3>2, LineEndsOrder
      <3> QED BY <3>1, <3>3
    <2> QED BY <1>1, <1>2, <1>3, <1>5, <2>1, <2>3, <2>4, ReturnsToken
  <1>6. CASE c # "/" /\ Leave /\ GoOn("block")
    <2>1. pos' = b
      BY <1>2, <1>6 DEF Leave
    <2>2. NotBefore(b, {"/"})
      BY <1>3, <1>6 DEF NotBefore
    <2>3. Reads("block", a, b)
      BY <1>3, <1>4, <2>2 DEF Reads
    <2> QED BY <1>1, <1>2, <1>6, <2>1, <2>3, GoesOnReading
  <1> QED BY <1>2, <1>5, <1>6 DEF LookForSlash

-----------------------------------------------------------------------------
(* The refinement *)

\* Every step of the tokenizer hands over the next token, or does not show.
LEMMA StepKeeps == ASSUME Sound, Step PROVE Keeps
  BY SkipKeeps, BeginKeeps, SymbolKeeps, UnknownKeeps, EndKeeps, StringKeeps, EscapeKeeps,
     LookForBinaryKeeps, BinaryKeeps, NumberKeeps, ExponentKeeps, WordKeeps,
     LookForCommentKeeps, SingleLineKeeps, MultiLineKeeps, LookForSlashKeeps DEF Step

\* What the stream does leaves what has been read as it was.
LEMMA StreamKeeps ==
    ASSUME Sound, End \/ \E c \in Later : Deliver(c)
    PROVE  NotStopped' /\ Reading' /\ (Stream!End \/ Stream!Deliver)
  <1>0. TypeOK /\ Reading /\ NotStopped /\ Waiting /\ mode # "stopped"
    BY DEF Sound, End, Deliver, Waiting
  <1>1. /\ text' \in Seq(Chars) /\ Len(text) <= Len(text')
        /\ \A i \in 1..Len(text) : text'[i] = text[i]
        /\ UNCHANGED <<pos, mode, start, startLine, double, tokens>>
    BY <1>0, StreamStep
  <1>2. NotStopped' /\ ~Stream!Stopped
    BY <1>0, <1>1, StillNot DEF NotStopped
  <1>3. Stream!End \/ Stream!Deliver
    <2>1. CASE End
      BY <1>2, <2>1 DEF End, Waiting, Stream!End
    <2>2. ASSUME NEW c \in Later, Deliver(c) PROVE Stream!Deliver
      BY <1>2, <2>2, CharsAssumption DEF Deliver, Waiting, Stream!Deliver
    <2> QED BY <2>1, <2>2
  <1>4. ended => ended' /\ Len(text') = Len(text)
    BY <1>0 DEF Waiting
  <1>5. Reading'
    <2> SUFFICES ASSUME Inside(mode) PROVE Reading'
      BY <1>1 DEF Reading
    <2>1. PICK m, a, b : m = mode /\ a = start /\ b = pos
      OBVIOUS
    <2>2. /\ a \in Nat \ {0} /\ b \in Nat /\ a <= b /\ b <= Len(text)
          /\ Len(text) \in Nat /\ Len(text') \in Nat
      BY <1>0, <1>1, <2>1 DEF TypeOK, Reading
    <2>3. Reads(m, a, b) /\ text[a] \notin Blanks /\ startLine = 1 + LineEnds(a - 1)
      BY <1>0, <2>1 DEF Reading
    <2>4. Reads(m, a, b)'
      BY <1>1, <1>4, <2>2, <2>3, ReadsKept
    <2>5. text'[a] \notin Blanks
      BY <1>1, <2>2, <2>3
    <2>6. LineEnds(a - 1)' = LineEnds(a - 1)
      <3>1. {i \in 1..(a - 1) : text'[i] = "nl"} = {i \in 1..(a - 1) : text[i] = "nl"}
        BY <1>1, <2>2
      <3> QED BY <3>1 DEF LineEnds
    <2>7. mode' = m /\ start' = a /\ pos' = b /\ startLine' = startLine
      BY <1>1, <2>1
    <2> QED BY <2>2, <2>3, <2>4, <2>5, <2>6, <2>7 DEF Reading
  <1> QED BY <1>2, <1>3, <1>5

\* Nothing is being read at first.
LEMMA SoundInit == ASSUME Init PROVE Sound /\ Stream!Init
  <1>1. TypeOK /\ Counted /\ Gapless
    BY TypeInit, CountedInit, GaplessInit
  <1>2. Reading /\ NotStopped
    BY DEF Init, Started, Reading, Inside, NotStopped, Stream!Stopped
  <1>3. Stream!Init
    BY CharsAssumption DEF Init, Started, Stream!Init
  <1> QED BY <1>1, <1>2, <1>3 DEF Sound

\* Every step keeps the invariant, and is one of TokenStream's or does not show.
LEMMA SoundStep == ASSUME Sound, [Next]_vars PROVE Sound' /\ [Stream!Next]_(Stream!vars)
  <1>0. TypeOK /\ Counted /\ Gapless /\ Reading /\ NotStopped
    BY DEF Sound
  <1>1. TypeOK' /\ Counted' /\ Gapless'
    BY <1>0, TypeStep, CountedStep, GaplessStep
  <1>2. CASE Step
    <2>1. Keeps /\ UNCHANGED <<text, ended>>
      BY <1>0, <1>2, StepKeeps, StepShape DEF Shape
    <2>2. [Stream!Next]_(Stream!vars)
      BY <2>1 DEF Keeps, Stream!Next, Stream!vars
    <2> QED BY <1>1, <2>1, <2>2 DEF Keeps, Sound
  <1>3. CASE End \/ \E c \in Later : Deliver(c)
    BY <1>1, <1>3, StreamKeeps DEF Sound, Stream!Next
  <1>4. CASE UNCHANGED vars
    <2>1. text' = text /\ ended' = ended /\ tokens' = tokens
      BY <1>4 DEF vars
    <2>2. NotStopped'
      BY <1>0, <1>4 DEF vars, NotStopped, Stream!Stopped, Stream!Last
    <2>3. Reading'
      <3>1. PICK m, a, b : m = mode /\ a = start /\ b = pos
        OBVIOUS
      <3>2. mode' = m /\ start' = a /\ pos' = b /\ startLine' = startLine /\ double' = double
        BY <1>4, <3>1 DEF vars
      <3>3. LineEnds(a - 1)' = LineEnds(a - 1)
        BY <2>1 DEF LineEnds
      <3>4. Reads(m, a, b) => Reads(m, a, b)'
        BY <2>1, <3>2, SameReads
      <3> QED BY <1>0, <2>1, <3>1, <3>2, <3>3, <3>4 DEF Reading
    <2> QED BY <1>1, <2>1, <2>2, <2>3 DEF Sound, Stream!vars
  <1> QED BY <1>2, <1>3, <1>4 DEF Next

\* A Tokenizer keeps the promise of TokenStream, for texts of any length and
\* however the stream delivers them: what Next returns, one token after another,
\* is the next one of the text, with a line that it stands on, as soon as nothing
\* that may follow can change it.
THEOREM TokenizerKeepsThePromise == Spec => KeepsThePromise
  <1>1. Init => Sound /\ Stream!Init
    BY SoundInit
  <1>2. Sound /\ [Next]_vars => Sound' /\ [Stream!Next]_(Stream!vars)
    BY SoundStep
  <1> QED BY <1>1, <1>2, PTL DEF Spec, KeepsThePromise, Stream!Spec
=============================================================================
