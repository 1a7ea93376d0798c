----------------------------- MODULE Tokenizer -----------------------------
(***************************************************************************)
(* Parser::Tokenizer: from the characters of a stream to tokens.            *)
(*                                                                         *)
(* The stream holds a text, and delivers more of it when the tokenizer       *)
(* needs another character, or ends.                                        *)
(* Every step looks at the next character, and most take it; mode says      *)
(* which loop of which function the tokenizer is in.  A token is kept with  *)
(* the span it was read from in place of its value.                         *)
(***************************************************************************)
EXTENDS Lexemes

CONSTANTS
    Chars,     \* the characters of the texts, one or two of each class
    Files,     \* what a stream holds when the reading starts
    Later,     \* the characters it delivers later
    MaxText    \* bound on the characters of a text that grows

ASSUME CharsAssumption ==
    /\ Chars \subseteq Blanks \cup Symbols \cup Signs \cup Digits \cup Letters \cup Others
    /\ Files \subseteq Seq(Chars) /\ Later \subseteq Chars
    /\ MaxText \in Nat

VARIABLES
    ended,      \* it will not deliver more
    pos,        \* how many characters have been taken
    line,       \* m_line
    mode,       \* the loop the tokenizer is in; "next" between two tokens
    start,      \* the position of the first character of the token
    startLine,  \* start_line
    double,     \* is_double
    tokens      \* what Next has returned

vars == <<text, ended, pos, line, mode, start, startLine, double, tokens>>

Modes == {"next", "string", "escape", "after_b", "binary", "after_slash", "number", "after_e",
          "word", "line_comment", "block", "after_star", "stopped"}

-----------------------------------------------------------------------------
\* Tokenizer(stream), for a stream that holds text.
Started ==
    /\ ended = FALSE /\ pos = 0 /\ line = 1
    /\ mode = "next" /\ start = 1 /\ startLine = 1 /\ double = FALSE /\ tokens = <<>>

Init == text \in Files /\ Started

(* The stream *)

Waiting == mode # "stopped" /\ pos = Len(text) /\ ~ended

Deliver(c) ==
    /\ Waiting /\ Len(text) < MaxText
    /\ text' = Append(text, c)
    /\ UNCHANGED <<ended, pos, line, mode, start, startLine, double, tokens>>

End ==
    /\ Waiting
    /\ ended' = TRUE
    /\ UNCHANGED <<text, pos, line, mode, start, startLine, double, tokens>>

-----------------------------------------------------------------------------
(* The tokenizer *)

\* What peek() or get() answers, once it does.
Char == IF pos < Len(text) THEN text[pos + 1] ELSE "eof"

In(m) == mode = m /\ ~Waiting

\* The next character is taken, and counted when it ends a line.
Take ==
    /\ pos' = pos + 1
    /\ line' = IF Char = "nl" THEN line + 1 ELSE line

\* The next character is left where it is.
Leave == UNCHANGED <<pos, line>>

\* The function goes on in mode m.
GoOn(m) == mode' = m /\ UNCHANGED <<text, ended, start, startLine, double, tokens>>

\* Next returns a token; the parser asks for no other after these two.
Return(type, at) ==
    /\ tokens' = Append(tokens, [type |-> type, line |-> at, last |-> pos',
                                 first |-> IF mode = "next" THEN pos + 1 ELSE start])
    /\ mode' = IF type \in {"EndOfFile", "Unknown"} THEN "stopped" ELSE "next"
    /\ UNCHANGED <<text, ended, start, startLine, double>>

SkipWhitespace == In("next") /\ Char \in Blanks /\ Take /\ GoOn("next")

\* The function that reads a token, by its first character.
Reader ==
    CASE Char = "b" -> "after_b"
      [] Char \in (Letters \ {"b"}) \cup {"_"} -> "word"
      [] Char = Quote -> "string"
      [] Char = "#" -> "line_comment"
      [] Char = "/" -> "after_slash"
      [] Char \in Signs \cup Digits -> "number"
      [] OTHER -> "none"

\* Mutation: the line where a comment starts is not noted.
BeginOnOldLine ==
    /\ In("next") /\ Char \notin Blanks /\ Reader # "none"
    /\ mode' = Reader /\ start' = pos + 1 /\ double' = FALSE
    /\ Take
    /\ UNCHANGED <<text, ended, startLine, tokens>>

\* Next, at a character that is not blank.
Begin ==
    /\ In("next") /\ Char \notin Blanks /\ Reader # "none"
    /\ mode' = Reader /\ start' = pos + 1 /\ startLine' = line /\ double' = FALSE
    /\ Take
    /\ UNCHANGED <<text, ended, tokens>>

ReadSymbol == In("next") /\ Char \in Symbols /\ Take /\ Return(SymbolType[Char], line)

ReadUnknown ==
    /\ In("next") /\ Char \notin Blanks \cup Symbols \cup {"eof"} /\ Reader = "none"
    /\ Take /\ Return("Unknown", line)

\* Mutation: the end of the stream is taken like a character.
ReadEndTaken == In("next") /\ Char = "eof" /\ Take /\ Return("EndOfFile", line)

ReadEnd == In("next") /\ Char = "eof" /\ Leave /\ Return("EndOfFile", line)

ReadString ==
    /\ In("string")
    /\ \/ Char = Quote /\ Take /\ Return("String", line)
       \/ Char = Backslash /\ Take /\ GoOn("escape")
       \/ Char \notin {Quote, Backslash, "eof"} /\ Take /\ GoOn("string")
       \/ Char = "eof" /\ Leave /\ Return("Unknown", line)

\* The line that an invalid escape ends is not counted.
ReadEscape ==
    /\ In("escape")
    /\ \/ Char \in Escapes /\ Take /\ GoOn("string")
       \/ /\ Char \notin Escapes \cup {"eof"}
          /\ pos' = pos + 1 /\ UNCHANGED line /\ Return("Unknown", line)
       \/ Char = "eof" /\ Leave /\ Return("Unknown", line)

\* Mutation: the b that begins no binary literal is not put back.
LookForBinaryLosingB ==
    /\ In("after_b")
    /\ \/ Char = Quote /\ Take /\ GoOn("binary")
       \/ Char # Quote /\ Leave /\ GoOn("next")

\* The b is put back, and taken again as the first letter of a word.
LookForBinary ==
    /\ In("after_b")
    /\ \/ Char = Quote /\ Take /\ GoOn("binary")
       \/ Char # Quote /\ Leave /\ GoOn("word")

\* Mutation: the lines of a binary literal are not counted.
ReadBinaryUncounted ==
    /\ In("binary")
    /\ \/ Char = Quote /\ Take /\ Return("Binary", line)
       \/ Char \notin {Quote, "eof"} /\ pos' = pos + 1 /\ UNCHANGED line /\ GoOn("binary")
       \/ Char = "eof" /\ Leave /\ Return("Unknown", line)

ReadBinary ==
    /\ In("binary")
    /\ \/ Char = Quote /\ Take /\ Return("Binary", line)
       \/ Char \notin {Quote, "eof"} /\ Take /\ GoOn("binary")
       \/ Char = "eof" /\ Leave /\ Return("Unknown", line)

\* A dot counts once, and not after an exponent; exponents are not counted.
ReadNumber ==
    /\ In("number")
    /\ \/ Char \in Digits /\ Take /\ GoOn("number")
       \/ /\ Char = "e" \/ (Char = "." /\ ~double)
          /\ mode' = IF Char = "e" THEN "after_e" ELSE "number"
          /\ double' = TRUE
          /\ Take /\ UNCHANGED <<text, ended, start, startLine, tokens>>
       \/ /\ Char \notin Digits \cup {"e"} /\ ~(Char = "." /\ ~double)
          /\ Leave /\ Return(IF double THEN "Double" ELSE "Integer", line)

\* After the e of an exponent.
ReadExponent ==
    /\ In("after_e")
    /\ \/ Char \in Signs /\ Take /\ GoOn("number")
       \/ Char \notin Signs /\ Leave /\ GoOn("number")

ReadIdentifierOrKeyword ==
    /\ In("word")
    /\ \/ Char \in WordChars /\ Take /\ GoOn("word")
       \/ Char \notin WordChars /\ Leave
          /\ Return(IF SubSeq(text, start, pos) = <<"true">> THEN "Bool" ELSE "Identifier", line)

\* After a slash.
LookForComment ==
    /\ In("after_slash")
    /\ \/ Char = "/" /\ Take /\ GoOn("line_comment")
       \/ Char = "*" /\ Take /\ GoOn("block")
       \/ Char \notin {"/", "*"} /\ Leave /\ Return("Unknown", line)

\* The line it ends is counted before the token is made.
ReadSingleLineComment ==
    /\ In("line_comment")
    /\ \/ Char \notin {"nl", "eof"} /\ Take /\ GoOn("line_comment")
       \/ /\ (Char = "nl" /\ Take) \/ (Char = "eof" /\ Leave)
          /\ Return(IF text[start] = "#" THEN "SingleLineBash" ELSE "SingleLineC", line')

\* Mutation: the end of the stream does not end a comment that is not closed.
ReadMultiLineCommentForever ==
    /\ In("block")
    /\ \/ Char = "*" /\ Take /\ GoOn("after_star")
       \/ Char \notin {"*", "eof"} /\ Take /\ GoOn("block")
       \/ Char = "eof" /\ Leave /\ GoOn("block")

ReadMultiLineComment ==
    /\ In("block")
    /\ \/ Char = "*" /\ Take /\ GoOn("after_star")
       \/ Char \notin {"*", "eof"} /\ Take /\ GoOn("block")
       \/ Char = "eof" /\ Leave /\ Return("Unknown", line)

\* After a star in a comment, which may be the first of several.
LookForSlash ==
    /\ In("after_star")
    /\ \/ Char = "/" /\ Take /\ Return("MultiLineC", startLine)
       \/ Char # "/" /\ Leave /\ GoOn("block")

Step ==
    \/ SkipWhitespace \/ Begin \/ ReadSymbol \/ ReadUnknown \/ ReadEnd
    \/ ReadString \/ ReadEscape \/ LookForBinary \/ ReadBinary
    \/ ReadNumber \/ ReadExponent \/ ReadIdentifierOrKeyword
    \/ LookForComment \/ ReadSingleLineComment \/ ReadMultiLineComment \/ LookForSlash

Next == Step \/ End \/ \E c \in Later : Deliver(c)

Spec == Init /\ [][Next]_vars /\ WF_vars(Step)

-----------------------------------------------------------------------------
(* Properties *)

Token == [type: TokenTypes, line: Nat \ {0}, first: Nat \ {0}, last: Nat]

\* Every variable has its type; the tokenizer is never past the text.
TypeOK ==
    /\ text \in Seq(Chars) /\ ended \in BOOLEAN
    /\ pos \in 0..Len(text) /\ line \in 1..(pos + 1)
    /\ mode \in Modes /\ start \in 1..(pos + 1) /\ startLine \in 1..line
    /\ double \in BOOLEAN /\ tokens \in Seq(Token)

\* A Tokenizer keeps the promise of TokenStream, of which the state is part of
\* its own: every step hands over the next token or does not show.
Stream == INSTANCE TokenStream

KeepsThePromise == Stream!Spec

\* Where token k may begin: after the token before it.
Before(k) == IF k = 1 THEN 0 ELSE tokens[k - 1].last

\* Nothing but blanks is left out between the tokens, and nothing is read twice.
NothingLost ==
    /\ \A k \in DOMAIN tokens :
          /\ Before(k) < tokens[k].first
          /\ \A i \in (Before(k) + 1)..(tokens[k].first - 1) : text[i] \in Blanks
    /\ mode = "next" => \A i \in (Before(Len(tokens) + 1) + 1)..pos : text[i] \in Blanks

\* Between two tokens m_line is the line the tokenizer is in, whatever the
\* lines of the strings, binary literals and comments before it.
LinesCounted == mode = "next" => line = 1 + LineEnds(pos)
=============================================================================
