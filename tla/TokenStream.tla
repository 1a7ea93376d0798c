---------------------------- MODULE TokenStream ----------------------------
(***************************************************************************)
(* What Parser::Tokenizer promises the parser: the tokens of a text, one    *)
(* after another, as soon as no character that may follow can change them.  *)
(***************************************************************************)
EXTENDS Lexemes

CONSTANT Chars   \* the characters of the texts

VARIABLES
    ended,   \* it will not deliver more
    tokens   \* the tokens handed over

vars == <<text, ended, tokens>>

Init == text \in Seq(Chars) /\ ended = FALSE /\ tokens = <<>>

\* Nothing is asked for after these two.
Stopped == tokens # <<>> /\ Last(tokens).type \in {"EndOfFile", "Unknown"}

Deliver ==
    /\ ~ended /\ ~Stopped
    /\ \E c \in Chars : text' = Append(text, c)
    /\ UNCHANGED <<ended, tokens>>

End == ~ended /\ ~Stopped /\ ended' = TRUE /\ UNCHANGED <<text, tokens>>

-----------------------------------------------------------------------------
(* The next token *)

\* How much of the text has been handed over.
Taken == IF tokens = <<>> THEN 0 ELSE Last(tokens).last

\* a is the first character after that which is not blank, or the end.
IsNext(a) == /\ a > Taken /\ ~\E i \in (Taken + 1)..(a - 1) : text[i] \notin Blanks
             /\ a <= Len(text) => text[a] \notin Blanks

\* Whatever follows b, a token of that type that ends there stays what it is.
Settles(type, b) ==
    \/ b < Len(text) \/ ended \/ text[b] = "nl"
    \/ type \in {"String", "Binary", "MultiLineC"} \cup {SymbolType[c] : c \in Symbols}

\* The longest text of its type; the end at the end; and the error token for a
\* place where no token begins, neither there nor with all of what was read.
IsToken(type, a, b) ==
    CASE type = "EndOfFile" -> ended /\ a = Len(text) + 1 /\ b = Len(text)
      [] type = "Unknown" -> a <= b /\ \A i \in a..Len(text), t \in Lexical : ~IsLexeme(t, a, i)
      [] type \in Lexical -> a <= b /\ IsLexeme(type, a, b) /\ Settles(type, b)

\* The line that a message about the token cites: one of those it stands on,
\* the line after a comment of one line among them.
IsLine(n, a, b) == 1 + LineEnds(a - 1) <= n /\ n <= 1 + LineEnds(b)

HandOver ==
    /\ ~Stopped /\ tokens' # <<>>
    /\ \E t \in {Last(tokens')} :
          /\ tokens' = Append(tokens, t)
          /\ t.last <= Len(text) /\ IsNext(t.first) /\ IsToken(t.type, t.first, t.last)
          /\ IsLine(t.line, t.first, t.last)
    /\ UNCHANGED <<text, ended>>

Next == Deliver \/ End \/ HandOver

Spec == Init /\ [][Next]_vars
=============================================================================
