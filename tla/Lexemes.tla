------------------------------ MODULE Lexemes ------------------------------
(***************************************************************************)
(* The characters and the tokens of the text format, and what text a token *)
(* of each type is, said without a tokenizer.                               *)
(***************************************************************************)
EXTENDS Naturals, FiniteSets, SequencesExt

VARIABLE text   \* what the stream holds, or has delivered

Quote     == "quote"
Backslash == "backslash"

Blanks   == {"sp", "nl"}
Symbols  == {"=", "{", "}", "[", "]"}
Signs    == {"+", "-"}
Digits   == {"0", "1", "320"}             \* "320" stands for its three digits
Letters  == {"b", "e", "n", "x", "true"}   \* "true" stands for its four letters
WordChars == Letters \cup Digits \cup {"_", "."}
Escapes  == {Quote, Backslash, "n", "true"}   \* \t, as \n and \r, is one
Others   == {Quote, Backslash, "/", "*", "#", ".", "_", "?"}

CommentTypes == {"SingleLineBash", "SingleLineC", "MultiLineC"}

\* TokenType, comments by their CommentType.
TokenTypes ==
    {"Identifier", "String", "Binary", "Integer", "Double", "Bool", "Equal", "LBrace",
     "RBrace", "LBracket", "RBracket", "EndOfFile", "Unknown"} \cup CommentTypes

SymbolType ==
    [c \in Symbols |-> CASE c = "=" -> "Equal"
                         [] c = "{" -> "LBrace"
                         [] c = "}" -> "RBrace"
                         [] c = "[" -> "LBracket"
                         [] c = "]" -> "RBracket"]

-----------------------------------------------------------------------------
(* What a token is, said without a tokenizer: the text from a to b *)

Has(a, b, cs) == \E k \in a..b : text[k] \in cs

\* What follows position b is not in cs; it may be the end of the text.
NotBefore(b, cs) == b < Len(text) => text[b + 1] \notin cs

\* Position k is escaped by an odd number of backslashes after a.
IsEscaped(a, k) ==
    Cardinality({j \in (a + 1)..(k - 1) : \A i \in j..(k - 1) : text[i] = Backslash}) % 2 = 1

IsString(a, b) ==
    /\ a < b /\ text[a] = Quote
    /\ \A k \in (a + 1)..b : /\ text[k] = Quote /\ ~IsEscaped(a, k) <=> k = b
                             /\ IsEscaped(a, k) => text[k] \in Escapes

IsBinary(a, b) ==
    /\ a + 1 < b /\ text[a] = "b" /\ text[a + 1] = Quote /\ text[b] = Quote
    /\ ~Has(a + 2, b - 1, {Quote})

\* Neither can be continued; a dot is part of a number but for a second one
\* and one after an exponent, a sign at its start and after an e.
IsNumber(a, b) ==
    /\ text[a] \in Signs \cup Digits
    /\ \A k \in (a + 1)..b :
          \/ text[k] \in Digits \cup {"e"}
          \/ text[k] = "." /\ ~Has(a, k - 1, {".", "e"})
          \/ text[k] \in Signs /\ text[k - 1] = "e"
    /\ NotBefore(b, Digits \cup {"e"})
    /\ Has(a, b, {".", "e"}) \/ NotBefore(b, {"."})
    /\ text[b] = "e" => NotBefore(b, Signs)

IsWord(a, b) ==
    /\ text[a] \in Letters \cup {"_"} /\ \A k \in a..b : text[k] \in WordChars
    /\ NotBefore(b, WordChars)
    /\ a = b /\ text[a] = "b" => NotBefore(b, {Quote})

EndsLine(a, b) ==
    /\ ~Has(a, b - 1, {"nl"})
    /\ text[b] = "nl" \/ b = Len(text)

\* The last two characters are the first to close it, and not the slash and
\* the star that open it.
IsBlock(a, b) ==
    LET closes(k) == text[k - 1] = "*" /\ text[k] = "/"
    IN  /\ a + 2 < b /\ text[a] = "/" /\ text[a + 1] = "*"
        /\ \A k \in (a + 3)..b : closes(k) <=> k = b

\* The text from a to b is a token of that type.
IsLexeme(type, a, b) ==
    CASE type \in {SymbolType[c] : c \in Symbols} ->
             a = b /\ text[a] \in Symbols /\ SymbolType[text[a]] = type
      [] type = "String" -> IsString(a, b)
      [] type = "Binary" -> IsBinary(a, b)
      [] type = "Integer" -> IsNumber(a, b) /\ ~Has(a, b, {".", "e"})
      [] type = "Double" -> IsNumber(a, b) /\ Has(a, b, {".", "e"})
      [] type = "Bool" -> IsWord(a, b) /\ SubSeq(text, a, b) = <<"true">>
      [] type = "Identifier" -> IsWord(a, b) /\ SubSeq(text, a, b) # <<"true">>
      [] type = "SingleLineBash" -> text[a] = "#" /\ EndsLine(a, b)
      [] type = "SingleLineC" ->
             a < b /\ text[a] = "/" /\ text[a + 1] = "/" /\ EndsLine(a, b)
      [] type = "MultiLineC" -> IsBlock(a, b)

Lexical == TokenTypes \ {"EndOfFile", "Unknown"}

\* The line ends among the first n characters.
LineEnds(n) == Cardinality({i \in 1..n : text[i] = "nl"})
=============================================================================
