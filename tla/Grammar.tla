------------------------------ MODULE Grammar ------------------------------
(***************************************************************************)
(* The tokens that the parser is given, and which of their sequences are    *)
(* documents, said without a parser.                                        *)
(***************************************************************************)
EXTENDS Items, Integers

Openers == {"LBrace", "LBracket"}
Closers == {"RBrace", "RBracket"}

\* What the tokenizer hands over.  Value is a String, Binary, Integer, Double or
\* Bool token; Bad is an Unknown token, or a number or a binary text that no
\* value can be made of.
Token ==
    [type: {"Identifier"}, text: Names \cup OddNames]
      \cup [type: {"Value", "Comment"}, text: Vals]
      \cup [type: Openers \cup Closers \cup {"Equal", "EndOfFile", "Bad"}, text: {NoVal}]

\* What an item may be made of, where a name and = precede it or none is due.
ItemTokens == {"Value", "Comment"} \cup Openers

-----------------------------------------------------------------------------
(* What a document is, by its tokens D and not by a parser *)

Count(D, k, types) == Cardinality({j \in 1..k : D[j].type \in types})

\* Containers open after token k.
Depth(D, k) == Count(D, k, Openers) - Count(D, k, Closers)

\* The position of the bracket around token k that was opened last, or 0.
Around(D, k) ==
    Max({0} \cup {j \in 1..(k - 1) : /\ D[j].type \in Openers
                                     /\ \A i \in j..(k - 1) : Depth(D, i) >= Depth(D, j)})

InList(D, k) == Around(D, k) # 0 /\ D[Around(D, k)].type = "LBracket"

Follows(D, k, types) == k > 1 /\ D[k - 1].type \in types

\* D begins some document: brackets close no more than they opened; outside of
\* lists, names and = come in pairs in front of every item but comments; the
\* end of file comes last, with nothing open.
Viable(D) ==
    \A k \in DOMAIN D :
        LET type == D[k].type
        IN  /\ Depth(D, k) >= 0
            /\ type # "Bad"
            /\ type = "Equal" <=> Follows(D, k, {"Identifier"})
            /\ type = "Identifier" => ~InList(D, k)
            /\ type \in ItemTokens \ {"Comment"} => InList(D, k) \/ Follows(D, k, {"Equal"})
            /\ type \notin ItemTokens => ~Follows(D, k, {"Equal"})
            /\ type = "EndOfFile" => k = Len(D) /\ Depth(D, k) = 0

IsDocument(D) == Viable(D) /\ D # <<>> /\ Last(D).type = "EndOfFile"

=============================================================================
