----------------------------- MODULE MCTextLoad -----------------------------
(***************************************************************************)
(* Characters, texts and documents for model-checking TextLoad, and with it *)
(* Tokenizer.                                                              *)
(***************************************************************************)
EXTENDS TextLoad

\* Every class is there.
Alphabet ==
    {"nl", "=", "]", "+", "0", "b", "e", "n", "true", Quote, Backslash, "/", "*", "#", "."}

\* What documents are written with as well.
AllChars == Alphabet \cup {"sp", "x", "_", "-", "1", "320", "{", "}", "["}

Texts(S) == UNION {[1..n -> S] : n \in 0..2}

Leaf(type, name, val) == [type |-> type, name |-> name, val |-> val]
Container(type, name, items) == [type |-> type, name |-> name, items |-> items]

NoName == <<>>
SomeNames == {<<"x">>, <<"e">>, <<"true">>, <<"b", "0">>}
OddNames  == {<<>>, <<"_">>, <<"x", ".">>, <<"0">>, <<"x", "sp", "x">>}

\* Whole, in both notations, too small, and not a number.
Doubles == {<<"1">>, <<"1", ".", "1">>, <<"1", "e", "+", "1", "1">>,
            <<"1", "e", "-", "320">>, <<"n">>}

\* Each kind of value and comment.
Samples(name) ==
    {Leaf("Integer", name, <<"0">>), Leaf("Bool", name, <<"true">>),
     Leaf("Binary", name, <<"b", "0", "0", "=">>), Leaf("String", name, <<"x", "#">>),
     Leaf("SingleLineBash", NoName, <<"x">>), Leaf("MultiLineC", name, <<"x", "nl">>)}
        \cup {Leaf("Double", name, v) : v \in Doubles}

Leaves ==
    UNION {Samples(name) : name \in SomeNames}
        \cup {Leaf("String", <<"x">>, v) : v \in Texts({"x", "n", "nl", Quote, Backslash})}
        \cup {Leaf(type, NoName, v) : type \in CommentTypes, v \in Texts({"x", "nl", "*", "/"})}
        \cup {Leaf("Integer", name, <<"0">>) : name \in OddNames}

\* One item, and two: of any names, the second in a group; in a list, the second
\* in another.
SomeDocuments ==
    {<<a>> : a \in Leaves}
        \cup {<<a, b>> : a, b \in Samples(<<"x">>)}
        \cup {<<a, Container("Group", <<"e">>, <<b>>)>> : a, b \in Samples(<<"x">>)}
        \cup {<<Container("List", <<"x">>, <<a, b>>)>> : a, b \in Samples(NoName)}
        \cup {<<Container("List", <<"x">>, <<a, Container("List", name, <<b>>)>>)>> :
                  name \in {NoName, <<"e">>}, a, b \in Samples(NoName)}

\* What any characters may follow: an item of the root or of a list, a number, a
\* string, a binary literal if a quote comes next, a comment.
Beginnings ==
    {<<"sp", "nl", "sp">>, <<"x", "=", "[">>, <<"x", "=", "0">>, <<"x", "=", Quote>>,
     <<"x", "=", "b">>, <<"/", "*", "nl">>}
=============================================================================
