----------------------------- MODULE TextFormat -----------------------------
(***************************************************************************)
(* The text that a Config is saved as, and what the tokenizer makes of it. *)
(*                                                                         *)
(* An item has a type, a name, which is empty if it has none, and its       *)
(* items, or its value as text: a string, or the text of a comment, as it   *)
(* is, a number as std::format writes it, binary data in Base64.  Nothing   *)
(* of the name of a comment is written.                                     *)
(***************************************************************************)
EXTENDS Tokenizer

LeafTypes == {"String", "Binary", "Integer", "Double", "Bool"}

-----------------------------------------------------------------------------
(* Writing *)

\* A tab for every level.
Indent(level) == [i \in 1..level |-> "sp"]

\* Base::Serialize
Label(item, level) ==
    Indent(level) \o IF item.name = <<>> THEN <<>> ELSE item.name \o <<"sp", "=", "sp">>

Quoted(s) == <<Quote>> \o s \o <<Quote>>

\* Mutation: what looks like a whole number is left as it is.
WrittenValueBare(item, level) ==
    Label(item, level) \o
        CASE item.type \in {"Integer", "Bool", "Double"} -> item.val
          [] item.type = "String" -> Quoted(item.val)
          [] item.type = "Binary" -> <<"b">> \o Quoted(item.val)

\* Value::Serialize.  Nothing is escaped in a string; what decides on the .0
\* of a double is all that is written until then, its name too.
WrittenValue(item, level) ==
    LET out == Label(item, level) \o item.val
    IN  CASE item.type \in {"Integer", "Bool"} -> out
          [] item.type = "Double" ->
                 IF ToSet(out) \cap {".", "e"} = {} THEN out \o <<".", "0">> ELSE out
          [] item.type = "String" -> Label(item, level) \o Quoted(item.val)
          [] item.type = "Binary" -> Label(item, level) \o <<"b">> \o Quoted(item.val)

\* Comment<T>::Serialize; the loop over the lines of a comment puts back the
\* line ends that getline takes, a last one too.
WrittenComment(item, level) ==
    Indent(level) \o
        CASE item.type = "SingleLineBash" -> <<"#">> \o item.val
          [] item.type = "SingleLineC" -> <<"/", "/">> \o item.val
          [] item.type = "MultiLineC" -> <<"/", "*">> \o item.val \o <<"*", "/">>

EnclosureCharacters ==
    [type \in {"Group", "List"} |-> IF type = "Group" THEN <<"{", "}">> ELSE <<"[", "]">>]

RECURSIVE Written(_, _), ContentsToString(_, _)

\* Serialize of each class.
Written(item, level) ==
    CASE item.type \in LeafTypes -> WrittenValue(item, level)
      [] item.type \in CommentTypes -> WrittenComment(item, level)
      [] item.type \in {"Group", "List"} ->
             LET enclosure == EnclosureCharacters[item.type]
             IN  Label(item, level) \o <<enclosure[1], "nl">>
                     \o ContentsToString(item.items, level + 1)
                     \o Indent(level) \o <<enclosure[2]>>

ContentsToString(items, level) ==
    FlattenSeq([k \in DOMAIN items |-> Append(Written(items[k], level), "nl")])

\* Config::Text, which the text mode of Save and the operators write.
Text(items) == ContentsToString(items, 0)

-----------------------------------------------------------------------------
(* Reading: the value of a token *)

\* ReadString takes the characters after a backslash for others.
Unescaped(s) ==
    LET take(r, c) ==
            CASE r.escaped -> [out |-> Append(r.out, IF c = "n" THEN "nl" ELSE c), escaped |-> FALSE]
              [] ~r.escaped /\ c = Backslash -> [r EXCEPT !.escaped = TRUE]
              [] OTHER -> [r EXCEPT !.out = Append(@, c)]
    IN  FoldLeft(take, [out |-> <<>>, escaped |-> FALSE], s).out

\* The line end that ends a comment is not part of it.
Unended(s) == IF s # <<>> /\ Last(s) = "nl" THEN Front(s) ELSE s

ValueOf(t) ==
    LET without(i, j) == SubSeq(text, t.first + i, t.last - j)
    IN  CASE t.type = "String" -> Unescaped(without(1, 1))
          [] t.type = "Binary" -> without(2, 1)
          [] t.type = "SingleLineBash" -> Unended(without(1, 0))
          [] t.type = "SingleLineC" -> Unended(without(2, 0))
          [] t.type = "MultiLineC" -> without(2, 2)
          [] t.type = "Unknown" -> <<>>
          [] OTHER -> without(0, 0)

=============================================================================
