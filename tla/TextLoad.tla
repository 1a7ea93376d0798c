------------------------------ MODULE TextLoad ------------------------------
(***************************************************************************)
(* Config::Load in text mode: a read into a new Config, the tokenizer and   *)
(* the parser together.                                                     *)
(*                                                                         *)
(* The tokenizer moves when the parser asks for a token, which it does not  *)
(* do after an error.  Tokenizer and TextRead are used as they are; what is *)
(* said here is what a token becomes between them, and what Load makes of   *)
(* the outcome.                                                             *)
(***************************************************************************)
EXTENDS TextFormat

CONSTANTS
    Documents, \* the items of some Configs
    Nothing,   \* no document
    Loaded,    \* the Config that Load makes
    Ids,       \* addresses of items
    NoVal,     \* what a token or a container has for a value, which has none
    Null,      \* a free address
    MaxTokens  \* bound on the tokens of a text, end of file aside

VARIABLES heap, policy, before, after, onFailure, phase, next, frames, level, action, ret,
          read, origin, calls, reads,
          document   \* history: what the stream is the text of, or Nothing

\* Base::IsNameValid
IsNameValid(s) ==
    s # <<>> /\ s[1] \in Letters /\ ToSet(s) \subseteq Letters \cup Digits \cup {"_"}

\* A payload is the type of its value or comment and what is in it.
Payload(type, val) == [type |-> type, val |-> val]

Parser == INSTANCE TextRead WITH
    Root <- Loaded, Configs <- {Loaded},
    Names <- {s \in Seq(Chars) : IsNameValid(s)},
    OddNames <- {s \in Seq(Chars) : s # <<>> /\ ~IsNameValid(s)}, NoName <- <<>>,
    Vals <- {Payload(type, s) : type \in LeafTypes \cup CommentTypes, s \in Seq(Chars)},
    KindOf <- [v \in {} |-> ""], NaN <- Payload("Double", <<"n">>),
    UsedPolicies <- {}, UsedHooks <- {}, MaxHooks <- 0, MaxTokens <- MaxTokens, MaxReads <- 1

parserVars == <<heap, policy, before, after, onFailure, phase, next, frames, level, action, ret,
                read, origin, calls, reads>>
loadVars   == <<vars, parserVars, document>>

-----------------------------------------------------------------------------
(* Between tokenizer and parser *)

\* std::stoi and std::stod throw if there is no digit where a number starts.
IsNumeral(s) ==
    LET unsigned == IF s[1] \in Signs THEN Tail(s) ELSE s
    IN  \/ unsigned # <<>> /\ unsigned[1] \in Digits
        \/ Len(unsigned) > 1 /\ unsigned[1] = "." /\ unsigned[2] \in Digits

\* std::stod throws for a number too small as for one too large.
IsTooSmall(s) == \E k \in DOMAIN s : k > 2 /\ SubSeq(s, k - 2, k) = <<"e", "-", "320">>

\* There are many ways to write zero.
IsZero(s) ==
    \A k \in DOMAIN s : s[k] \in Digits \ {"0"} => \E j \in 1..(k - 1) : s[j] = "e"

\* The number that a numeral is; a dot in a double is all the same.
Number(type, s) ==
    CASE IsZero(s) -> IF type = "Integer" THEN <<"0">> ELSE <<"0", ".", "0">>
      [] ~IsZero(s) -> IF type = "Double" /\ ToSet(s) \cap {".", "e"} = {}
                       THEN s \o <<".", "0">> ELSE s

\* Base64Decode throws for any other text.
IsBase64(s) ==
    LET length == Len(s) + 3 * Cardinality({k \in DOMAIN s : s[k] = "true"})
        padding == {k \in DOMAIN s : s[k] = "="}
    IN  /\ length % 4 = 0
        /\ ToSet(s) \subseteq Letters \cup Digits \cup {"+", "/", "="}
        /\ padding \subseteq (Len(s) - 1)..Len(s)
        /\ \A k \in padding : \A j \in k..Len(s) : j \in padding

\* A value can be made of it.
HasValue(type, s) ==
    /\ type \in {"Integer", "Double"} => IsNumeral(s)
    /\ type = "Double" => ~IsTooSmall(s)
    /\ type = "Binary" => IsBase64(s)

\* What the parser makes of the token that Next returns.
Given(t) ==
    LET val == ValueOf(t)
    IN  CASE t.type = "Identifier" -> [type |-> "Identifier", text |-> val]
          [] t.type \in LeafTypes /\ HasValue(t.type, val) ->
                 [type |-> "Value",
                  text |-> Payload(t.type, IF t.type \in {"Integer", "Double"}
                                           THEN Number(t.type, val) ELSE val)]
          [] t.type \in LeafTypes /\ ~HasValue(t.type, val) -> [type |-> "Bad", text |-> NoVal]
          [] t.type = "Unknown" -> [type |-> "Bad", text |-> NoVal]
          [] t.type \in CommentTypes -> [type |-> "Comment", text |-> Payload(t.type, val)]
          [] OTHER -> [type |-> t.type, text |-> NoVal]

\* The next item goes to any free address.
SomeFree == IF Parser!Free = {} THEN Null ELSE CHOOSE x \in Parser!Free : TRUE

Parse(token, x) ==
    \/ Parser!Unexpected(token) \/ Parser!ReadName(token) \/ Parser!ReadEqual(token)
    \/ Parser!ReadItem(token, x) \/ Parser!OpenContainer(token, x)
    \/ Parser!CloseContainer(token) \/ Parser!EndDocument(token)

-----------------------------------------------------------------------------
(* The load *)

\* The stream of a document that was saved, or any other.
LoadInit ==
    /\ Started /\ Parser!Init
    /\ \/ text \in Files /\ document = Nothing
       \/ document \in Documents /\ text = Text(document)

\* Config cfg; cfg << stream
Load == Parser!StartRead /\ UNCHANGED <<vars, document>>

StartParse == Parser!StartParse /\ UNCHANGED <<vars, document>>

\* The stream goes on or ends while the tokenizer waits for it; nothing comes
\* after a document.
Feed ==
    /\ phase = "parse"
    /\ End \/ (document = Nothing /\ \E c \in Later : Deliver(c))
    /\ UNCHANGED <<parserVars, document>>

\* A step of m_tokenizer.Next(), and what the parser does with its token.
Read ==
    /\ phase = "parse" /\ Step /\ UNCHANGED document
    /\ \/ tokens' = tokens /\ UNCHANGED parserVars
       \/ tokens' # tokens /\ \E token \in {Given(Last(tokens'))} : Parse(token, SomeFree)

\* return cfg, or what the read threw.
Answer == (Parser!EndRead \/ Parser!ReportFailure) /\ UNCHANGED <<vars, document>>

LoadStep == StartParse \/ Read \/ Answer

LoadNext == Load \/ Feed \/ LoadStep

LoadSpec == LoadInit /\ [][LoadNext]_loadVars /\ WF_loadVars(LoadStep)

-----------------------------------------------------------------------------
(* What a document can be read back as *)

IsComment(item) == item.type \in CommentTypes

\* The text of an item is read as one item with that value.
LeafFits(item) ==
    CASE item.type = "String" -> ToSet(item.val) \cap {Quote, Backslash} = {}
      [] item.type \in {"SingleLineBash", "SingleLineC"} -> "nl" \notin ToSet(item.val)
      [] item.type = "MultiLineC" ->
             \A k \in DOMAIN item.val : ~(k > 1 /\ item.val[k - 1] = "*" /\ item.val[k] = "/")
      [] item.type = "Double" ->
             /\ IsNumeral(item.val) /\ ~IsTooSmall(item.val)
             /\ ToSet(item.val) \cap {".", "e"} = {} => "e" \notin ToSet(item.name)
      [] OTHER -> TRUE

RECURSIVE Meant(_), Fits(_, _), Held(_)

\* The items as they should be in a container.
Meant(items) ==
    [k \in DOMAIN items |->
        LET item == items[k]
        IN  IF item.type \in {"Group", "List"}
            THEN [kind |-> item.type, name |-> item.name, val |-> NoVal,
                  items |-> Meant(item.items)]
            ELSE [kind |-> IF IsComment(item) THEN "Comment" ELSE "Value",
                  name |-> IF IsComment(item) THEN <<>> ELSE item.name,
                  val |-> Payload(item.type, IF item.type = "Double"
                                             THEN Number(item.type, item.val) ELSE item.val),
                  items |-> <<>>]]

\* The items can be read into a container of that type: comments may be anywhere;
\* in a group every other item has a name, which is valid, no keyword and nobody
\* else's; in a list none has a name, and no two are equal.
Fits(type, items) ==
    LET others == {k \in DOMAIN items : ~IsComment(items[k])}
    IN  /\ \A k \in DOMAIN items :
              IF items[k].type \in {"Group", "List"}
              THEN Fits(items[k].type, items[k].items) ELSE LeafFits(items[k])
        /\ \A j, k \in others :
              IF type = "Group"
              THEN /\ IsNameValid(items[k].name) /\ items[k].name # <<"true">>
                   /\ items[j].name = items[k].name => j = k
              ELSE /\ items[k].name = <<>>
                   /\ Meant(<<items[j]>>) = Meant(<<items[k]>>) => j = k

\* The items that the item at x has.
Held(x) ==
    [k \in DOMAIN heap[x].kids |->
        LET y == heap[x].kids[k]
        IN  [kind |-> heap[y].kind, name |-> heap[y].name, val |-> heap[y].val,
             items |-> Held(y)]]

-----------------------------------------------------------------------------
(* Properties *)

\* Exactly the documents that fit are loaded from their own text with the items
\* and values they were saved with; of any other Load reports an error or makes
\* a different document.  Nothing is escaped or checked on the way out, so this
\* is what Save relies on.
SavedIsLoaded ==
    phase = "idle" /\ reads = 1 /\ document # Nothing =>
        (ret = "done" /\ Held(Loaded) = Meant(document)) <=> Fits("Group", document)

\* CHANGELOG: whole doubles "maintain a `.0` suffix so they are recognized as
\* Double tokens by the parser".
WholeDoublesStayDoubles ==
    document # Nothing =>
        ((\A k \in DOMAIN document : /\ document[k].type = "Double"
                                    /\ ToSet(document[k].val) \subseteq Digits)
            => \A k \in DOMAIN tokens : tokens[k].type # "Integer")

\* A stream that ends, in the middle of whatever, is answered.
LoadEnds == ended ~> ret # "none"
=============================================================================
