-------------------------- MODULE DocumentMeaning --------------------------
(***************************************************************************)
(* What the text of a document means, as trees made from its tokens        *)
(* without a parser.                                                        *)
(***************************************************************************)
EXTENDS Grammar, Trees

\* The bracket at k has been closed.
IsClosed(D, k) == \E m \in (k + 1)..Len(D) : Depth(D, m) < Depth(D, k)

\* The tokens that complete items directly inside the bracket at j start with.
ItemsIn(D, j) ==
    InOrder({k \in DOMAIN D : /\ D[k].type \in ItemTokens /\ Around(D, k) = j
                              /\ D[k].type \in Openers => IsClosed(D, k)}, Len(D))

\* The name that the item at k is given.
Label(D, k) == IF Follows(D, k, {"Equal"}) THEN D[k - 2].text ELSE NoName

\* The items that start with the tokens of D, read under policy p.
Meanings(D, p) ==
    LET item[k \in DOMAIN D] ==
          LET kind   == IF D[k].type = "LBrace" THEN "Group" ELSE "List"
              inside == ItemsIn(D, k)
          IN  IF D[k].type \in Openers
              THEN Node(kind, Label(D, k), NoVal, p,
                        Kept(kind, [i \in DOMAIN inside |-> item[inside[i]]], 0, p))
              ELSE Node(D[k].type, Label(D, k), D[k].text, "ThrowException", <<>>)
    IN  item

\* The item that starts with token k.
Meaning(D, k, p) == Meanings(D, p)[k]

\* What the root holds once D has been added to what it held before.
Expect(D, start, p) ==
    LET outer == ItemsIn(D, 0)
    IN  Kept("Group", start \o [i \in DOMAIN outer |-> Meaning(D, outer[i], p)],
             Len(start), p)

\* The position where the item that the last token of D completes starts.
Completed(D) == IF Last(D).type \in Closers THEN Around(D, Len(D)) ELSE Len(D)

\* What stands before the item at k in the container it is for.
Earlier(D, k, start, p) ==
    LET j      == Around(D, k)
        inside == InOrder({i \in ToSet(ItemsIn(D, j)) : i < k}, Len(D))
    IN  (IF j = 0 THEN start ELSE <<>>) \o [i \in DOMAIN inside |-> Meaning(D, inside[i], p)]

\* Add refuses, with that exception, the item that the last token of D
\* completes: it is no comment, and it has an invalid name in a group, or the
\* policy is ThrowException and an earlier item of its container collides with it.
Refuses(D, start, p, why) ==
    LET k      == Completed(D)
        item   == Meaning(D, k, p)
        kind   == IF InList(D, k) THEN "List" ELSE "Group"
        others == Earlier(D, k, start, p)
    IN  /\ item.kind # "Comment"
        /\ why = "InvalidName" <=> kind = "Group" /\ item.name \notin Names
        /\ why # "InvalidName" =>
             /\ p = "ThrowException"
             /\ \E i \in DOMAIN others : Collide(kind, others[i], item)
=============================================================================
