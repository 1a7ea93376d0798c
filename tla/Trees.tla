-------------------------------- MODULE Trees --------------------------------
(***************************************************************************)
(* Items as trees, and which of several trees one container can hold: what *)
(* the properties of reading, saving and loading are stated with.          *)
(***************************************************************************)
EXTENDS Items

\* An item with the trees of its items.  looks is what == compares: all but the
\* policies; self tells that the item is equal to itself, as none is with a NaN
\* in it.
Node(kind, name, val, policy, items) ==
    [kind |-> kind, name |-> name, val |-> val, policy |-> policy, items |-> items,
     looks |-> [kind |-> kind, name |-> name, val |-> val,
                items |-> [k \in DOMAIN items |-> items[k].looks],
                self |-> /\ kind = "Value" => val # NaN
                         /\ \A k \in DOMAIN items : items[k].looks.self]]

\* The items of the heap with what is below them, as deep as the number says.
TreesTo(h) ==
    LET tree[n \in 0..Cardinality(Ids)] ==
          [x \in Ids |->
             Node(h[x].kind, h[x].name, h[x].val, h[x].policy,
                  IF n = 0 THEN <<>>
                  ELSE [k \in DOMAIN h[x].kids |-> tree[n - 1][h[x].kids[k]]])]
    IN  tree

\* The item at x with everything below it.
TreeAt(h, x) == TreesTo(h)[Cardinality(Ids)][x]

TreesIn(h, x) == [k \in DOMAIN h[x].kids |-> TreeAt(h, h[x].kids[k])]

\* Two trees that one container cannot hold at once.
Collide(kind, a, b) ==
    /\ a.kind # "Comment" /\ b.kind # "Comment"
    /\ IF kind = "Group" THEN a.name = b.name ELSE a.looks = b.looks /\ a.looks.self

\* The numbers from 1 to m that are in S, in order.
InOrder(S, m) ==
    LET upto[k \in 0..m] ==
          IF k = 0 THEN <<>>
          ELSE IF k \in S THEN Append(upto[k - 1], k) ELSE upto[k - 1]
    IN  upto[m]

\* Tree k stays when trees are added in order to a container of that kind, of
\* which the first n were there before: under Keep the first of those that
\* collide stays, under Overwrite the last, under ThrowException none.
Stays(kind, trees, n, p, k) ==
    LET clash(j) == Collide(kind, trees[j], trees[k])
    IN  CASE p = "Keep" -> k <= n \/ \A j \in 1..(k - 1) : ~clash(j)
          [] p = "Overwrite" -> \A j \in (k + 1)..Len(trees) : ~clash(j)
          [] p = "ThrowException" -> \A j \in 1..Len(trees) : j = k \/ ~clash(j)

\* What is left of them.
Kept(kind, trees, n, p) ==
    LET places == InOrder({k \in DOMAIN trees : Stays(kind, trees, n, p, k)}, Len(trees))
    IN  [i \in DOMAIN places |-> trees[places[i]]]
=============================================================================
