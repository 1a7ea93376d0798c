--------------------------- MODULE BinaryRoundTrip ---------------------------
(***************************************************************************)
(* That loading a binary file gives back the document that was saved, as    *)
(* far as Add lets it.                                                      *)
(***************************************************************************)
EXTENDS BinaryFile, Trees

\* The items as the file has them: it holds no policy but the root's.
Stored(h) ==
    [x \in Addresses |->
        IF h[x] = Null THEN Null ELSE [h[x] EXCEPT !.policy = "ThrowException"]]

\* The tree of an item that has been added to a container under policy p.
Adopted(tree, p) ==
    IF tree.kind \in ContainerKinds THEN [tree EXCEPT !.policy = p] ELSE tree

\* What the reader adds to a container of that policy for the items of the one
\* at x, in order.
Offers(h, x, p) ==
    [k \in DOMAIN h[x].kids |-> Adopted(TreeAt(Stored(h), h[x].kids[k]), p)]

\* A container of that kind takes every one of them, as far as names go,
AllFit(kind, trees) ==
    \A k \in DOMAIN trees :
        \/ trees[k].kind = "Comment"
        \/ IF kind = "Group" THEN trees[k].name \in Names ELSE trees[k].name = NoName

\* and has not to choose between any two.
NoneCollide(kind, trees) ==
    \A j, k \in DOMAIN trees : j # k => ~Collide(kind, trees[j], trees[k])

\* A new container, which throws on a collision, takes all that the one at x holds.
Restorable(h, x) ==
    \A trees \in {Offers(h, x, "ThrowException")} :
        AllFit(h[x].kind, trees) /\ NoneCollide(h[x].kind, trees)

\* A load can succeed: so it is with every container below the root, and with the
\* root as far as its policy asks for it.
Loadable(h, p) ==
    /\ \A trees \in {Offers(h, Source, p)} :
          AllFit("Group", trees) /\ (p = "ThrowException" => NoneCollide("Group", trees))
    /\ \A x \in Reach(h, Kids(h, Source)) : Restorable(h, x)

\* A file that is whole, with something behind it or not, is loaded to what was
\* saved: the same items with the same names and payloads in the same order and
\* the policy of the root, which the containers directly below it are given, the
\* others that of a new one.  Below the root a collision or a bad name, which only
\* a change in place after the Add can have caused, makes the load an error; at
\* the root a bad name does, and collisions go by the policy that was saved.
LoadRestores ==
    phase = "over" /\ damage \in {"none", "longer"} =>
        \A p \in {policy[Source]} :
            IF Loadable(heap, p)
            THEN /\ ret = "loaded"
                 /\ TreesIn(heap, Loaded) = Kept("Group", Offers(heap, Source, p), 0, p)
                 /\ policy[Loaded] = p /\ heap[Loaded].policy = p
            ELSE ret = "DeserializeError"
=============================================================================
