----------------------------- MODULE MCDocument -----------------------------
(***************************************************************************)
(* Constant values for model-checking Document.                            *)
(***************************************************************************)
EXTENDS Document, TLC

CONSTANTS c1, c2, i1, i2, i3, i4, v1, v2

Symmetry == Permutations(Ids)

\* Two payloads of one kind, or of two.
OneKind  == [v \in Vals |-> "Integer"]
TwoKinds == [v \in Vals |-> IF v = NaN THEN "Double" ELSE "Integer"]
=============================================================================
