----------------------------- MODULE MCTextRead -----------------------------
(***************************************************************************)
(* Constant values for model-checking TextRead.                            *)
(***************************************************************************)
EXTENDS TextMeaning

CONSTANTS c1, i1, i2, i3, i4, v1, v2

Symmetry == Permutations(Ids)

\* Payloads of one kind.
OneKind == [v \in Vals |-> "Integer"]
=============================================================================
