---------------------------- MODULE MCBinaryFile ----------------------------
(***************************************************************************)
(* Constant values for model-checking BinaryFile.                          *)
(***************************************************************************)
EXTENDS BinaryRoundTrip

CONSTANTS c1, c2, i1, i2, i3, i4, i5, i6, v1

\* Payloads of one kind.
OneKind == [v \in Vals |-> "Integer"]
=============================================================================
