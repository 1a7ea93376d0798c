---------------------------- MODULE TextMeaning ----------------------------
(***************************************************************************)
(* That TextRead delivers what the text of a document means, and keeps to   *)
(* the contract of ReadContract.                                            *)
(***************************************************************************)
EXTENDS TextRead, DocumentMeaning

\* At every token of a read the root holds what it held before and the items
\* that are complete by then, each read under the policy the read began with:
\* nothing of a container that is still open, and, when the read fails or is
\* thrown out of, nothing of what the last token was part of.
ReadDelivers ==
    [][phase = "parse" =>
         LET D == IF phase' \in {"parse", "after"} THEN read' ELSE read
         IN  TreesIn(heap', Root) = Expect(D, TreesIn(origin, Root), policy)]_vars

\* A read throws an exception of Add only for cause, by the policy of the Config;
\* whatever a hook has done to the policy of the root, and however deep the
\* container.
RefusedWithCause ==
    [][phase = "parse" /\ ret' \in AddErrors =>
          Refuses(read', TreesIn(origin, Root), policy, ret')]_vars

\* To a client the parse is one step, at its end: until then the root holds what
\* the before hooks left in it.
Contract == INSTANCE ReadContract WITH
    contents <- TreesIn(IF phase = "parse" THEN origin ELSE heap, Root),
    stage    <- IF phase = "parse" THEN "before" ELSE phase,
    given    <- IF phase = "parse" THEN <<>> ELSE read

\* A read of TextRead is a read of ReadContract.
ReadKeepsTheContract == Contract!Spec
=============================================================================
