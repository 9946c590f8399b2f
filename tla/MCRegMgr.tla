------------------------------ MODULE MCRegMgr ------------------------------
(***************************************************************************)
(* Small instances of the topic registry.                                  *)
(***************************************************************************)
EXTENDS RegMgr, TLC

\* The default range is kept, or narrowed from above.
LowRanges == {<<0, MaxTopicId + 1>>, <<1, 2>>}
\* A range that leaves the low ids to the application, as the session
\* documentation suggests with 0x1000 .. 0xffff.
HighRanges == {<<2, MaxTopicId + 1>>}

NodeSymmetry == Permutations(Node) \cup Permutations(Topic)
=============================================================================
