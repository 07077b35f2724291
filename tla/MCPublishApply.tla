--------------------------- MODULE MCPublishApply ---------------------------
(* PublishApply for TLC: names for the values its constants take.            *)
EXTENDS PublishApply, TLC
CONSTANTS r1, r2, p1, p2, a, b, s1, s2, s3, m1, m2

\* No action names a run, a plugin, a version's content, a submission or a month.
Symmetry == Permutations(Runs) \cup Permutations(Ids) \cup Permutations(Bytes) \cup Permutations(Subs) \cup Permutations(Months)
=============================================================================
