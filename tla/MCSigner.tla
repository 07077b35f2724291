------------------------------ MODULE MCSigner ------------------------------
(* Signer for TLC: names for the values its constants take.                  *)
EXTENDS Signer, TLC
CONSTANTS k1, k2, l1, l2, e1, e2, x1, x2, r1, r2

\* Every initial state allows each of these, and no action names one.
Symmetry == Permutations(Listings) \cup Permutations(Publishers) \cup Permutations(Entries)

\* The sets of keys the environment of a job may hold, and none at all.
HeldOne == {{k1}}
HeldBoth == {{k1, k2}}
HeldNew == {{}, {k2}, {k1, k2}}
=============================================================================
