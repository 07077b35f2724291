--------------------------- MODULE MCSignerPages ---------------------------
(* SignerPages for TLC: the values Signer's constants take.                  *)
EXTENDS SignerPages
CONSTANTS k1, k2, l1, l2, e1, e2, x1, x2, r1, r2
HeldOne == {{k1}}
=============================================================================
