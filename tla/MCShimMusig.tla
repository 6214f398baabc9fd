----------------------------- MODULE MCShimMusig -----------------------------
(***************************************************************************)
(* Instances of ShimMusig for TLC: two signers, key lists that do and do   *)
(* not hold both, two caches so that sessions overlap and structs are      *)
(* reused, and a registry that fills up before the tokens run out.         *)
(***************************************************************************)
EXTENDS ShimMusig, TLC

CONSTANTS p, q, c, d, s, t, u

InterchangeableCaches == Permutations({c, d})
Interchangeable == Permutations({c, d}) \cup Permutations({t, u})
=============================================================================
