------------------------------- MODULE MCMusig2 -------------------------------
(***************************************************************************)
(* Instances of Musig2 for TLC: three signers in the group of order 5,     *)
(* with every list of keys (repeated ones too), tweaks of both kinds in a  *)
(* row, nonces that cancel, and a challenge that may be zero.              *)
(***************************************************************************)
EXTENDS Musig2

CONSTANTS FirstHalves, SecondHalves

MCNonces == [k1 : FirstHalves, k2 : SecondHalves]
===============================================================================
