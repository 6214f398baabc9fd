------------------------------ MODULE MCBip324 -------------------------------
(***************************************************************************)
(* Instances of Bip324 for TLC: two sessions with longer traffic, and      *)
(* three sessions so that a connection can be replaced by another one,     *)
(* roles can be confused and old packets meet a new session.               *)
(***************************************************************************)
EXTENDS Bip324, TLC

CONSTANTS A, B, C, blank, zero, m, empty

Interchangeable == Permutations({A, B, C})
=============================================================================
