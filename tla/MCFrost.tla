-------------------------------- MODULE MCFrost --------------------------------
(***************************************************************************)
(* Instances of Frost for TLC: two of three in the group of order 5.  Some *)
(* choices of polynomials cancel in the key or in a share, some nonces     *)
(* cancel in R, and the lists name two or three signers, one, or one twice.*)
(***************************************************************************)
EXTENDS Frost

Linear(a0, a1) == [k \in Degrees |-> IF k = 0 THEN a0 ELSE a1]
MCPolys == {Linear(1, 1), Linear(3, 4)}
MCNonces == {[h |-> 1, b |-> 1], [h |-> 3, b |-> 1]}
MCBindings == {[i \in Participants |-> i]}
MCLists == {<<1, 2>>, <<3, 1, 2>>, <<3>>, <<2, 2>>}
================================================================================
