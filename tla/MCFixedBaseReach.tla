-------------------------- MODULE MCFixedBaseReach --------------------------
(***************************************************************************)
(* The instance of MCFixedBase whose widths reach every scalar: what the   *)
(* theorem AnswersAreRight assumes holds of it, and what it assumes is not *)
(* more than needed.                                                       *)
(***************************************************************************)
EXTENDS MCFixedBase

ASSUME ReachAssumption == WidthsReach

\* Numbers in reach are those that leave no carry behind the last window.
ASSUME ReachIsExact ==
    \A w \in 1 .. 6, m \in 0 .. 15 :
        Reaches(w, m) <=> \A k \in 0 .. m : Rest(k, w)[WindowCount(w)] = 0
=============================================================================
