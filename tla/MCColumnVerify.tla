--------------------------- MODULE MCColumnVerify ----------------------------
(***************************************************************************)
(* Instances of ColumnVerify for TLC: two callers, batches of up to three  *)
(* rows with bad rows first, last and nowhere, by columns and by rows,     *)
(* with and without a results buffer, and refused arguments.               *)
(***************************************************************************)
EXTENDS ColumnVerify, TLC

CONSTANTS c, d, cuda

Request(count, badRows, accepted, buffer, byColumns) ==
    [n |-> count, bad |-> badRows, ok |-> accepted, out |-> buffer, columns |-> byColumns]

MCRequests ==
    {Request(2, {}, TRUE, TRUE, TRUE),    Request(3, {0, 2}, TRUE, TRUE, TRUE),
     Request(2, {1}, TRUE, FALSE, TRUE),  Request(2, {0}, TRUE, TRUE, FALSE),
     Request(0, {}, TRUE, TRUE, TRUE),    Request(2, {}, FALSE, TRUE, TRUE)}

CallersSymmetry == Permutations({c, d})
==============================================================================
