----------------------------- MODULE MCBatchPool -----------------------------
(***************************************************************************)
(* Instances of BatchPool for TLC.  Three rows in chunks of one or two make*)
(* more chunks than threads; want below, at and above NWorkers; good and   *)
(* bad rows first, last and nowhere; one call that takes the serial path.  *)
(***************************************************************************)
EXTENDS BatchPool, TLC

CONSTANTS a, b, none

MCCallers == {a, b}

Args(rows, size, threads, badRows) ==
    [n |-> rows, steal |-> size, want |-> threads, bad |-> badRows]

\* Jobs for safety: a full-width good job, a two-thread job with a bad row in
\* its short last chunk, and serial calls with and without a bad row.
MCJobs == {Args(3, 1, 4, {}), Args(3, 2, 2, {2}), Args(2, 1, 1, {1}), Args(1, 0, 3, {})}
=============================================================================
