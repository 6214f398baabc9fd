-------------------------- MODULE MCBatchPoolThrow --------------------------
(* One caller, one background worker, one pool job whose fn may throw.      *)
EXTENDS BatchPoolThrow

CONSTANTS a, none

MCCallers == {a}
MCJobs == {[n |-> 2, steal |-> 1, want |-> 2, bad |-> {}]}
=============================================================================
