--------------------------- MODULE BatchPoolThrow ---------------------------
(***************************************************************************)
(* BatchPool when fn may throw in the calling thread.  The chunk functions *)
(* allocate (local.resize, impl/ufsecp_ecdsa.cpp:503 and                   *)
(* batch_verify.cpp:237), and the C ABI turns the exception into an error  *)
(* code, so the process goes on.  A throw in a background worker ends the  *)
(* process (std::terminate): no step follows it and none is modelled.      *)
(***************************************************************************)
EXTENDS BatchPool

\* The exception leaves drain() and run(): ~unique_lock releases job_m_, but
\* the wait for pending_ and the reset of fn_ are skipped.
CallerThrows(c) ==
    /\ pc[c] = "call"
    /\ jobOwner' = NoCaller
    /\ GoTo(c, "idle")
    /\ UNCHANGED <<job, answer, doneOwner, shared, seen, fnRef, chunk, hits>>

ThrowNext == Next \/ \E c \in Callers : CallerThrows(c)

ThrowSpec == Init /\ [][ThrowNext]_vars
=============================================================================
