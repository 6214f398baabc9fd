---------------------------- MODULE ColumnVerify -----------------------------
(***************************************************************************)
(* Verification of a batch of opaque rows or columns:                      *)
(* {ecdsa,schnorr}_batch_verify_*_{rows,columns} in                        *)
(* src/cpu/src/batch_verify.cpp, the accelerator hook that the column      *)
(* calls consult, and the provider behind it in                            *)
(* src/gpu/src/gpu_engine_hook.cpp.                                        *)
(*                                                                         *)
(* A call goes through up to three writers of one results buffer: a device *)
(* that works in chunks and may fail after any of them, the worker pool's  *)
(* all-or-nothing answer, and a serial second pass.  The pool is not       *)
(* modelled again: it takes the steps of BatchJob, which BatchPool is      *)
(* shown to implement.  A row is bad when it does not parse or does not    *)
(* verify; a batch equation holds exactly for good rows.  Both verifiers   *)
(* have this control, and a device's verdict on one row is the CPU's.      *)
(***************************************************************************)
EXTENDS Naturals

CONSTANTS
    Callers,    \* threads that verify batches
    Requests,   \* the calls they make: [n, bad, ok, out, columns]
    Hidden,     \* for the promise: a buffer during a call
    Backends,   \* GPU backends that may be compiled in and present
    Unprobed,   \* no backend has been looked for yet
    NoBackend,  \* ... or none was found
    Nobody      \* no thread

ASSUME CallersAssumption == Nobody \notin Callers
ASSUME BackendsAssumption ==
    Unprobed \notin Backends /\ NoBackend \notin Backends /\ Unprobed # NoBackend
ASSUME RequestsAssumption ==
    \A a \in Requests : /\ a.n \in Nat /\ a.bad \subseteq 0 .. (a.n - 1)
                        /\ a.ok \in BOOLEAN /\ a.out \in BOOLEAN /\ a.columns \in BOOLEAN

VARIABLES
    pc,         \* where each call stands
    request,    \* request[c]: the arguments of c's current or last call
    out,        \* out[c]: out_results, the marks of rows; none for nullptr
    verdict,    \* verdict[c]: what the last call returned
    row,        \* row[c]: off in a device's loop, i in the second pass
    okAll,      \* okAll[c]: ok_all
    hook,       \* g_gpu_columns_hook: the provider's hook or null
    backend,    \* probed and backend of engine_gpu_backend
    gpuOwner,   \* holder of g_engine_gpu_backend_mtx
    inside, job, examined, poolAnswer  \* the pool, as in BatchJob

call == <<request, out, verdict, row, okAll>>
gpu == <<hook, backend, gpuOwner>>
pool == <<inside, job, examined, poolAnswer>>
vars == <<pc, call, gpu, pool>>

NoRequest == [n |-> 0, bad |-> {}, ok |-> TRUE, out |-> FALSE, columns |-> FALSE]
Rows(a) == 0 .. (a.n - 1)
RowsOf(c) == Rows(request[c])

\* How the rows are cut and on how many threads does not show in BatchJob.
JobOf(a) == [n |-> a.n, steal |-> 0, want |-> 0, bad |-> a.bad]

Pool == INSTANCE BatchJob WITH
    Jobs <- {JobOf(a) : a \in Requests}, req <- job, answer <- poolAnswer

GoTo(c, place) == pc' = [pc EXCEPT ![c] = place]

Mark(c, r) == IF r \in request[c].bad THEN 0 ELSE 1

\* Writes to out_results, which may be null: fill all of it, or mark some rows.
Fill(c, mark) == out' = [out EXCEPT ![c] = [r \in DOMAIN @ |-> mark]]
MarkRows(c, rows) == out' = [out EXCEPT ![c] = [r \in DOMAIN @ |-> IF r \in rows THEN Mark(c, r) ELSE @[r]]]

Answer(c, b) == verdict' = [verdict EXCEPT ![c] = b] /\ GoTo(c, "idle")

\* The condition under which a call consults the hook.
Accelerable(a) == a.columns /\ a.out

\* Mutant: a backend error is taken for a batch that does not verify.
ErrorIsInvalid(c) == Answer(c, FALSE)

\* The provider returns -1, and verification goes on as if there were no hook.
Decline(c) == GoTo(c, "submit") /\ UNCHANGED verdict

\* Mutant: the second pass goes one row too far.
MoreRowsInclusive(c) == row[c] <= request[c].n

\* The second pass marks every row.
MoreRows(c) == row[c] < request[c].n
-----------------------------------------------------------------------------
Init ==
    /\ pc = [c \in Callers |-> "idle"]
    /\ request = [c \in Callers |-> NoRequest]
    /\ out = [c \in Callers |-> [r \in {} |-> 0]]
    /\ verdict = [c \in Callers |-> TRUE]
    /\ row = [c \in Callers |-> 0]
    /\ okAll = [c \in Callers |-> TRUE]
    /\ hook \in BOOLEAN  \* the provider is linked or not
    /\ backend = Unprobed
    /\ gpuOwner = Nobody
    /\ Pool!Init

\* install_gpu_columns_verify_hook: the application may clear the hook and
\* restore it at any time, in the middle of a call too.
InstallHook ==
    /\ hook' = ~hook
    /\ UNCHANGED <<pc, call, backend, gpuOwner, pool>>

\* A call, with a buffer that holds anything (2 is neither mark).
Call(c, a) ==
    /\ pc[c] = "idle"
    /\ request' = [request EXCEPT ![c] = a]
    /\ out' = [out EXCEPT ![c] = [r \in IF a.out THEN Rows(a) ELSE {} |-> 2]]
    /\ row' = [row EXCEPT ![c] = 0]
    /\ okAll' = [okAll EXCEPT ![c] = TRUE]
    /\ GoTo(c, "entry")
    /\ UNCHANGED <<verdict, gpu, pool>>

\* The checks at the entry, and the atomic load of the hook.
Entry(c) ==
    /\ pc[c] = "entry"
    /\ \/ request[c].n = 0 /\ Answer(c, TRUE) /\ UNCHANGED out
       \/ request[c].n # 0 /\ ~request[c].ok /\ Fill(c, 0) /\ Answer(c, FALSE)
       \/ /\ request[c].n # 0 /\ request[c].ok
          /\ GoTo(c, IF Accelerable(request[c]) /\ hook THEN "hook" ELSE "submit")
          /\ UNCHANGED <<out, verdict>>
    /\ UNCHANGED <<request, row, okAll, gpu, pool>>

-----------------------------------------------------------------------------
(* engine_gpu_columns_hook *)

LockGpu(c) ==
    /\ pc[c] = "hook" /\ gpuOwner = Nobody
    /\ gpuOwner' = c
    /\ GoTo(c, "probe")
    /\ UNCHANGED <<call, hook, backend, pool>>

\* engine_gpu_backend: the first call looks for a backend that works, and what
\* it finds -- or nothing, even if the search throws -- holds for the process.
Probe(c) ==
    /\ pc[c] = "probe"
    /\ backend' \in IF backend = Unprobed THEN Backends \cup {NoBackend} ELSE {backend}
    /\ IF backend' = NoBackend
       THEN gpuOwner' = Nobody /\ Decline(c)
       ELSE GoTo(c, "device") /\ UNCHANGED <<gpuOwner, verdict>>
    /\ UNCHANGED <<request, out, row, okAll, hook, pool>>

\* The backend zeroes the buffer before it starts.
DeviceStart(c) ==
    /\ pc[c] = "device"
    /\ Fill(c, 0)
    /\ GoTo(c, "chunks")
    /\ UNCHANGED <<request, verdict, row, okAll, gpu, pool>>

\* One chunk, of a size that depends on the device's memory.
DeviceChunk(c) ==
    /\ pc[c] = "chunks" /\ row[c] < request[c].n
    /\ \E next \in (row[c] + 1) .. request[c].n :
          /\ row' = [row EXCEPT ![c] = next]
          /\ MarkRows(c, row[c] .. (next - 1))
    /\ UNCHANGED <<pc, request, verdict, okAll, gpu, pool>>

\* Out of memory, a failed upload, launch or download, an exception: before the
\* buffer is zeroed or before any of the chunks.
DeviceFails(c) ==
    /\ pc[c] \in {"device", "chunks"} /\ row[c] < request[c].n
    /\ gpuOwner' = Nobody
    /\ row' = [row EXCEPT ![c] = 0]
    /\ Decline(c)
    /\ UNCHANGED <<request, out, okAll, hook, backend, pool>>

\* The hook reads the marks, and the entry point returns rc == 1.
DeviceAnswer(c) ==
    /\ pc[c] = "chunks" /\ row[c] = request[c].n
    /\ Answer(c, \A r \in DOMAIN out[c] : out[c][r] # 0)
    /\ gpuOwner' = Nobody
    /\ UNCHANGED <<request, out, row, okAll, hook, backend, pool>>

-----------------------------------------------------------------------------
(* verify_opaque_bounded *)

Submit(c) ==
    /\ pc[c] = "submit"
    /\ Pool!Submit(c, JobOf(request[c]))
    /\ GoTo(c, "pool")
    /\ UNCHANGED <<call, gpu>>

Examine(c) ==
    /\ pc[c] = "pool"
    /\ Pool!Examine(c)
    /\ UNCHANGED <<pc, call, gpu>>

\* The pool's answer: all rows are good, or somewhere there is a bad one.
PoolReturn(c) ==
    /\ pc[c] = "pool"
    /\ Pool!Return(c)
    /\ IF poolAnswer'[c] = "true"
       THEN Fill(c, 1) /\ Answer(c, TRUE)
       ELSE GoTo(c, "second") /\ UNCHANGED <<out, verdict>>
    /\ UNCHANGED <<request, row, okAll, gpu>>

\* The second pass, row by row with an entry of its own.
SecondPass(c) ==
    /\ pc[c] = "second" /\ MoreRows(c)
    /\ MarkRows(c, {row[c]})
    /\ okAll' = [okAll EXCEPT ![c] = @ /\ row[c] \notin request[c].bad]
    /\ row' = [row EXCEPT ![c] = @ + 1]
    /\ UNCHANGED <<pc, request, verdict, gpu, pool>>

SecondReturn(c) ==
    /\ pc[c] = "second" /\ ~MoreRows(c)
    /\ Answer(c, okAll[c])
    /\ UNCHANGED <<request, out, row, okAll, gpu, pool>>

-----------------------------------------------------------------------------
Step(c) ==
    \/ Entry(c)
    \/ LockGpu(c) \/ Probe(c)
    \/ DeviceStart(c) \/ DeviceChunk(c) \/ DeviceFails(c) \/ DeviceAnswer(c)
    \/ Submit(c) \/ Examine(c) \/ PoolReturn(c)
    \/ SecondPass(c) \/ SecondReturn(c)

Next ==
    \/ InstallHook
    \/ \E c \in Callers : Step(c) \/ \E a \in Requests : Call(c, a)

Spec == Init /\ [][Next]_vars
-----------------------------------------------------------------------------
DevicePlaces == {"probe", "device", "chunks"}
Places == {"idle", "entry", "hook", "submit", "pool", "second"} \cup DevicePlaces

\* The invariant of types.  The backend is fixed once a call works on it, and
\* the provider's mutex is held by the one call that does (gpu_engine_hook.cpp:
\* 85-92).
TypeOK ==
    /\ pc \in [Callers -> Places]
    /\ request \in [Callers -> Requests \cup {NoRequest}]
    /\ \A c \in Callers :
          /\ out[c] \in [IF request[c].out THEN RowsOf(c) ELSE {} -> 0 .. 2]
          /\ row[c] \in 0 .. request[c].n
          /\ pc[c] \in {"device", "chunks"} => backend \in Backends
          /\ pc[c] \in DevicePlaces <=> gpuOwner = c
    /\ verdict \in [Callers -> BOOLEAN]
    /\ okAll \in [Callers -> BOOLEAN]
    /\ hook \in BOOLEAN
    /\ backend \in Backends \cup {Unprobed, NoBackend}
    /\ gpuOwner \in Callers \cup {Nobody}
    /\ poolAnswer \in [Callers -> {"none", "true", "false"}]

\* "Returns true iff all rows verify", "1/0 per row", and "Operational backend
\* errors are declines (-1) -> CPU fallback, never invalid rows"
\* (batch_verify.hpp:119-122 and 155-157): whichever of the three writers
\* touched the buffer and wherever a device stopped, the caller finds the
\* answer and the marks of verifying each row alone.
Promise == INSTANCE BatchVerdict WITH
    calling <- {c \in Callers : pc[c] # "idle"},
    results <- [c \in Callers |-> IF pc[c] = "idle" THEN out[c] ELSE Hidden]
ImplementsVerdict == Promise!Spec
==============================================================================
