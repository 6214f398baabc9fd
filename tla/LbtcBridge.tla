----------------------------- MODULE LbtcBridge ------------------------------
(***************************************************************************)
(* The libbitcoin bridge: the controller and the batch calls that give a   *)
(* verdict for each row (compat/libbitcoin_bridge/src/ufsecp_libbitcoin.cpp*)
(* in a build with GPU support).  A batch goes chunk by chunk to a device  *)
(* and, when that fails, to the CPU; between chunks the caller may cancel  *)
(* it; memory may run out at any place that allocates.                     *)
(*                                                                         *)
(* A controller is not synchronized, "use one controller per worker        *)
(* thread", so that there is one call at a time.  Verdicts are kept as the *)
(* set of accepted rows: marked 1 in results, or with their key cell       *)
(* zeroed.  The engine underneath gives a row the verdict it deserves (that*)
(* is ColumnVerify's subject) or reports that it had no memory.            *)
(***************************************************************************)
EXTENDS Integers, FiniteSets, Sequences

CONSTANTS
    Devices,     \* the GPU backends in the order ctrl_create tries them
    NoDevice,    \* ctrl->gpu is null
    Cpu,         \* the CPU context
    Requests,    \* the batch calls of the application
    NoToken,     \* no cancellation token
    KChunk,      \* kChunk
    SmallBatch,  \* fewer rows than this are verified by one thread (512)
    Pool         \* hardware_concurrency

Backends == {Devices[i] : i \in 1 .. Len(Devices)}
Apis == {"rows", "collect", "columns", "columns collect", "keys"}
Kinds == {"opaque", "compact", "schnorr", "commitment", "commitment rows", "key"}

(***************************************************************************)
(* A request: the function called and the kind of its rows; n rows, of     *)
(* which bad are to be refused; the bad rows that a device nevertheless    *)
(* accepts (loose); the token's check_interval; invalid_cap; whether there *)
(* is a results buffer (out) and the other arguments are usable (args).    *)
(***************************************************************************)
Request == [api : Apis, kind : Kinds, n : Nat, bad : SUBSET Nat, loose : SUBSET Nat,
            interval : Nat \cup {NoToken}, cap : Nat, out : BOOLEAN, args : BOOLEAN]

ASSUME DevicesAssumption == Len(Devices) \in Nat /\ NoDevice \notin Backends \cup {Cpu}
ASSUME BoundsAssumption == {KChunk, SmallBatch, Pool} \subseteq Nat \ {0}
ASSUME RequestsAssumption ==
    /\ Requests \subseteq Request
    /\ \A a \in Requests : /\ a.loose \subseteq a.bad /\ a.bad \subseteq 0 .. (a.n - 1)
                           /\ a.loose = {} \/ a.kind = "commitment rows"

VARIABLES
    handle,    \* the controller: "none", "making" or "live"
    wanted,    \* the argument of ctrl_create: "auto", "gpu" or "cpu"
    next,      \* the next of Devices to be tried
    gpu,       \* ctrl->gpu
    contexts,  \* the contexts that exist
    at,        \* where the call stands, "idle" between calls
    request,   \* the arguments of the current or last call
    base,      \* the first row of the current chunk
    accepted,  \* the rows marked valid
    todo,      \* threads that have not done their range of rows
    status,    \* what the last call returned
    report,    \* *invalid_count and the rows in invalid_idx
    oom        \* ghost: memory ran out in this call

controller == <<handle, wanted, next, gpu, contexts>>
vars == <<controller, at, request, base, accepted, todo, status, report, oom>>

Rows(a) == 0 .. (a.n - 1)
Good(a) == Rows(a) \ a.bad

\* cancel_chunk_size, and the rows of the chunk at base.
ChunkSize(a) == IF a.interval = NoToken \/ a.interval = 0 \/ a.interval > KChunk
                THEN KChunk ELSE a.interval

\* Mutant: the chunk takes in the first row of the next one.
ChunkOneMore == {r \in Rows(request) : base <= r /\ r <= base + ChunkSize(request)}
Chunk == {r \in Rows(request) : base <= r /\ r < base + ChunkSize(request)}

Deserved == Good(request) \cap Chunk

\* sink.mark over a chunk: results are overwritten, key cells only zeroed.
Marked(rows) ==
    IF request.api \in {"rows", "columns"} THEN (accepted \ Chunk) \cup rows
                                           ELSE accepted \cup rows

\* What a device leaves of the chunk when it fails half way.  The columns are
\* given to it with the caller's results buffer, all others with a scratch.
Leftovers == IF request.api = "columns" THEN SUBSET Deserved ELSE {accepted \cap Chunk}

\* The verdicts the CPU may give on a chunk.  It is right about every row, but
\* the engine may run out of memory: then an opaque batch fails as a whole,
\* and of Schnorr rows, verified one by one, any may fail.
CpuVerdicts ==
    IF request.kind = "opaque" THEN {Deserved, {}}
    ELSE IF request.kind = "schnorr" /\ request.api \in {"rows", "collect"}
    THEN SUBSET Deserved
    ELSE {Deserved}

\* std::vector or LbtcByteScratch grow before the chunk is verified.
CpuAllocates == \/ request.kind = "opaque"
                \/ request.kind = "schnorr" /\ request.api \in {"rows", "collect"}
DeviceAllocates == request.kind # "schnorr" \/ request.api # "columns"

FirstPath == IF gpu = NoDevice THEN "cpu"
             ELSE IF request.api = "collect" THEN "collect" ELSE "device"

\* Mutant: marks written by a failed device are kept.
KeepMarks(marks) == marks

\* memset(results, 0, n) after the device failed.
Wiped(marks) == {}

\* The rows of thread t: hi = min(n, lo + per).
Threads(a) == IF a.n < SmallBatch THEN 1 ELSE Pool

\* Mutant: the shares are rounded down.
ShareDown(a) == a.n \div Threads(a)
Share(a) == (a.n + Threads(a) - 1) \div Threads(a)
RowsOf(a, t) == {r \in Rows(a) : t * Share(a) <= r /\ r < (t + 1) * Share(a)}

\* Mutant: a context that is not ready is dropped without being destroyed.
Dropped(d) == contexts \cup {d}

\* ufsecp_gpu_ctx_destroy of a context that did not become ready.
Discarded(d) == contexts

Return(answer) == at' = "idle" /\ status' = answer

Rejected == Rows(request) \ accepted
FirstOf(rows, cap) == {r \in rows : Cardinality({s \in rows : s < r}) < cap}
-----------------------------------------------------------------------------
NoRequest == [api |-> "rows", kind |-> "opaque", n |-> 0, bad |-> {}, loose |-> {},
              interval |-> NoToken, cap |-> 0, out |-> FALSE, args |-> TRUE]

Init ==
    /\ handle = "none" /\ wanted = "auto" /\ next = 1 /\ gpu = NoDevice /\ contexts = {}
    /\ at = "idle" /\ request = NoRequest /\ base = 0 /\ accepted = {} /\ todo = {}
    /\ status = "ok" /\ report = [count |-> 0, idx |-> {}] /\ oom = FALSE
-----------------------------------------------------------------------------
(***************************************************************************)
(* The controller.                                                         *)
(***************************************************************************)
call == <<at, request, base, accepted, todo, status, report, oom>>

\* ufsecp_lbtc_ctrl_create.  When the controller or its CPU context cannot be
\* made, nothing is left and nothing has changed.
Create(backend) ==
    /\ handle = "none"
    /\ handle' = "making" /\ wanted' = backend /\ next' = 1
    /\ contexts' = contexts \cup {Cpu}
    /\ UNCHANGED <<gpu, call>>

\* One turn of its loop over the backends: there is no such device or it gives
\* no context, its context is not ready, or it is bound.
TryDevice(outcome) ==
    /\ handle = "making" /\ wanted # "cpu" /\ gpu = NoDevice
    /\ next <= Len(Devices)
    /\ next' = next + 1
    /\ CASE outcome = "absent"  -> UNCHANGED <<gpu, contexts>>
         [] outcome = "unready" -> contexts' = Discarded(Devices[next]) /\ UNCHANGED gpu
         [] outcome = "ready"   -> /\ gpu' = Devices[next]
                                   /\ contexts' = contexts \cup {Devices[next]}
    /\ UNCHANGED <<handle, wanted, call>>

CreateEnd ==
    /\ handle = "making"
    /\ wanted = "cpu" \/ gpu # NoDevice \/ next > Len(Devices)
    /\ IF gpu = NoDevice /\ wanted = "gpu"
       THEN handle' = "none" /\ contexts' = contexts \ {Cpu}
       ELSE handle' = "live" /\ UNCHANGED contexts
    /\ UNCHANGED <<wanted, next, gpu, call>>

\* ufsecp_lbtc_ctrl_destroy.
Destroy ==
    /\ handle = "live" /\ at = "idle"
    /\ handle' = "none" /\ gpu' = NoDevice
    /\ contexts' = contexts \ {gpu, Cpu}
    /\ UNCHANGED <<wanted, next, call>>
-----------------------------------------------------------------------------
(***************************************************************************)
(* The entries.  A results buffer of the application may hold the marks of *)
(* an earlier batch (stale), where the entry itself is to clear it; where  *)
(* it is not, the application does, as the header asks.                    *)
(***************************************************************************)
Begin(a) ==
    /\ handle = "live" /\ at = "idle"
    /\ request' = a /\ base' = 0 /\ todo' = {} /\ oom' = FALSE
    /\ report' = [count |-> 0, idx |-> {}]
    /\ UNCHANGED controller

\* verify_rows_impl.  Without a results buffer it makes one of its own, and an
\* exception from that leaves the call.
EnterRows(a) ==
    /\ a.api = "rows"
    /\ Begin(a)
    /\ \E stale \in SUBSET (IF a.out THEN Rows(a) ELSE {}) :
         \/ a.n = 0 /\ accepted' = stale /\ Return("ok")
         \/ a.n > 0 /\ ~a.args /\ accepted' = stale /\ Return("null")
         \/ a.n > 0 /\ a.args /\ a.interval # NoToken /\ accepted' = stale /\ Return("cancelled")
         \/ a.n > 0 /\ a.args /\ ~a.out /\ accepted' = stale /\ Return("exception")
         \/ a.n > 0 /\ a.args /\ accepted' = {} /\ at' = "poll" /\ UNCHANGED status

\* verify_collect_impl and both verify_columns_*_impl.
EnterColumns(a) ==
    /\ a.api \in {"collect", "columns", "columns collect"}
    /\ Begin(a)
    /\ accepted' = {}
    /\ \/ (a.n = 0 \/ ~a.args) /\ Return("ok")
       \/ a.n > 0 /\ a.args /\ at' = "poll" /\ UNCHANGED status

\* verify_commitment, verify_commitment_rows, validate_xonly and
\* validate_pubkeys: they clear the buffer before they look at the rest.
EnterKeys(a) ==
    /\ a.api = "keys"
    /\ Begin(a)
    /\ accepted' = {}
    /\ \/ (a.n = 0 \/ ~a.out \/ ~a.args) /\ Return("ok")
       \/ /\ a.n > 0 /\ a.out /\ a.args
          /\ at' = IF gpu = NoDevice THEN "generator" ELSE "device keys"
          /\ UNCHANGED status
-----------------------------------------------------------------------------
(***************************************************************************)
(* The chunk loops: verify_core and the two loops over columns.            *)
(***************************************************************************)
LeaveLoop == \/ request.api = "rows" /\ at' = "report" /\ UNCHANGED status
             \/ request.api # "rows" /\ Return("ok")

\* Mutant: the loop runs once more when the last chunk is full.
PollLate ==
    /\ at = "poll"
    /\ at' = IF base > request.n THEN "report" ELSE FirstPath
    /\ UNCHANGED <<controller, request, base, accepted, todo, status, report, oom>>

\* The top of the loop.  A token that throws counts as a cancellation.
Poll ==
    /\ at = "poll"
    /\ \/ base >= request.n /\ LeaveLoop
       \/ base < request.n /\ request.interval # NoToken /\ Return("cancelled")
       \/ base < request.n /\ at' = FirstPath /\ UNCHANGED status
    /\ UNCHANGED <<controller, request, base, accepted, todo, report, oom>>

\* continue: the next chunk.
Finish(rows) ==
    /\ accepted' = Marked(rows)
    /\ base' = base + ChunkSize(request)
    /\ oom' = (oom \/ rows # Deserved)
    /\ at' = "poll"
    /\ UNCHANGED <<controller, request, todo, status, report>>

\* catch (...): the loop is abandoned, with what has been marked so far.
Abandon ==
    /\ LeaveLoop
    /\ oom' = TRUE
    /\ UNCHANGED <<controller, request, base, accepted, todo, report>>

\* gpu_chunk_collect: the markers start as "rejected", and the device clears
\* those of valid rows.  When it fails, gpu_chunk is next.
DeviceCollect ==
    /\ at = "collect"
    /\ \/ Finish(Deserved)
       \/ at' = "device" /\ UNCHANGED <<controller, request, base, accepted, todo, status,
                                        report, oom>>
       \/ Abandon

\* gpu_chunk, gpu_columns_results and gpu_columns_collect.
Device ==
    /\ at = "device"
    /\ \/ Finish(Deserved)
       \/ /\ \E left \in Leftovers : accepted' = (accepted \ Chunk) \cup left
          /\ at' = "cpu"
          /\ UNCHANGED <<controller, request, base, todo, status, report, oom>>
       \/ DeviceAllocates /\ Abandon

\* cpu_chunk and cpu_columns_chunk.
CpuChunk ==
    /\ at = "cpu"
    /\ \/ \E rows \in CpuVerdicts : Finish(rows)
       \/ CpuAllocates /\ Abandon

\* The end of verify_rows_impl: rows not accepted are counted and listed.
Report ==
    /\ at = "report"
    /\ report' = [count |-> Cardinality(Rejected), idx |-> FirstOf(Rejected, request.cap)]
    /\ Return("ok")
    /\ UNCHANGED <<controller, request, base, accepted, todo, oom>>
-----------------------------------------------------------------------------
(***************************************************************************)
(* Commitments and keys: one device call for the whole batch, or threads   *)
(* that each take a range of rows and need a context of their own.         *)
(***************************************************************************)

\* The device compares a commitment by x and parity, and the host then refuses
\* the rows whose prefix is neither 2 nor 3 (loose).  All but the commitment
\* columns may have to be packed first, and an exception leaves the call.
DeviceKeys ==
    /\ at = "device keys"
    /\ \/ accepted' = Good(request) /\ Return("ok")
       \/ /\ \E left \in SUBSET (Good(request) \cup request.loose) : accepted' = Wiped(left)
          /\ at' = "generator" /\ UNCHANGED status
       \/ request.kind # "commitment" /\ Return("exception") /\ UNCHANGED accepted
    /\ UNCHANGED <<controller, request, base, todo, report, oom>>

\* Commitments need the generator, computed once in a context of its own.
Generator ==
    /\ at = "generator"
    /\ \/ /\ at' = "workers"
          /\ todo' = 0 .. (Threads(request) - 1)
          /\ UNCHANGED <<status, oom>>
       \/ /\ request.kind # "key"
          /\ Return("ok") /\ oom' = TRUE
          /\ UNCHANGED todo
    /\ UNCHANGED <<controller, request, base, accepted, report>>

\* Thread t, which may get no context, or no memory for some commitment.
Worker(t) ==
    /\ at = "workers" /\ t \in todo
    /\ todo' = todo \ {t}
    /\ LET deserved == Good(request) \cap RowsOf(request, t) IN
       \E rows \in IF request.kind = "key" THEN {deserved, {}} ELSE SUBSET deserved :
          /\ accepted' = accepted \cup rows
          /\ oom' = (oom \/ rows # deserved)
    /\ UNCHANGED <<controller, at, request, base, status, report>>

Join ==
    /\ at = "workers" /\ todo = {}
    /\ Return("ok")
    /\ UNCHANGED <<controller, request, base, accepted, todo, report, oom>>
-----------------------------------------------------------------------------
Next ==
    \/ \E backend \in {"auto", "gpu", "cpu"} : Create(backend)
    \/ \E outcome \in {"absent", "unready", "ready"} : TryDevice(outcome)
    \/ CreateEnd \/ Destroy
    \/ \E a \in Requests : EnterRows(a) \/ EnterColumns(a) \/ EnterKeys(a)
    \/ Poll \/ DeviceCollect \/ Device \/ CpuChunk \/ Report
    \/ DeviceKeys \/ Generator \/ Join
    \/ \E t \in todo : Worker(t)

Spec == Init /\ [][Next]_vars
-----------------------------------------------------------------------------
(***************************************************************************)
(* Properties.                                                             *)
(***************************************************************************)
Places == {"idle", "poll", "collect", "device", "cpu", "report",
           "device keys", "generator", "workers"}

\* The types; the current chunk begins at a row of the batch except between
\* chunks, and threads run only in the fork (ufsecp_libbitcoin.cpp).
TypeOK ==
    /\ handle \in {"none", "making", "live"}
    /\ wanted \in {"auto", "gpu", "cpu"}
    /\ next \in 1 .. (Len(Devices) + 1)
    /\ gpu \in Backends \cup {NoDevice}
    /\ contexts \subseteq Backends \cup {Cpu}
    /\ at \in Places
    /\ request \in Requests \cup {NoRequest}
    /\ base \in Nat
    /\ at \in {"collect", "device", "cpu"} => base < request.n
    /\ accepted \subseteq Rows(request)
    /\ todo \subseteq 0 .. (Threads(request) - 1)
    /\ at # "workers" => todo = {}
    /\ status \in {"ok", "null", "cancelled", "exception"}
    /\ report.count \in 0 .. request.n /\ report.idx \subseteq Rows(request)
    /\ oom \in BOOLEAN

\* The verdicts of the call can be read: it is running or has returned OK, or
\* was cancelled after its first chunk.  (A call refused or cancelled at the
\* entry leaves the buffer as it was.)
Readable == at # "idle" \/ status = "ok" \/ base > 0

\* "Fail-closed", "never falsely accepted" (ufsecp_libbitcoin.cpp:606-615,
\* :760): no row is ever marked valid that should be refused, in the middle of
\* a call neither, whatever devices, allocations and cancellations do.
FailClosed == Readable => accepted \subseteq Good(request)

\* "The CPU fallback is always available" and "the GPU result MUST match the
\* CPU result" (ufsecp_libbitcoin.h:62-65): a call that returns OK and did not
\* run out of memory has accepted exactly the good rows, and the packed call
\* counts the others and lists the first of them.
ExactWhenComplete ==
    at = "idle" /\ status = "ok" /\ ~oom /\ request.args /\ (request.api = "keys" => request.out) =>
        /\ accepted = Good(request)
        /\ request.api = "rows" =>
              /\ report.count = Cardinality(request.bad)
              /\ report.idx = FirstOf(request.bad, request.cap)

\* Nothing at or after this row may have been touched.
Frontier == IF at = "poll" \/ (at = "idle" /\ status = "cancelled")
            THEN base ELSE base + ChunkSize(request)

\* Chunks are final in their order: rows before the current chunk have the
\* verdict they deserve (unless memory ran out), and no row after it has been
\* touched, so that a cancelled batch is the prefix up to base.
VerdictsInOrder ==
    request.api # "keys" /\ Readable =>
        LET before == {r \in Rows(request) : r < base}
            beyond == {r \in Rows(request) : r >= Frontier}
        IN /\ accepted \cap before \subseteq Good(request)
           /\ ~oom => Good(request) \cap before \subseteq accepted
           /\ accepted \cap beyond = {}

\* ctrl_create and ctrl_destroy own their contexts on every path: without a
\* controller there is none, and a live one has its CPU context and the one of
\* the device it is bound to, whatever other devices failed.
ContextsOwned ==
    /\ handle = "none" => contexts = {}
    /\ handle = "live" => contexts = {Cpu} \cup ({gpu} \ {NoDevice})
=============================================================================
