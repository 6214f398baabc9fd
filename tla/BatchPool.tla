----------------------------- MODULE BatchPool ------------------------------
(***************************************************************************)
(* BatchWorkerPool (src/cpu/include/secp256k1/detail/batch_pool.hpp): the  *)
(* process-wide pool behind every multi-threaded batch verification.       *)
(*                                                                         *)
(* A caller of run() publishes a job under m_, takes part in it, and waits *)
(* on cv_done_ until the background participants have decremented          *)
(* pending_.  Chunks are claimed from the atomic cursor next_.  Each       *)
(* critical section of m_ is one step here (nothing inside one blocks);    *)
(* done_m_ and job_m_ are kept as locks, because pending_ is decremented   *)
(* outside done_m_ and job_m_ is held across the whole job.                *)
(*                                                                         *)
(* The pool is leaked on purpose (batch_verify.cpp:47-61), so stop_ is     *)
(* never set and the destructor is not modelled.  A row is bad when fn     *)
(* returns false for a chunk that holds it.                                *)
(***************************************************************************)
EXTENDS Integers, FiniteSets

CONSTANTS
    Callers,   \* application threads that call run()
    NoCaller,  \* stands for nullptr and for an unlocked mutex
    NWorkers,  \* n_workers_: the caller plus NWorkers - 1 background threads
    Jobs,      \* the calls made: [n, steal, want, bad]
    MaxJobs    \* bound on gen_: pool jobs published in a behaviour

Workers == 1 .. (NWorkers - 1)
Threads == Callers \cup Workers

ASSUME CallersAssumption ==
    /\ NoCaller \notin Callers
    /\ \A c \in Callers : c \notin Workers
    /\ NoCaller \notin Workers
ASSUME NWorkersAssumption == NWorkers \in Nat \ {0}
ASSUME JobsAssumption ==
    \A j \in Jobs : /\ j.n \in Nat /\ j.steal \in Nat /\ j.want \in Nat
                    /\ j.bad \subseteq 0 .. (j.n - 1)
ASSUME MaxJobsAssumption == MaxJobs \in Nat

VARIABLES
    pc,        \* where each thread stands
    job,       \* job[c]: the arguments of c's current or last call
    answer,    \* answer[c]: what that call returned
    jobOwner,  \* holder of job_m_
    doneOwner, \* holder of done_m_
    fn,        \* fn_: the caller whose function object is published
    n, steal,  \* n_, steal_
    want,      \* want_
    next,      \* next_, in chunks
    ok,        \* ok_
    pending,   \* pending_
    gen,       \* gen_
    seen,      \* seen[w]: worker w's local copy of gen_
    fnRef,     \* fnRef[t]: the reference drain() took from *fn_
    chunk,     \* chunk[t]: the rows [s, e) thread t has claimed
    hits       \* ghost: hits[c][r], how often row r of c's call went to fn

shared == <<fn, n, steal, want, next, ok, pending, gen>>
vars == <<pc, job, answer, jobOwner, doneOwner, shared, seen, fnRef, chunk, hits>>

NatMin(a, b) == IF a < b THEN a ELSE b

NoJob == [n |-> 0, steal |-> 0, want |-> 0, bad |-> {}]

\* A job's own row numbers, and its steal size after "steal == 0" is replaced.
RowsOf(j) == 0 .. (j.n - 1)
StealOf(j) == IF j.steal = 0 THEN (IF j.n = 0 THEN 1 ELSE j.n) ELSE j.steal

\* The condition of the serial fast path.
Serial(j) == j.want <= 1 \/ NWorkers <= 1 \/ j.n <= StealOf(j)

\* Mutant: the end of a chunk is taken as inclusive.
ChunkRowsInclusive(k, size, total) == (k * size) .. NatMin(k * size + size, total - 1)

\* The k-th chunk of a run over total rows: [k * size, min(k * size + size, total)).
ChunkRows(k, size, total) == (k * size) .. (NatMin(k * size + size, total) - 1)

\* Mutant: want_ is not capped at n_workers_.
WantUncapped(j) == j.want

\* Threads a job really gets.
WantOf(j) == NatMin(j.want, NWorkers)

\* Mutant: a last chunk shorter than steal_ is dropped.
CursorPastFullChunks == next * steal + steal > n

\* The cursor has run off the rows: s >= n_.
CursorPastEnd == next * steal >= n

\* Mutants: the participation test is off by one, or missing.
JoinsOneMore(w) == w <= want
JoinsAlways(w) == w = w

\* Background worker w takes part in the published job.
Joins(w) == w < want

\* Mutant: fetch_sub is taken to return the new value.
BecomesZero == pending = 0

\* pending_.fetch_sub(1) == 1: this decrement is the last.
LastDecrement == pending = 1

\* Mutant: the caller counts itself among the pending workers.
AlmostDone == pending <= 1

\* The predicate of cv_done_.wait.
AllDone == pending = 0

\* Handing rows to c's fn: the row counters go up, and fn answers.
Hit(c, rows) == [hits EXCEPT ![c] = [r \in DOMAIN @ |-> IF r \in rows THEN @[r] + 1 ELSE @[r]]]
FnHolds(c, rows) == rows \cap job[c].bad = {}

GoTo(t, place) == pc' = [pc EXCEPT ![t] = place]
-----------------------------------------------------------------------------
Init ==
    /\ pc = [t \in Threads |-> IF t \in Callers THEN "idle" ELSE "wait"]
    /\ job = [c \in Callers |-> NoJob]
    /\ answer = [c \in Callers |-> "none"]
    /\ jobOwner = NoCaller
    /\ doneOwner = NoCaller
    /\ fn = NoCaller
    /\ n = 0 /\ steal = 0 /\ want = 0 /\ next = 0 /\ pending = 0 /\ gen = 0
    /\ ok = TRUE
    /\ seen = [w \in Workers |-> 0]
    /\ fnRef = [t \in Threads |-> NoCaller]
    /\ chunk = [t \in Threads |-> {}]
    /\ hits = [c \in Callers |-> [r \in {} |-> 0]]

----------------------------------------------------------------------------
(* run(): entry and the serial fast path *)

\* Callers that have committed to the pool but not yet published.
Entering == {c \in Callers : pc[c] \in {"lock", "publish"}}

Submit(c, j) ==
    /\ pc[c] = "idle"
    /\ Serial(j) \/ gen + Cardinality(Entering) < MaxJobs
    /\ job' = [job EXCEPT ![c] = j]
    /\ answer' = [answer EXCEPT ![c] = "none"]
    /\ hits' = [hits EXCEPT ![c] = [r \in RowsOf(j) |-> 0]]
    /\ chunk' = [chunk EXCEPT ![c] = IF Serial(j) THEN ChunkRows(0, StealOf(j), j.n) ELSE {}]
    /\ GoTo(c, IF Serial(j) THEN "serial" ELSE "lock")
    /\ UNCHANGED <<jobOwner, doneOwner, shared, seen, fnRef>>

\* Where a caller or a worker goes when drain() returns.
AfterDrain(t) == IF t \in Workers THEN "dec" ELSE IF want > 1 THEN "doneLock" ELSE "clear"

SerialCall(c) ==
    /\ pc[c] = "serial" /\ chunk[c] # {}
    /\ hits' = Hit(c, chunk[c])
    /\ IF FnHolds(c, chunk[c])
       THEN /\ chunk' = [chunk EXCEPT ![c] =
                            {r + StealOf(job[c]) : r \in @} \cap RowsOf(job[c])]
            /\ UNCHANGED pc
       ELSE GoTo(c, "serialFail") /\ chunk' = [chunk EXCEPT ![c] = {}]
    /\ UNCHANGED <<job, answer, jobOwner, doneOwner, shared, seen, fnRef>>

SerialReturn(c) ==
    /\ \/ /\ pc[c] = "serial" /\ chunk[c] = {}
          /\ answer' = [answer EXCEPT ![c] = "true"]
       \/ /\ pc[c] = "serialFail"
          /\ answer' = [answer EXCEPT ![c] = "false"]
    /\ GoTo(c, "idle")
    /\ UNCHANGED <<job, jobOwner, doneOwner, shared, seen, fnRef, chunk, hits>>
-----------------------------------------------------------------------------
(* run(): the pool path *)

LockJob(c) ==
    /\ pc[c] = "lock" /\ jobOwner = NoCaller
    /\ jobOwner' = c
    /\ GoTo(c, "publish")
    /\ UNCHANGED <<job, answer, doneOwner, shared, seen, fnRef, chunk, hits>>

\* The first critical section of m_: every field of the job, then ++gen_.
Publish(c) ==
    /\ pc[c] = "publish"
    /\ fn' = c
    /\ n' = job[c].n
    /\ steal' = StealOf(job[c])
    /\ next' = 0
    /\ ok' = TRUE
    /\ want' = WantOf(job[c])
    /\ pending' = WantOf(job[c]) - 1
    /\ gen' = gen + 1
    /\ GoTo(c, "notify")
    /\ UNCHANGED <<job, answer, jobOwner, doneOwner, seen, fnRef, chunk, hits>>

\* cv_start_.notify_all(), outside m_.
NotifyStart(c) ==
    /\ pc[c] = "notify"
    /\ pc' = [t \in Threads |-> IF t = c THEN "enter"
                                ELSE IF pc[t] = "asleep" THEN "wait" ELSE pc[t]]
    /\ UNCHANGED <<job, answer, jobOwner, doneOwner, shared, seen, fnRef, chunk, hits>>

LockDone(c) ==
    /\ pc[c] = "doneLock" /\ doneOwner = NoCaller
    /\ doneOwner' = c
    /\ GoTo(c, "doneCheck")
    /\ UNCHANGED <<job, answer, jobOwner, shared, seen, fnRef, chunk, hits>>

\* The predicate of cv_done_.wait, read under done_m_ but not under whatever
\* the workers hold when they decrement: pass, or prepare to sleep.
CheckDone(c) ==
    /\ pc[c] = "doneCheck"
    /\ IF AllDone
       THEN doneOwner' = NoCaller /\ GoTo(c, "clear")
       ELSE GoTo(c, "doneBlock") /\ UNCHANGED doneOwner
    /\ UNCHANGED <<job, answer, jobOwner, shared, seen, fnRef, chunk, hits>>

\* Sleeping and letting go of done_m_ are one step of the wait.
BlockDone(c) ==
    /\ pc[c] = "doneBlock"
    /\ doneOwner' = NoCaller
    /\ GoTo(c, "doneAsleep")
    /\ UNCHANGED <<job, answer, jobOwner, shared, seen, fnRef, chunk, hits>>

ClearFn(c) ==
    /\ pc[c] = "clear"
    /\ fn' = NoCaller
    /\ GoTo(c, "return")
    /\ UNCHANGED <<job, answer, jobOwner, doneOwner, n, steal, want, next, ok,
                   pending, gen, seen, fnRef, chunk, hits>>

ReturnOk(c) ==
    /\ pc[c] = "return"
    /\ answer' = [answer EXCEPT ![c] = IF ok THEN "true" ELSE "false"]
    /\ jobOwner' = NoCaller
    /\ GoTo(c, "idle")
    /\ UNCHANGED <<job, doneOwner, shared, seen, fnRef, chunk, hits>>
-----------------------------------------------------------------------------
(* drain(): the caller and the participants, chunk by chunk *)

EnterDrain(t) ==
    /\ pc[t] = "enter"
    /\ fnRef' = [fnRef EXCEPT ![t] = fn]
    /\ GoTo(t, "check")
    /\ UNCHANGED <<job, answer, jobOwner, doneOwner, shared, seen, chunk, hits>>

\* The relaxed load of ok_ may miss another thread's store of false.
CheckOk(t) ==
    /\ pc[t] = "check"
    /\ \/ GoTo(t, "take")
       \/ ~ok /\ GoTo(t, AfterDrain(t))
    /\ UNCHANGED <<job, answer, jobOwner, doneOwner, shared, seen, fnRef, chunk, hits>>

\* next_.fetch_add(1), and the chunk it stands for.
TakeChunk(t) ==
    /\ pc[t] = "take"
    /\ next' = next + 1
    /\ IF CursorPastEnd
       THEN GoTo(t, AfterDrain(t)) /\ UNCHANGED chunk
       ELSE /\ chunk' = [chunk EXCEPT ![t] = ChunkRows(next, steal, n)]
            /\ GoTo(t, "call")
    /\ UNCHANGED <<job, answer, jobOwner, doneOwner, fn, n, steal, want, ok,
                   pending, gen, seen, fnRef, hits>>

CallFn(t) ==
    /\ pc[t] = "call"
    /\ hits' = Hit(fnRef[t], chunk[t])
    /\ chunk' = [chunk EXCEPT ![t] = {}]
    /\ GoTo(t, IF FnHolds(fnRef[t], chunk[t]) THEN "check" ELSE "fail")
    /\ UNCHANGED <<job, answer, jobOwner, doneOwner, shared, seen, fnRef>>

StoreFalse(t) ==
    /\ pc[t] = "fail"
    /\ ok' = FALSE
    /\ GoTo(t, AfterDrain(t))
    /\ UNCHANGED <<job, answer, jobOwner, doneOwner, fn, n, steal, want, next,
                   pending, gen, seen, fnRef, chunk, hits>>

Drain(t) == EnterDrain(t) \/ CheckOk(t) \/ TakeChunk(t) \/ CallFn(t) \/ StoreFalse(t)
-----------------------------------------------------------------------------
(* worker_loop() *)

\* Under m_: sleep, or take up the current generation and decide to join it.
WorkerCheck(w) ==
    /\ pc[w] = "wait"
    /\ IF gen = seen[w]
       THEN GoTo(w, "asleep") /\ UNCHANGED seen
       ELSE /\ seen' = [seen EXCEPT ![w] = gen]
            /\ GoTo(w, IF Joins(w) THEN "enter" ELSE "wait")
    /\ UNCHANGED <<job, answer, jobOwner, doneOwner, shared, fnRef, chunk, hits>>

\* pending_.fetch_sub(1); the one that brings it to 0 goes on to notify.
Decrement(w) ==
    /\ pc[w] = "dec"
    /\ pending' = pending - 1
    /\ GoTo(w, IF LastDecrement THEN "sigLock" ELSE "wait")
    /\ UNCHANGED <<job, answer, jobOwner, doneOwner, fn, n, steal, want, next, ok,
                   gen, seen, fnRef, chunk, hits>>

LockSignal(w) ==
    /\ pc[w] = "sigLock" /\ doneOwner = NoCaller
    /\ doneOwner' = w
    /\ GoTo(w, "signal")
    /\ UNCHANGED <<job, answer, jobOwner, shared, seen, fnRef, chunk, hits>>

DoneSleepers == {c \in Callers : pc[c] = "doneAsleep"}

\* cv_done_.notify_one() and the end of dlk's scope.
SignalDone(w) ==
    /\ pc[w] = "signal"
    /\ doneOwner' = NoCaller
    /\ \/ DoneSleepers = {} /\ GoTo(w, "wait")
       \/ \E c \in DoneSleepers : pc' = [pc EXCEPT ![w] = "wait", ![c] = "doneLock"]
    /\ UNCHANGED <<job, answer, jobOwner, shared, seen, fnRef, chunk, hits>>

\* A condition variable may wake a sleeper for no reason.
SpuriousWake(t) ==
    /\ \/ pc[t] = "asleep" /\ GoTo(t, "wait")
       \/ pc[t] = "doneAsleep" /\ GoTo(t, "doneLock")
    /\ UNCHANGED <<job, answer, jobOwner, doneOwner, shared, seen, fnRef, chunk, hits>>
-----------------------------------------------------------------------------
CallerStep(c) ==
    \/ SerialCall(c) \/ SerialReturn(c)
    \/ LockJob(c) \/ Publish(c) \/ NotifyStart(c)
    \/ LockDone(c) \/ CheckDone(c) \/ BlockDone(c) \/ ClearFn(c) \/ ReturnOk(c)

WorkerStep(w) == WorkerCheck(w) \/ Decrement(w) \/ LockSignal(w) \/ SignalDone(w)

Next ==
    \/ \E c \in Callers : CallerStep(c) \/ \E j \in Jobs : Submit(c, j)
    \/ \E w \in Workers : WorkerStep(w)
    \/ \E t \in Threads : Drain(t) \/ SpuriousWake(t)

Spec == Init /\ [][Next]_vars

\* Every thread the scheduler can run is run in the end.  Only a sleeper woken
\* for no reason can take done_m_ again and again, and the mutex is then not
\* withheld from the signalling worker for ever.  No fairness for new calls and
\* none for spurious wake-ups.
Fairness ==
    /\ \A c \in Callers : WF_vars(CallerStep(c) \/ Drain(c))
    /\ \A w \in Workers : WF_vars(WorkerStep(w) \/ Drain(w)) /\ SF_vars(LockSignal(w))

FairSpec == Spec /\ Fairness
-----------------------------------------------------------------------------
DrainPlaces == {"enter", "check", "take", "call", "fail"}
OpenPlaces == {"notify", "doneLock", "doneCheck", "doneBlock", "doneAsleep"} \cup DrainPlaces
HoldPlaces == {"publish", "clear", "return"} \cup OpenPlaces
CallerPlaces == {"idle", "serial", "serialFail", "lock"} \cup HoldPlaces
WorkerPlaces == {"wait", "asleep", "dec", "sigLock", "signal"} \cup DrainPlaces

\* The invariant of types: every variable holds a value of its C++ field's
\* range; pending_ is unsigned and never wraps below zero.
TypeOK ==
    /\ pc \in [Threads -> CallerPlaces \cup WorkerPlaces]
    /\ \A c \in Callers : pc[c] \in CallerPlaces
    /\ \A w \in Workers : pc[w] \in WorkerPlaces
    /\ job \in [Callers -> Jobs \cup {NoJob}]
    /\ answer \in [Callers -> {"none", "true", "false"}]
    /\ jobOwner \in Callers \cup {NoCaller}
    /\ doneOwner \in Threads \cup {NoCaller}
    /\ fn \in Callers \cup {NoCaller}
    /\ n \in Nat /\ steal \in Nat /\ want \in Nat /\ next \in Nat
    /\ ok \in BOOLEAN
    /\ pending \in Nat
    /\ gen \in Nat
    /\ seen \in [Workers -> Nat]
    /\ fnRef \in [Threads -> Callers \cup {NoCaller}]
    /\ chunk \in [Threads -> SUBSET Int]

\* Workers of the published job that have not decremented pending_ yet: those
\* that have not woken up for this generation, and those at work on it.
Owing == {w \in Workers : /\ w < want
                          /\ seen[w] # gen \/ pc[w] \in DrainPlaces \cup {"dec"}}

JobOpen == jobOwner # NoCaller /\ pc[jobOwner] \in OpenPlaces

\* run() "Blocks until complete" (batch_pool.hpp:58): while any thread is
\* inside drain(), the call that published the work is still inside run() and
\* the thread's reference is to that call's fn, so no chunk runs on a function
\* object whose owner has returned and no job is published over a running one.
BlocksUntilComplete ==
    \A t \in Threads : pc[t] \in DrainPlaces =>
        /\ JobOpen
        /\ fn = jobOwner
        /\ pc[t] # "enter" => fnRef[t] = jobOwner

\* pending_ counts exactly the participants that still owe a decrement: a
\* worker that slept through earlier generations neither decrements for a job
\* it has no part in nor is forgotten in one it has (lines 77-79 and 117-125).
PendingExact ==
    pending = IF JobOpen THEN Cardinality(Owing) ELSE 0

\* "across up to want workers (incl. the caller)" (line 57), and "an explicit
\* request is honoured" (batch_verify.cpp:715): a job never has more threads
\* working on it than its caller asked for.
ThreadBudget ==
    JobOpen => Cardinality({t \in Threads : pc[t] \in DrainPlaces}) <= job[jobOwner].want

\* The atomic cursor hands out disjoint chunks (line 99): whatever the
\* interleaving, no row of a call goes to fn twice.
EachRowOnce == \A c \in Callers : \A r \in DOMAIN hits[c] : hits[c][r] <= 1

\* run() implements its promise: it answers true only when every row was
\* examined and is good, false only when a bad one was examined, which makes
\* "the boolean result identical to the single-threaded" one for any thread
\* count (batch_verify.cpp:709-711).
Abstract == INSTANCE BatchJob WITH
    inside <- {c \in Callers : pc[c] # "idle"},
    req <- job,
    examined <- [c \in Callers |-> {r \in DOMAIN hits[c] : hits[c][r] > 0}],
    answer <- answer
ImplementsJob == Abstract!Spec

\* Liveness: no wake-up of cv_start_ or cv_done_ is lost, so a call that holds
\* the pool comes back (lines 81-92, 121-125).
RunCompletes == \A c \in Callers : jobOwner = c ~> pc[c] = "idle"
=============================================================================
