--------------------------- MODULE BatchPoolProofs ---------------------------
(***************************************************************************)
(* Safety of BatchPool for any set of callers, any n_workers_ and any      *)
(* jobs.  The argument: job_m_ is held exactly by the caller that stands   *)
(* between locking and returning (Holds); a worker is inside drain(), or   *)
(* about to decrement, only for the generation now open (AtWork); and      *)
(* pending_ is always the number of participants that owe a decrement      *)
(* (Counted), which is what lets the caller go when it reads zero.         *)
(*                                                                         *)
(* On top of it stands Work, what has become of the rows: those handed to  *)
(* fn and those in the threads' chunks are disjoint (Claims, Disjoint),    *)
(* make up all that the cursor has passed (Covered), and a bad one among   *)
(* them is answered for or will be (Blamed).  From it follow that every    *)
(* row is examined once, and the refinement of BatchJob.                   *)
(***************************************************************************)
EXTENDS BatchPool, TLAPS, FiniteSetTheorems

Holds == \A c \in Callers : pc[c] \in HoldPlaces <=> jobOwner = c

PoolJobs == \A c \in Callers : pc[c] \in {"lock"} \cup HoldPlaces => ~Serial(job[c])

Published == JobOpen => fn = jobOwner /\ want = WantOf(job[jobOwner])

SeenPast == \A w \in Workers : seen[w] <= gen

AtWork == \A w \in Workers : pc[w] \in DrainPlaces \cup {"dec"} =>
                JobOpen /\ w < want /\ seen[w] = gen

References == \A t \in Threads : pc[t] \in DrainPlaces \ {"enter"} => fnRef[t] = jobOwner

Counted == pending = Cardinality(Owing) /\ (~JobOpen => Owing = {})

\* The inductive invariant behind every safety theorem of this module.
IInv == TypeOK /\ Holds /\ PoolJobs /\ Published /\ SeenPast /\ AtWork
               /\ References /\ Counted

USE CallersAssumption, NWorkersAssumption, JobsAssumption, MaxJobsAssumption

-----------------------------------------------------------------------------
\* The participants are finitely many, so counting them makes sense.
LEMMA OwingFinite == IsFiniteSet(Owing) /\ Cardinality(Owing) \in Nat
<1>1. IsFiniteSet(Workers)
  BY FS_Interval DEF Workers
<1>2. Owing \in SUBSET Workers
  BY DEF Owing
<1> QED
  BY <1>1, <1>2, FS_Subset, FS_CardinalityType

\* The arguments of a call are natural numbers, and so is its steal size.
LEMMA JobTypes ==
  ASSUME TypeOK, NEW c \in Callers
  PROVE  /\ job[c].n \in Nat /\ job[c].steal \in Nat /\ job[c].want \in Nat
         /\ StealOf(job[c]) \in Nat
  BY DEF TypeOK, NoJob, StealOf

\* A job that is not serial gets at least two threads and at most NWorkers.
LEMMA PoolWant ==
  ASSUME TypeOK, NEW c \in Callers, ~Serial(job[c])
  PROVE  /\ WantOf(job[c]) \in Nat
         /\ WantOf(job[c]) >= 2
         /\ WantOf(job[c]) <= NWorkers
         /\ WantOf(job[c]) <= job[c].want
  BY JobTypes DEF Serial, WantOf, NatMin

-----------------------------------------------------------------------------
\* The invariant holds before the first call.
LEMMA IInvInit == Init => IInv
<1> SUFFICES ASSUME Init PROVE IInv
  OBVIOUS
<1> USE DEF Init
<1>1. TypeOK
  BY DEF TypeOK, Threads, CallerPlaces, WorkerPlaces
<1>2. ~JobOpen
  BY DEF JobOpen
<1>3. Owing = {}
  BY DEF Owing, Workers
<1>4. Holds /\ PoolJobs /\ Published /\ SeenPast /\ AtWork /\ References
  BY <1>2 DEF Holds, PoolJobs, Published, SeenPast, AtWork, References, HoldPlaces,
     OpenPlaces, DrainPlaces, Threads
<1>5. Counted
  BY <1>3, FS_EmptySet DEF Counted
<1> QED
  BY <1>1, <1>4, <1>5 DEF IInv
-----------------------------------------------------------------------------
\* Each kind of step preserves the invariant.

\* drain() leads a worker to its decrement and a caller of an open job to the
\* wait: want_ is at least two there.
LEMMA LeaveDrain ==
  ASSUME IInv, NEW t \in Threads, pc[t] \in DrainPlaces
  PROVE  AfterDrain(t) = IF t \in Workers THEN "dec" ELSE "doneLock"
<1>1. CASE t \in Workers
  BY <1>1 DEF AfterDrain
<1>2. CASE t \in Callers
  <2>1. jobOwner = t /\ JobOpen
    BY <1>2 DEF IInv, TypeOK, Holds, HoldPlaces, OpenPlaces, JobOpen
  <2>2. want >= 2 /\ want \in Nat
    BY <1>2, <2>1, PoolWant DEF IInv, PoolJobs, Published, HoldPlaces, OpenPlaces
  <2> QED
    BY <1>2, <2>2 DEF AfterDrain
<1> QED
  BY <1>1, <1>2 DEF Threads

\* Submit: a call that is not serial queues for job_m_.
LEMMA SubmitStep ==
  ASSUME IInv, NEW c \in Callers, NEW j \in Jobs, Submit(c, j)
  PROVE  IInv'
<1> USE DEF IInv, Submit, GoTo, shared
<1>0. ChunkRows(0, StealOf(j), j.n) \in SUBSET Int
  BY DEF ChunkRows
<1>1. TypeOK'
  BY JobTypes, <1>0 DEF TypeOK, Threads, CallerPlaces, WorkerPlaces, HoldPlaces, OpenPlaces, DrainPlaces
<1>2. (Holds /\ PoolJobs /\ Published /\ SeenPast /\ AtWork /\ References)'
  BY JobTypes DEF TypeOK, Threads, Holds, PoolJobs, Published, SeenPast, AtWork, References, JobOpen,
     HoldPlaces, OpenPlaces, DrainPlaces
<1>3. Owing' = Owing /\ JobOpen' = JobOpen
  BY JobTypes DEF TypeOK, Threads, Holds, Owing, JobOpen, HoldPlaces, OpenPlaces, DrainPlaces
<1>4. Counted'
  BY <1>3 DEF Counted
<1> QED
  BY <1>1, <1>2, <1>4

\* The serial path touches nothing shared,
LEMMA SerialCallStep ==
  ASSUME IInv, NEW c \in Callers, SerialCall(c)
  PROVE  IInv'
<1> USE DEF IInv, SerialCall, GoTo, shared
<1>0. {r + StealOf(job[c]) : r \in chunk[c]} \cap RowsOf(job[c]) \in SUBSET Int
  BY DEF RowsOf
<1>1. TypeOK'
  BY JobTypes, <1>0 DEF TypeOK, Threads, CallerPlaces, WorkerPlaces, HoldPlaces, OpenPlaces, DrainPlaces
<1>2. (Holds /\ PoolJobs /\ Published /\ SeenPast /\ AtWork /\ References)'
  BY JobTypes DEF TypeOK, Threads, Holds, PoolJobs, Published, SeenPast, AtWork, References, JobOpen,
     HoldPlaces, OpenPlaces, DrainPlaces
<1>3. Owing' = Owing /\ JobOpen' = JobOpen
  BY JobTypes DEF TypeOK, Threads, Holds, Owing, JobOpen, HoldPlaces, OpenPlaces, DrainPlaces
<1>4. Counted'
  BY <1>3 DEF Counted
<1> QED
  BY <1>1, <1>2, <1>4

\* and returns without a lock.
LEMMA SerialReturnStep ==
  ASSUME IInv, NEW c \in Callers, SerialReturn(c)
  PROVE  IInv'
<1> USE DEF IInv, SerialReturn, GoTo, shared
<1>1. TypeOK'
  BY JobTypes DEF TypeOK, Threads, CallerPlaces, WorkerPlaces, HoldPlaces, OpenPlaces, DrainPlaces
<1>2. (Holds /\ PoolJobs /\ Published /\ SeenPast /\ AtWork /\ References)'
  BY JobTypes DEF TypeOK, Threads, Holds, PoolJobs, Published, SeenPast, AtWork, References, JobOpen,
     HoldPlaces, OpenPlaces, DrainPlaces
<1>3. Owing' = Owing /\ JobOpen' = JobOpen
  BY JobTypes DEF TypeOK, Threads, Holds, Owing, JobOpen, HoldPlaces, OpenPlaces, DrainPlaces
<1>4. Counted'
  BY <1>3 DEF Counted
<1> QED
  BY <1>1, <1>2, <1>4

\* job_m_ goes to one caller.
LEMMA LockJobStep ==
  ASSUME IInv, NEW c \in Callers, LockJob(c)
  PROVE  IInv'
<1> USE DEF IInv, LockJob, GoTo, shared
<1>1. TypeOK'
  BY JobTypes DEF TypeOK, Threads, CallerPlaces, WorkerPlaces, HoldPlaces, OpenPlaces, DrainPlaces
<1>2. (Holds /\ PoolJobs /\ Published /\ SeenPast /\ AtWork /\ References)'
  BY JobTypes DEF TypeOK, Threads, Holds, PoolJobs, Published, SeenPast, AtWork, References, JobOpen,
     HoldPlaces, OpenPlaces, DrainPlaces
<1>3. Owing' = Owing /\ JobOpen' = JobOpen
  BY JobTypes DEF TypeOK, Threads, Holds, Owing, JobOpen, HoldPlaces, OpenPlaces, DrainPlaces
<1>4. Counted'
  BY <1>3 DEF Counted
<1> QED
  BY <1>1, <1>2, <1>4

\* In drain() only the thread's own place and chunk change:
LEMMA EnterDrainStep ==
  ASSUME IInv, NEW t \in Threads, EnterDrain(t)
  PROVE  IInv'
<1> USE DEF IInv, EnterDrain, GoTo, shared
<1>1. TypeOK'
  BY JobTypes DEF TypeOK, Threads, CallerPlaces, WorkerPlaces, HoldPlaces, OpenPlaces, DrainPlaces
<1>2. (Holds /\ PoolJobs /\ Published /\ SeenPast /\ AtWork /\ References)'
  BY JobTypes DEF TypeOK, Threads, Holds, PoolJobs, Published, SeenPast, AtWork, References, JobOpen,
     HoldPlaces, OpenPlaces, DrainPlaces
<1>3. Owing' = Owing /\ JobOpen' = JobOpen
  BY JobTypes DEF TypeOK, Threads, Holds, Owing, JobOpen, HoldPlaces, OpenPlaces, DrainPlaces
<1>4. Counted'
  BY <1>3 DEF Counted
<1> QED
  BY <1>1, <1>2, <1>4

\* reading ok_,
LEMMA CheckOkStep ==
  ASSUME IInv, NEW t \in Threads, CheckOk(t)
  PROVE  IInv'
<1> USE DEF IInv, CheckOk, GoTo, shared
<1>00. AfterDrain(t) = IF t \in Workers THEN "dec" ELSE "doneLock"
  BY LeaveDrain DEF DrainPlaces
<1>1. TypeOK'
  BY JobTypes, <1>00 DEF TypeOK, Threads, CallerPlaces, WorkerPlaces, HoldPlaces, OpenPlaces, DrainPlaces
<1>2. (Holds /\ PoolJobs /\ Published /\ SeenPast /\ AtWork /\ References)'
  BY JobTypes, <1>00 DEF TypeOK, Threads, Holds, PoolJobs, Published, SeenPast, AtWork, References, JobOpen,
     HoldPlaces, OpenPlaces, DrainPlaces
<1>3. Owing' = Owing /\ JobOpen' = JobOpen
  BY JobTypes, <1>00 DEF TypeOK, Threads, Holds, Owing, JobOpen, HoldPlaces, OpenPlaces, DrainPlaces
<1>4. Counted'
  BY <1>3 DEF Counted
<1> QED
  BY <1>1, <1>2, <1>4

\* advancing next_,
LEMMA TakeChunkStep ==
  ASSUME IInv, NEW t \in Threads, TakeChunk(t)
  PROVE  IInv'
<1> USE DEF IInv, TakeChunk, GoTo, shared
<1>0. ChunkRows(next, steal, n) \in SUBSET Int
  BY DEF ChunkRows
<1>00. AfterDrain(t) = IF t \in Workers THEN "dec" ELSE "doneLock"
  BY LeaveDrain DEF DrainPlaces
<1>1. TypeOK'
  BY JobTypes, <1>0, <1>00 DEF TypeOK, Threads, CallerPlaces, WorkerPlaces, HoldPlaces, OpenPlaces, DrainPlaces
<1>2. (Holds /\ PoolJobs /\ Published /\ SeenPast /\ AtWork /\ References)'
  BY JobTypes, <1>00 DEF TypeOK, Threads, Holds, PoolJobs, Published, SeenPast, AtWork, References, JobOpen,
     HoldPlaces, OpenPlaces, DrainPlaces
<1>3. Owing' = Owing /\ JobOpen' = JobOpen
  BY JobTypes, <1>00 DEF TypeOK, Threads, Holds, Owing, JobOpen, HoldPlaces, OpenPlaces, DrainPlaces
<1>4. Counted'
  BY <1>3 DEF Counted
<1> QED
  BY <1>1, <1>2, <1>4

\* calling fn,
LEMMA CallFnStep ==
  ASSUME IInv, NEW t \in Threads, CallFn(t)
  PROVE  IInv'
<1> USE DEF IInv, CallFn, GoTo, shared
<1>1. TypeOK'
  BY JobTypes DEF TypeOK, Threads, CallerPlaces, WorkerPlaces, HoldPlaces, OpenPlaces, DrainPlaces
<1>2. (Holds /\ PoolJobs /\ Published /\ SeenPast /\ AtWork /\ References)'
  BY JobTypes DEF TypeOK, Threads, Holds, PoolJobs, Published, SeenPast, AtWork, References, JobOpen,
     HoldPlaces, OpenPlaces, DrainPlaces
<1>3. Owing' = Owing /\ JobOpen' = JobOpen
  BY JobTypes DEF TypeOK, Threads, Holds, Owing, JobOpen, HoldPlaces, OpenPlaces, DrainPlaces
<1>4. Counted'
  BY <1>3 DEF Counted
<1> QED
  BY <1>1, <1>2, <1>4

\* and storing the verdict.
LEMMA StoreFalseStep ==
  ASSUME IInv, NEW t \in Threads, StoreFalse(t)
  PROVE  IInv'
<1> USE DEF IInv, StoreFalse, GoTo, shared
<1>00. AfterDrain(t) = IF t \in Workers THEN "dec" ELSE "doneLock"
  BY LeaveDrain DEF DrainPlaces
<1>1. TypeOK'
  BY JobTypes, <1>00 DEF TypeOK, Threads, CallerPlaces, WorkerPlaces, HoldPlaces, OpenPlaces, DrainPlaces
<1>2. (Holds /\ PoolJobs /\ Published /\ SeenPast /\ AtWork /\ References)'
  BY JobTypes, <1>00 DEF TypeOK, Threads, Holds, PoolJobs, Published, SeenPast, AtWork, References, JobOpen,
     HoldPlaces, OpenPlaces, DrainPlaces
<1>3. Owing' = Owing /\ JobOpen' = JobOpen
  BY JobTypes, <1>00 DEF TypeOK, Threads, Holds, Owing, JobOpen, HoldPlaces, OpenPlaces, DrainPlaces
<1>4. Counted'
  BY <1>3 DEF Counted
<1> QED
  BY <1>1, <1>2, <1>4

\* The last worker takes m_ to signal,
LEMMA LockSignalStep ==
  ASSUME IInv, NEW w \in Workers, LockSignal(w)
  PROVE  IInv'
<1> USE DEF IInv, LockSignal, GoTo, shared
<1>1. TypeOK'
  BY JobTypes DEF TypeOK, Threads, CallerPlaces, WorkerPlaces, HoldPlaces, OpenPlaces, DrainPlaces
<1>2. (Holds /\ PoolJobs /\ Published /\ SeenPast /\ AtWork /\ References)'
  BY JobTypes DEF TypeOK, Threads, Holds, PoolJobs, Published, SeenPast, AtWork, References, JobOpen,
     HoldPlaces, OpenPlaces, DrainPlaces
<1>3. Owing' = Owing /\ JobOpen' = JobOpen
  BY JobTypes DEF TypeOK, Threads, Holds, Owing, JobOpen, HoldPlaces, OpenPlaces, DrainPlaces
<1>4. Counted'
  BY <1>3 DEF Counted
<1> QED
  BY <1>1, <1>2, <1>4

\* and wakes the caller.
LEMMA SignalDoneStep ==
  ASSUME IInv, NEW w \in Workers, SignalDone(w)
  PROVE  IInv'
<1> USE DEF IInv, SignalDone, DoneSleepers, GoTo, shared
<1>1. TypeOK'
  BY JobTypes DEF TypeOK, Threads, CallerPlaces, WorkerPlaces, HoldPlaces, OpenPlaces, DrainPlaces
<1>2. (Holds /\ PoolJobs /\ Published /\ SeenPast /\ AtWork /\ References)'
  BY JobTypes DEF TypeOK, Threads, Holds, PoolJobs, Published, SeenPast, AtWork, References, JobOpen,
     HoldPlaces, OpenPlaces, DrainPlaces
<1>3. Owing' = Owing /\ JobOpen' = JobOpen
  BY JobTypes DEF TypeOK, Threads, Holds, Owing, JobOpen, HoldPlaces, OpenPlaces, DrainPlaces
<1>4. Counted'
  BY <1>3 DEF Counted
<1> QED
  BY <1>1, <1>2, <1>4

\* A spurious wake moves a thread back to its check.
LEMMA SpuriousWakeStep ==
  ASSUME IInv, NEW t \in Threads, SpuriousWake(t)
  PROVE  IInv'
<1> USE DEF IInv, SpuriousWake, GoTo, shared
<1>1. TypeOK'
  BY JobTypes DEF TypeOK, Threads, CallerPlaces, WorkerPlaces, HoldPlaces, OpenPlaces, DrainPlaces
<1>2. (Holds /\ PoolJobs /\ Published /\ SeenPast /\ AtWork /\ References)'
  BY JobTypes DEF TypeOK, Threads, Holds, PoolJobs, Published, SeenPast, AtWork, References, JobOpen,
     HoldPlaces, OpenPlaces, DrainPlaces
<1>3. Owing' = Owing /\ JobOpen' = JobOpen
  BY JobTypes DEF TypeOK, Threads, Holds, Owing, JobOpen, HoldPlaces, OpenPlaces, DrainPlaces
<1>4. Counted'
  BY <1>3 DEF Counted
<1> QED
  BY <1>1, <1>2, <1>4

\* Waking the workers changes their places alone.
LEMMA NotifyStartStep ==
  ASSUME IInv, NEW c \in Callers, NotifyStart(c)
  PROVE  IInv'
<1> USE DEF IInv, NotifyStart, GoTo, shared
<1>1. TypeOK'
  BY JobTypes DEF TypeOK, Threads, CallerPlaces, WorkerPlaces, HoldPlaces, OpenPlaces, DrainPlaces
<1>2. (Holds /\ PoolJobs /\ Published /\ SeenPast /\ AtWork /\ References)'
  BY JobTypes DEF TypeOK, Threads, Holds, PoolJobs, Published, SeenPast, AtWork, References, JobOpen,
     HoldPlaces, OpenPlaces, DrainPlaces
<1>3. Owing' = Owing /\ JobOpen' = JobOpen
  BY JobTypes DEF TypeOK, Threads, Holds, Owing, JobOpen, HoldPlaces, OpenPlaces, DrainPlaces
<1>4. Counted'
  BY <1>3 DEF Counted
<1> QED
  BY <1>1, <1>2, <1>4

\* The caller takes m_ to wait,
LEMMA LockDoneStep ==
  ASSUME IInv, NEW c \in Callers, LockDone(c)
  PROVE  IInv'
<1> USE DEF IInv, LockDone, GoTo, shared
<1>1. TypeOK'
  BY JobTypes DEF TypeOK, Threads, CallerPlaces, WorkerPlaces, HoldPlaces, OpenPlaces, DrainPlaces
<1>2. (Holds /\ PoolJobs /\ Published /\ SeenPast /\ AtWork /\ References)'
  BY JobTypes DEF TypeOK, Threads, Holds, PoolJobs, Published, SeenPast, AtWork, References, JobOpen,
     HoldPlaces, OpenPlaces, DrainPlaces
<1>3. Owing' = Owing /\ JobOpen' = JobOpen
  BY JobTypes DEF TypeOK, Threads, Holds, Owing, JobOpen, HoldPlaces, OpenPlaces, DrainPlaces
<1>4. Counted'
  BY <1>3 DEF Counted
<1> QED
  BY <1>1, <1>2, <1>4

\* sleeps while pending_ is not zero,
LEMMA BlockDoneStep ==
  ASSUME IInv, NEW c \in Callers, BlockDone(c)
  PROVE  IInv'
<1> USE DEF IInv, BlockDone, GoTo, shared
<1>1. TypeOK'
  BY JobTypes DEF TypeOK, Threads, CallerPlaces, WorkerPlaces, HoldPlaces, OpenPlaces, DrainPlaces
<1>2. (Holds /\ PoolJobs /\ Published /\ SeenPast /\ AtWork /\ References)'
  BY JobTypes DEF TypeOK, Threads, Holds, PoolJobs, Published, SeenPast, AtWork, References, JobOpen,
     HoldPlaces, OpenPlaces, DrainPlaces
<1>3. Owing' = Owing /\ JobOpen' = JobOpen
  BY JobTypes DEF TypeOK, Threads, Holds, Owing, JobOpen, HoldPlaces, OpenPlaces, DrainPlaces
<1>4. Counted'
  BY <1>3 DEF Counted
<1> QED
  BY <1>1, <1>2, <1>4

\* clears fn_,
LEMMA ClearFnStep ==
  ASSUME IInv, NEW c \in Callers, ClearFn(c)
  PROVE  IInv'
<1> USE DEF IInv, ClearFn, GoTo, shared
<1>1. TypeOK'
  BY JobTypes DEF TypeOK, Threads, CallerPlaces, WorkerPlaces, HoldPlaces, OpenPlaces, DrainPlaces
<1>2. (Holds /\ PoolJobs /\ Published /\ SeenPast /\ AtWork /\ References)'
  BY JobTypes DEF TypeOK, Threads, Holds, PoolJobs, Published, SeenPast, AtWork, References, JobOpen,
     HoldPlaces, OpenPlaces, DrainPlaces
<1>3. Owing' = Owing /\ JobOpen' = JobOpen
  BY JobTypes DEF TypeOK, Threads, Holds, Owing, JobOpen, HoldPlaces, OpenPlaces, DrainPlaces
<1>4. Counted'
  BY <1>3 DEF Counted
<1> QED
  BY <1>1, <1>2, <1>4

\* and returns, giving job_m_ back.
LEMMA ReturnOkStep ==
  ASSUME IInv, NEW c \in Callers, ReturnOk(c)
  PROVE  IInv'
<1> USE DEF IInv, ReturnOk, GoTo, shared
<1>1. TypeOK'
  BY JobTypes DEF TypeOK, Threads, CallerPlaces, WorkerPlaces, HoldPlaces, OpenPlaces, DrainPlaces
<1>2. (Holds /\ PoolJobs /\ Published /\ SeenPast /\ AtWork /\ References)'
  BY JobTypes DEF TypeOK, Threads, Holds, PoolJobs, Published, SeenPast, AtWork, References, JobOpen,
     HoldPlaces, OpenPlaces, DrainPlaces
<1>3. Owing' = Owing /\ JobOpen' = JobOpen
  BY JobTypes DEF TypeOK, Threads, Holds, Owing, JobOpen, HoldPlaces, OpenPlaces, DrainPlaces
<1>4. Counted'
  BY <1>3 DEF Counted
<1> QED
  BY <1>1, <1>2, <1>4

\* Publishing opens a job over a quiet pool: nobody owed anything, so the new
\* debtors are exactly the workers 1 .. want_ - 1, none of whom has seen the
\* new generation.
LEMMA PublishStep ==
  ASSUME IInv, NEW c \in Callers, Publish(c)
  PROVE  IInv'
<1> USE DEF IInv, Publish, GoTo
<1>1. /\ ~Serial(job[c]) /\ jobOwner = c /\ ~JobOpen
      /\ want' \in Nat /\ want' >= 2 /\ want' <= NWorkers
  BY PoolWant DEF TypeOK, Threads, Holds, PoolJobs, HoldPlaces, OpenPlaces, DrainPlaces, JobOpen
<1>2. JobOpen'
  BY <1>1 DEF JobOpen, TypeOK, Threads, OpenPlaces
<1>3. TypeOK'
  BY <1>1, JobTypes DEF TypeOK, Threads, CallerPlaces, HoldPlaces, OpenPlaces
<1>4. \A t \in Threads : pc[t] \notin DrainPlaces \cup {"dec"}
  <2>1. \A t \in Callers : pc[t] \in DrainPlaces \cup {"dec"} => FALSE
    BY <1>1 DEF TypeOK, Holds, HoldPlaces, OpenPlaces, DrainPlaces, CallerPlaces, JobOpen
  <2> QED
    BY <1>1, <2>1 DEF AtWork, Threads
<1>5. (Holds /\ PoolJobs /\ Published /\ SeenPast /\ AtWork /\ References)'
  BY <1>1, <1>2, <1>4 DEF TypeOK, Threads, Holds, PoolJobs, Published, SeenPast, AtWork,
     References, HoldPlaces, OpenPlaces, DrainPlaces
<1>6. Owing' = 1 .. (want' - 1)
  BY <1>1 DEF Owing, Workers, SeenPast, TypeOK
<1>7. Cardinality(Owing') = want' - 1
  BY <1>1, <1>6, FS_Interval
<1>8. Counted'
  BY <1>2, <1>7 DEF Counted
<1> QED
  BY <1>3, <1>5, <1>8

\* The caller passes its wait only when nobody owes a decrement, and then no
\* worker is inside drain() any more.
LEMMA CheckDoneStep ==
  ASSUME IInv, NEW c \in Callers, CheckDone(c)
  PROVE  IInv'
<1> USE DEF IInv, CheckDone, GoTo, shared
<1>1. TypeOK'
  BY DEF TypeOK, Threads, CallerPlaces, HoldPlaces, OpenPlaces
<1>2. jobOwner = c /\ JobOpen
  BY DEF Holds, HoldPlaces, OpenPlaces, JobOpen, TypeOK
<1>3. Owing' = Owing
  BY DEF Owing, TypeOK, Threads, DrainPlaces
<1>4. CASE pending = 0
  <2>1. Owing = {}
    BY <1>4, OwingFinite, FS_EmptySet DEF Counted
  <2>2. \A w \in Workers : pc[w] \notin DrainPlaces \cup {"dec"}
    BY <2>1 DEF AtWork, Owing
  <2>3. (Holds /\ PoolJobs /\ Published /\ SeenPast /\ AtWork /\ References)'
    BY <1>2, <1>4, <2>2 DEF AllDone, TypeOK, Threads, Holds, PoolJobs, Published, SeenPast,
       AtWork, References, JobOpen, HoldPlaces, OpenPlaces, DrainPlaces
  <2> QED
    BY <1>1, <1>3, <2>1, <2>3 DEF Counted
<1>5. CASE pending # 0
  <2>1. JobOpen'
    BY <1>2, <1>5 DEF AllDone, JobOpen, TypeOK, Threads, OpenPlaces
  <2>2. (Holds /\ PoolJobs /\ Published /\ SeenPast /\ AtWork /\ References)'
    BY <1>2, <1>5, <2>1 DEF AllDone, TypeOK, Threads, Holds, PoolJobs, Published, SeenPast,
       AtWork, References, HoldPlaces, OpenPlaces, DrainPlaces
  <2> QED
    BY <1>1, <1>3, <2>1, <2>2 DEF Counted
<1> QED
  BY <1>4, <1>5

\* A worker that takes up the generation and joins was owed for already.
LEMMA WorkerCheckStep ==
  ASSUME IInv, NEW w \in Workers, WorkerCheck(w)
  PROVE  IInv'
<1> USE DEF IInv, WorkerCheck, GoTo, shared
<1>1. TypeOK'
  BY DEF TypeOK, Threads, WorkerPlaces, DrainPlaces
<1>2. JobOpen' = JobOpen
  BY DEF JobOpen, TypeOK, Threads
<1>3. Owing' = Owing
  BY DEF Owing, Joins, TypeOK, Threads, DrainPlaces
<1>4. gen # seen[w] /\ w < want => JobOpen
  BY DEF Counted, Owing
<1>5. (Holds /\ PoolJobs /\ Published /\ SeenPast /\ AtWork /\ References)'
  BY <1>2, <1>4 DEF Joins, TypeOK, Threads, Holds, PoolJobs, Published, SeenPast, AtWork,
     References, HoldPlaces, OpenPlaces, DrainPlaces
<1> QED
  BY <1>1, <1>2, <1>3, <1>5 DEF Counted

\* A decrement pays for exactly one debtor, so pending_ never wraps.
LEMMA DecrementStep ==
  ASSUME IInv, NEW w \in Workers, Decrement(w)
  PROVE  IInv'
<1> USE DEF IInv, Decrement, GoTo
<1>1. w \in Owing /\ JobOpen
  BY DEF AtWork, Owing
<1>2. pending \in Nat /\ pending >= 1
  BY <1>1, OwingFinite, FS_EmptySet DEF Counted
<1>3. TypeOK'
  BY <1>2 DEF TypeOK, Threads, WorkerPlaces
<1>4. JobOpen' = JobOpen
  BY DEF JobOpen, TypeOK, Threads
<1>5. Owing' = Owing \ {w}
  BY <1>1 DEF AtWork, Owing, TypeOK, Threads, DrainPlaces
<1>6. Cardinality(Owing') = Cardinality(Owing) - 1
  BY <1>1, <1>5, OwingFinite, FS_RemoveElement
<1>7. (Holds /\ PoolJobs /\ Published /\ SeenPast /\ AtWork /\ References)'
  BY <1>4 DEF TypeOK, Threads, Holds, PoolJobs, Published, SeenPast, AtWork, References,
     HoldPlaces, OpenPlaces, DrainPlaces
<1> QED
  BY <1>1, <1>3, <1>4, <1>6, <1>7 DEF Counted

\* Stuttering changes nothing the invariant mentions.
LEMMA StutterStep == IInv /\ UNCHANGED vars => IInv'
  BY DEF IInv, vars, shared, TypeOK, Holds, PoolJobs, Published, SeenPast, AtWork, References,
     Counted, Owing, JobOpen
-----------------------------------------------------------------------------
\* The inductive invariant holds in every reachable state.
THEOREM Inductive == Spec => []IInv
<1>1. IInv /\ [Next]_vars => IInv'
  <2> SUFFICES ASSUME IInv, [Next]_vars PROVE IInv'
    OBVIOUS
  <2>1. CASE \E c \in Callers : CallerStep(c)
    BY <2>1, SerialCallStep, SerialReturnStep, LockJobStep, PublishStep, NotifyStartStep,
       LockDoneStep, CheckDoneStep, BlockDoneStep, ClearFnStep, ReturnOkStep DEF CallerStep
  <2>2. CASE \E c \in Callers, j \in Jobs : Submit(c, j)
    BY <2>2, SubmitStep
  <2>3. CASE \E w \in Workers : WorkerStep(w)
    BY <2>3, WorkerCheckStep, DecrementStep, LockSignalStep, SignalDoneStep DEF WorkerStep
  <2>4. CASE \E t \in Threads : Drain(t)
    BY <2>4, EnterDrainStep, CheckOkStep, TakeChunkStep, CallFnStep, StoreFalseStep DEF Drain
  <2>5. CASE \E t \in Threads : SpuriousWake(t)
    BY <2>5, SpuriousWakeStep
  <2>6. CASE UNCHANGED vars
    BY <2>6, StutterStep
  <2> QED
    BY <2>1, <2>2, <2>3, <2>4, <2>5, <2>6 DEF Next
<1> QED
  BY <1>1, IInvInit, PTL DEF Spec

\* Every variable keeps its type; in particular pending_, an unsigned counter,
\* is never decremented at zero (batch_pool.hpp:122).
THEOREM TypeCorrect == Spec => []TypeOK
<1>1. IInv => TypeOK
  BY DEF IInv
<1> QED
  BY <1>1, Inductive, PTL

\* run() does not return, publish or clear fn_ while any thread is inside
\* drain() (batch_pool.hpp:58, 72, 85-90).
THEOREM Blocks == Spec => []BlocksUntilComplete
<1>1. IInv => BlocksUntilComplete
  <2> SUFFICES ASSUME IInv, NEW t \in Threads, pc[t] \in DrainPlaces
               PROVE  JobOpen /\ fn = jobOwner /\ (pc[t] # "enter" => fnRef[t] = jobOwner)
    BY DEF BlocksUntilComplete
  <2>1. CASE t \in Workers
    BY <2>1 DEF IInv, AtWork, Published, References
  <2>2. CASE t \in Callers
    <3>1. jobOwner = t /\ JobOpen
      BY <2>2 DEF IInv, TypeOK, Holds, HoldPlaces, OpenPlaces, JobOpen
    <3> QED
      BY <3>1 DEF IInv, Published, References
  <2> QED
    BY <2>1, <2>2 DEF Threads
<1> QED
  BY <1>1, Inductive, PTL

\* pending_ is the number of participants that still owe a decrement, and zero
\* when no job is open (batch_pool.hpp:78, 122).
THEOREM PendingCounts == Spec => []PendingExact
<1>1. IInv => PendingExact
  BY FS_EmptySet DEF IInv, Counted, PendingExact
<1> QED
  BY <1>1, Inductive, PTL

\* No job ever has more threads inside drain() than its caller asked for
\* (batch_pool.hpp:57, 77, 118).
THEOREM Budget == Spec => []ThreadBudget
<1>1. IInv => ThreadBudget
  <2> SUFFICES ASSUME IInv, JobOpen
               PROVE  Cardinality({t \in Threads : pc[t] \in DrainPlaces}) <= job[jobOwner].want
    BY DEF ThreadBudget
  <2> DEFINE Busy == {t \in Threads : pc[t] \in DrainPlaces}
             Crew == 1 .. (want - 1)
  <2>1. jobOwner \in Callers /\ ~Serial(job[jobOwner])
    BY DEF IInv, TypeOK, JobOpen, PoolJobs, HoldPlaces
  <2>2. want \in Nat /\ want >= 2 /\ want <= job[jobOwner].want
    BY <2>1, PoolWant DEF IInv, Published
  <2>3. Busy \subseteq Crew \cup {jobOwner}
    <3>1. \A t \in Workers : pc[t] \in DrainPlaces => t \in Crew
      BY <2>2 DEF IInv, AtWork, Workers
    <3>2. \A t \in Callers : pc[t] \in DrainPlaces => t = jobOwner
      BY DEF IInv, Holds, HoldPlaces, OpenPlaces
    <3> QED
      BY <3>1, <3>2 DEF Threads
  <2>4. IsFiniteSet(Crew) /\ Cardinality(Crew) = want - 1
    BY <2>2, FS_Interval
  <2> HIDE DEF Busy, Crew
  <2>5. /\ IsFiniteSet(Crew \cup {jobOwner})
        /\ \/ Cardinality(Crew \cup {jobOwner}) = want - 1
           \/ Cardinality(Crew \cup {jobOwner}) = (want - 1) + 1
    BY <2>4, FS_AddElement
  <2>6. IsFiniteSet(Busy) /\ Cardinality(Busy) <= Cardinality(Crew \cup {jobOwner})
    BY <2>3, <2>5, FS_Subset
  <2>7. Cardinality(Busy) \in Nat /\ Cardinality(Crew \cup {jobOwner}) \in Nat
    BY <2>5, <2>6, FS_CardinalityType
  <2>8. Cardinality(Busy) <= want
    BY <2>2, <2>5, <2>6, <2>7
  <2>9. job[jobOwner].want \in Nat
    BY <2>1, JobTypes DEF IInv
  <2>10. Cardinality(Busy) <= job[jobOwner].want
    BY <2>2, <2>7, <2>8, <2>9
  <2> QED
    BY <2>10 DEF Busy
<1> QED
  BY <1>1, Inductive, PTL

-----------------------------------------------------------------------------
(* What the rows of a job have been through.                                *)

\* The rows of c's call that fn has seen, and where the cursor stands in rows.
Examined(c) == {r \in DOMAIN hits[c] : hits[c][r] > 0}
Front == next * steal

Ongoing == HoldPlaces \ {"publish"}
Through == {"doneLock", "doneCheck", "doneBlock", "doneAsleep", "clear", "return"}
InCall == {t \in Threads : pc[t] = "call"}
InFail == {t \in Threads : pc[t] = "fail"}

\* The serial path has handed over just the rows below its chunk, all good.
SerialWork ==
    \A c \in Callers : pc[c] = "serial" =>
        \E lo \in Nat :
            /\ chunk[c] = lo .. (NatMin(lo + StealOf(job[c]), job[c].n) - 1)
            /\ \A r \in RowsOf(job[c]) : hits[c][r] = IF r < lo THEN 1 ELSE 0
            /\ \A r \in job[c].bad : r >= lo

SerialBad == \A c \in Callers : pc[c] = "serialFail" => Examined(c) \cap job[c].bad # {}

Fresh == \A c \in Callers : pc[c] \in {"lock", "publish"} =>
              \A r \in RowsOf(job[c]) : hits[c][r] = 0

\* n_ and steal_ stay those of the call that holds the pool.
OwnJob == \A c \in Callers : pc[c] \in Ongoing => n = job[c].n /\ steal = StealOf(job[c])

\* A claimed chunk lies behind the cursor, is not empty and has not been seen.
Claims == \A t \in InCall :
              /\ chunk[t] # {}
              /\ \A r \in chunk[t] : r \in 0 .. (n - 1) /\ r < Front /\ hits[jobOwner][r] = 0

Disjoint == \A t, u \in InCall : t # u => chunk[t] \cap chunk[u] = {}

\* Rows past the cursor are untouched; those behind it were seen, or are in
\* some thread's hands.
Covered ==
    \A c \in Callers : pc[c] \in Ongoing =>
        \A r \in RowsOf(job[c]) :
            /\ r >= Front => hits[c][r] = 0
            /\ r < Front => hits[c][r] = 1 \/ \E t \in InCall : r \in chunk[t]

\* ok_ is false only after a bad row, and true after one only until the thread
\* that met it has stored.
Blamed ==
    \A c \in Callers : pc[c] \in Ongoing =>
        /\ ~ok \/ InFail # {} => Examined(c) \cap job[c].bad # {}
        /\ ok /\ Examined(c) \cap job[c].bad # {} => InFail # {}

\* The holder leaves drain() when ok_ is false or the cursor is past the end.
Left == \A c \in Callers : pc[c] \in Through => ~ok \/ Front >= n

HitsCount == /\ hits = [c \in Callers |-> hits[c]]
             /\ \A c \in Callers : hits[c] \in [RowsOf(job[c]) -> 0 .. 1]

Work == /\ HitsCount /\ SerialWork /\ SerialBad /\ Fresh /\ OwnJob /\ Claims
        /\ Disjoint /\ Covered /\ Blamed /\ Left
-----------------------------------------------------------------------------

\* The invariant before the first call.
LEMMA WorkInit == Init => Work
  BY DEF Init, Work, HitsCount, SerialWork, SerialBad, Fresh, OwnJob, Claims, Disjoint, Covered, Blamed,
     Left, NoJob, RowsOf, Examined, Ongoing, Through, InCall, InFail, HoldPlaces, OpenPlaces, DrainPlaces, Threads


\* A step that hands out no rows: nobody starts on a job, and only a caller
\* that has read a false ok_ moves on to the wait.
Quiet ==
    /\ UNCHANGED <<hits, chunk, job, n, steal, next, ok>>
    /\ InCall' = InCall /\ InFail' = InFail
    /\ InCall # {} => jobOwner' = jobOwner
    /\ \A c \in Callers :
          /\ pc'[c] \in {"serial", "serialFail"} => pc'[c] = pc[c]
          /\ pc'[c] \in {"lock", "publish"} => pc[c] \in {"lock", "publish"}
          /\ pc'[c] \in Ongoing => pc[c] \in Ongoing
          /\ pc'[c] \in Through => pc[c] \in Through \/ ~ok

\* A quiet step, which moves no row, keeps Work.
LEMMA QuietKeeps ==
  ASSUME Work, Quiet
  PROVE  Work'
<1> USE DEF Work, Quiet
<1>1. Front' = Front /\ \A c \in Callers : Examined(c)' = Examined(c)
  BY DEF Front, Examined
<1>2. HitsCount' /\ SerialWork' /\ SerialBad' /\ Fresh'
  BY <1>1 DEF HitsCount, SerialWork, SerialBad, Fresh
<1>3. OwnJob' /\ Left'
  BY <1>1 DEF OwnJob, Left, Ongoing, Through
<1>4. Claims' /\ Disjoint'
  BY <1>1 DEF Claims, Disjoint
<1>5. Covered'
  BY <1>1 DEF Covered
<1>6. Blamed'
  BY <1>1 DEF Blamed
<1> QED
  BY <1>2, <1>3, <1>4, <1>5, <1>6

\* Where the threads stand when a job is open, and when none is.
LEMMA NobodyInside ==
  ASSUME IInv, ~JobOpen
  PROVE  InCall = {} /\ InFail = {}
<1>1. \A t \in Workers : pc[t] \notin DrainPlaces
  BY DEF IInv, AtWork
<1>2. \A t \in Callers : pc[t] \notin DrainPlaces
  BY DEF IInv, Holds, HoldPlaces, OpenPlaces, JobOpen, TypeOK
<1> QED
  BY <1>1, <1>2 DEF Threads, InCall, InFail, DrainPlaces

\* The steps of locks and condition variables are quiet.
LEMMA QuietSteps ==
  ASSUME IInv,
         \/ \E c \in Callers :
               \/ SerialReturn(c) \/ LockJob(c) \/ NotifyStart(c) \/ LockDone(c)
               \/ CheckDone(c) \/ BlockDone(c) \/ ClearFn(c) \/ ReturnOk(c)
         \/ \E w \in Workers : WorkerStep(w)
         \/ \E t \in Threads : EnterDrain(t) \/ CheckOk(t) \/ SpuriousWake(t)
  PROVE  Quiet
<1> USE DEF IInv, TypeOK, Quiet, GoTo, shared, Threads, InCall, InFail, Ongoing, Through,
        HoldPlaces, OpenPlaces, DrainPlaces
<1>1. ASSUME NEW c \in Callers, SerialReturn(c) PROVE Quiet
  BY <1>1 DEF SerialReturn
<1>2. ASSUME NEW c \in Callers, LockJob(c) PROVE Quiet
  <2>1. ~JobOpen
    BY <1>2 DEF LockJob, JobOpen
  <2> QED
    BY <1>2, <2>1, NobodyInside DEF LockJob
<1>3. ASSUME NEW c \in Callers, NotifyStart(c) PROVE Quiet
  BY <1>3 DEF NotifyStart
<1>4. ASSUME NEW c \in Callers, LockDone(c) PROVE Quiet
  BY <1>4 DEF LockDone
<1>5. ASSUME NEW c \in Callers, CheckDone(c) PROVE Quiet
  BY <1>5 DEF CheckDone
<1>6. ASSUME NEW c \in Callers, BlockDone(c) PROVE Quiet
  BY <1>6 DEF BlockDone
<1>7. ASSUME NEW c \in Callers, ClearFn(c) PROVE Quiet
  BY <1>7 DEF ClearFn
<1>8. ASSUME NEW c \in Callers, ReturnOk(c) PROVE Quiet
  <2>1. ~JobOpen
    BY <1>8 DEF ReturnOk, JobOpen, Holds
  <2> QED
    BY <1>8, <2>1, NobodyInside DEF ReturnOk
<1>9. ASSUME NEW w \in Workers, WorkerCheck(w) PROVE Quiet
  BY <1>9 DEF WorkerCheck
<1>10. ASSUME NEW w \in Workers, Decrement(w) PROVE Quiet
  BY <1>10 DEF Decrement
<1>11. ASSUME NEW w \in Workers, LockSignal(w) PROVE Quiet
  BY <1>11 DEF LockSignal
<1>12. ASSUME NEW w \in Workers, SignalDone(w) PROVE Quiet
  BY <1>12 DEF SignalDone, DoneSleepers
<1>13. ASSUME NEW t \in Threads, EnterDrain(t) PROVE Quiet
  BY <1>13 DEF EnterDrain
<1>14. ASSUME NEW t \in Threads, CheckOk(t) PROVE Quiet
  BY <1>14, LeaveDrain DEF CheckOk
<1>15. ASSUME NEW t \in Threads, SpuriousWake(t) PROVE Quiet
  BY <1>15 DEF SpuriousWake
<1> QED
  BY <1>1, <1>2, <1>3, <1>4, <1>5, <1>6, <1>7, <1>8, <1>9, <1>10, <1>11, <1>12, <1>13, <1>14,
     <1>15 DEF WorkerStep

\* The thread inside drain() works for the call that holds the pool.
LEMMA Inside ==
  ASSUME IInv, NEW t \in Threads, pc[t] \in DrainPlaces
  PROVE  /\ JobOpen /\ jobOwner \in Callers /\ pc[jobOwner] \in Ongoing
         /\ t \in Callers => t = jobOwner
         /\ pc[t] # "enter" => fnRef[t] = jobOwner
         /\ \A c \in Callers : pc[c] \in Ongoing => c = jobOwner
<1> USE DEF IInv, Ongoing, HoldPlaces, OpenPlaces
<1>1. t \in Callers => t = jobOwner
  BY DEF Holds
<1>2. JobOpen /\ jobOwner \in Callers
  BY <1>1 DEF AtWork, JobOpen, Threads, TypeOK
<1>3. pc[t] # "enter" => fnRef[t] = jobOwner
  BY DEF References
<1> QED
  BY <1>1, <1>2, <1>3 DEF Holds, JobOpen, DrainPlaces

\* A call has at least one row to a chunk, and its bad rows are its own.
LEMMA JobRows ==
  ASSUME TypeOK, NEW c \in Callers
  PROVE  /\ job[c].n \in Nat /\ StealOf(job[c]) \in Nat /\ StealOf(job[c]) >= 1
         /\ job[c].bad \subseteq RowsOf(job[c]) /\ RowsOf(job[c]) = 0 .. (job[c].n - 1)
  BY DEF TypeOK, NoJob, StealOf, RowsOf

\* A new call has handed nothing out.
LEMMA SubmitWork ==
  ASSUME IInv, Work, NEW c \in Callers, NEW j \in Jobs, Submit(c, j)
  PROVE  Work'
<1> USE DEF IInv, Submit, GoTo, shared, Work
<1>1. /\ InCall' = InCall /\ InFail' = InFail /\ Front' = Front
      /\ \A t \in InCall : chunk'[t] = chunk[t]
      /\ \A d \in Callers \ {c} : /\ job'[d] = job[d] /\ hits'[d] = hits[d] /\ pc'[d] = pc[d]
                                  /\ chunk'[d] = chunk[d] /\ Examined(d)' = Examined(d)
      /\ job'[c] = j /\ hits'[c] = [r \in RowsOf(j) |-> 0]
      /\ pc'[c] \in {"serial", "lock"}
      /\ pc'[c] = "serial" => chunk'[c] = ChunkRows(0, StealOf(j), j.n)
  <2>1. /\ \A d \in Callers \ {c} : hits'[d] = hits[d]
        /\ hits'[c] = [r \in RowsOf(j) |-> 0]
    BY DEF HitsCount
  <2>2. InCall' = InCall /\ InFail' = InFail /\ Front' = Front
    BY DEF TypeOK, Threads, InCall, InFail, Front
  <2> QED
    BY <2>1, <2>2 DEF TypeOK, Threads, InCall, Examined
<1>2. InCall # {} => jobOwner \in Callers \ {c}
  BY Inside DEF InCall, DrainPlaces, Ongoing, HoldPlaces, OpenPlaces
<1>3. HitsCount' /\ Fresh' /\ SerialBad'
  BY <1>1 DEF HitsCount, Fresh, SerialBad
<1>4. SerialWork'
  <2>1. /\ j.n \in Nat /\ StealOf(j) \in Nat
        /\ \A r \in j.bad : r >= 0
    BY DEF StealOf
  <2>2. ChunkRows(0, StealOf(j), j.n) = 0 .. (NatMin(0 + StealOf(j), j.n) - 1)
    BY <2>1 DEF ChunkRows
  <2>3. \A r \in RowsOf(j) : hits'[c][r] = IF r < 0 THEN 1 ELSE 0
    BY <1>1 DEF RowsOf
  <2> SUFFICES ASSUME NEW d \in Callers, pc'[d] = "serial"
               PROVE  \E lo \in Nat :
                         /\ chunk'[d] = lo .. (NatMin(lo + StealOf(job'[d]), job'[d].n) - 1)
                         /\ \A r \in RowsOf(job'[d]) : hits'[d][r] = IF r < lo THEN 1 ELSE 0
                         /\ \A r \in job'[d].bad : r >= lo
    BY DEF SerialWork
  <2>4. CASE d = c
    BY <1>1, <2>1, <2>2, <2>3, <2>4
  <2>5. CASE d # c
    BY <1>1, <2>5 DEF SerialWork
  <2> QED
    BY <2>4, <2>5
<1>5. OwnJob' /\ Left' /\ Covered' /\ Blamed'
  BY <1>1 DEF OwnJob, Left, Covered, Blamed, Ongoing, Through, HoldPlaces, OpenPlaces, DrainPlaces
<1>6. Claims' /\ Disjoint'
  BY <1>1, <1>2 DEF Claims, Disjoint
<1> QED
  BY <1>3, <1>4, <1>5, <1>6

\* The serial path hands over its chunk and moves on to the next.
LEMMA SerialCallWork ==
  ASSUME IInv, Work, NEW c \in Callers, SerialCall(c)
  PROVE  Work'
<1> USE DEF IInv, SerialCall, GoTo, shared, Work
<1> DEFINE S == StealOf(job[c])
           total == job[c].n
<1>0. total \in Nat /\ S \in Nat /\ S >= 1 /\ job[c].bad \subseteq RowsOf(job[c])
      /\ RowsOf(job[c]) = 0 .. (total - 1)
  BY JobRows
<1>1. PICK lo \in Nat :
          /\ chunk[c] = lo .. (NatMin(lo + S, total) - 1)
          /\ \A r \in RowsOf(job[c]) : hits[c][r] = IF r < lo THEN 1 ELSE 0
          /\ \A r \in job[c].bad : r >= lo
  BY DEF SerialWork
<1>2. lo < total
  BY <1>0, <1>1 DEF NatMin
<1>3. /\ InCall' = InCall /\ InFail' = InFail /\ Front' = Front /\ job' = job
      /\ \A t \in InCall : chunk'[t] = chunk[t]
      /\ \A d \in Callers \ {c} : /\ hits'[d] = hits[d] /\ pc'[d] = pc[d]
                                  /\ chunk'[d] = chunk[d] /\ Examined(d)' = Examined(d)
      /\ pc'[c] \in {"serial", "serialFail"}
  BY DEF TypeOK, Threads, InCall, InFail, Front, Examined, Hit, HitsCount
<1>4. hits'[c] = [r \in RowsOf(job[c]) |-> IF r \in chunk[c] THEN hits[c][r] + 1 ELSE hits[c][r]]
  BY DEF Hit, HitsCount
<1>5. \A r \in RowsOf(job[c]) : hits'[c][r] = IF r < lo + S THEN 1 ELSE 0
  BY <1>0, <1>1, <1>2, <1>4 DEF NatMin
<1>6. hits'[c] \in [RowsOf(job[c]) -> 0 .. 1]
  BY <1>4, <1>5
<1>7. HitsCount' /\ Fresh'
  BY <1>3, <1>6 DEF HitsCount, Fresh, Hit
<1>8. InCall # {} => jobOwner \in Callers \ {c}
  BY Inside DEF InCall, DrainPlaces, Ongoing, HoldPlaces, OpenPlaces
<1>9. OwnJob' /\ Left' /\ Covered' /\ Blamed'
  BY <1>3 DEF OwnJob, Left, Covered, Blamed, Ongoing, Through, HoldPlaces, OpenPlaces, DrainPlaces
<1>10. Claims' /\ Disjoint'
  BY <1>3, <1>8 DEF Claims, Disjoint
<1>11. CASE FnHolds(c, chunk[c])
  <2>1. pc'[c] = "serial" /\ chunk'[c] = {r + S : r \in chunk[c]} \cap RowsOf(job[c])
    BY <1>11 DEF TypeOK, Threads
  <2>2. chunk'[c] = (lo + S) .. (NatMin((lo + S) + S, total) - 1)
    <3>1. ASSUME NEW r PROVE r \in chunk'[c] => r \in (lo + S) .. (NatMin((lo + S) + S, total) - 1)
      BY <1>0, <1>1, <2>1 DEF NatMin
    <3>2. ASSUME NEW r \in (lo + S) .. (NatMin((lo + S) + S, total) - 1) PROVE r \in chunk'[c]
      <4>1. r \in Int /\ r >= lo + S /\ r < (lo + S) + S /\ r < total
        BY <1>0, <1>1 DEF NatMin
      <4>2. r = (r - S) + S /\ r \in RowsOf(job[c])
        BY <1>0, <1>1, <4>1
      <4>3. r - S \in chunk[c]
        BY <1>0, <1>1, <4>1 DEF NatMin
      <4> QED
        BY <2>1, <4>2, <4>3
    <3> QED
      BY <3>1, <3>2
  <2>3. \A r \in job[c].bad : r >= lo + S
    BY <1>0, <1>1, <1>11 DEF FnHolds, NatMin
  <2>4. SerialWork'
    <3> SUFFICES ASSUME NEW d \in Callers, pc'[d] = "serial"
                 PROVE  \E k \in Nat :
                           /\ chunk'[d] = k .. (NatMin(k + StealOf(job'[d]), job'[d].n) - 1)
                           /\ \A r \in RowsOf(job'[d]) : hits'[d][r] = IF r < k THEN 1 ELSE 0
                           /\ \A r \in job'[d].bad : r >= k
      BY DEF SerialWork
    <3>1. CASE d = c
      <4>1. lo + S \in Nat
        BY <1>0
      <4> QED
        BY <1>3, <1>5, <2>2, <2>3, <3>1, <4>1
    <3>2. CASE d # c
      BY <1>3, <3>2 DEF SerialWork
    <3> QED
      BY <3>1, <3>2
  <2>5. SerialBad'
    BY <1>3, <2>1 DEF SerialBad
  <2> QED
    BY <1>7, <1>9, <1>10, <2>4, <2>5
<1>12. CASE ~FnHolds(c, chunk[c])
  <2>1. pc'[c] = "serialFail"
    BY <1>12 DEF TypeOK, Threads
  <2>2. PICK r \in chunk[c] : r \in job[c].bad
    BY <1>12 DEF FnHolds
  <2>3. Examined(c)' \cap job'[c].bad # {}
    BY <1>0, <1>1, <1>3, <1>4, <1>5, <2>2 DEF Examined, NatMin
  <2>4. SerialBad' /\ SerialWork'
    BY <1>3, <2>1, <2>3 DEF SerialBad, SerialWork
  <2> QED
    BY <1>7, <1>9, <1>10, <2>4
<1> QED
  BY <1>11, <1>12

\* Publishing starts the cursor at the first of rows that nobody has seen.
LEMMA PublishWork ==
  ASSUME IInv, Work, NEW c \in Callers, Publish(c)
  PROVE  Work'
<1> USE DEF IInv, Publish, GoTo, Work
<1>1. /\ jobOwner = c /\ ~JobOpen
      /\ \A d \in Callers \ {c} : pc[d] \notin HoldPlaces
  BY DEF Holds, HoldPlaces, OpenPlaces, DrainPlaces, JobOpen
<1>2. /\ InCall' = {} /\ InFail' = {} /\ Front' = 0
      /\ hits' = hits /\ job' = job /\ chunk' = chunk
      /\ \A d \in Callers : Examined(d)' = Examined(d)
      /\ \A d \in Callers \ {c} : pc'[d] = pc[d]
      /\ pc'[c] = "notify"
  <2>1. InCall = {} /\ InFail = {}
    BY <1>1, NobodyInside
  <2>2. StealOf(job[c]) \in Nat
    BY JobRows
  <2> QED
    BY <2>1, <2>2 DEF TypeOK, Threads, InCall, InFail, Front, Examined
<1>3. HitsCount' /\ SerialWork' /\ SerialBad' /\ Fresh'
  BY <1>2 DEF HitsCount, SerialWork, SerialBad, Fresh
<1>4. \A r \in RowsOf(job[c]) : r >= 0 /\ hits[c][r] = 0
  BY JobRows DEF Fresh
<1>5. Examined(c) = {}
  BY <1>4 DEF Examined, HitsCount
<1>6. OwnJob' /\ Left' /\ Claims' /\ Disjoint'
  BY <1>1, <1>2 DEF OwnJob, Left, Claims, Disjoint, Ongoing, Through, HoldPlaces, OpenPlaces, DrainPlaces
<1>7. Covered' /\ Blamed'
  BY <1>1, <1>2, <1>4, <1>5 DEF Covered, Blamed, Ongoing, HoldPlaces, OpenPlaces, DrainPlaces, RowsOf
<1> QED
  BY <1>3, <1>6, <1>7

\* A thread that draws a chunk from the cursor gets rows that were all ahead
\* of it, or learns that there are none.
LEMMA TakeChunkWork ==
  ASSUME IInv, Work, NEW t \in Threads, TakeChunk(t)
  PROVE  Work'
<1> USE DEF IInv, TakeChunk, GoTo, Work
<1> DEFINE o == jobOwner
<1>1. /\ JobOpen /\ o \in Callers /\ pc[o] \in Ongoing
      /\ t \in Callers => t = o
      /\ \A c \in Callers : pc[c] \in Ongoing => c = o
  BY Inside DEF DrainPlaces
<1>2. /\ n = job[o].n /\ n \in Nat /\ steal \in Nat /\ steal >= 1
      /\ RowsOf(job[o]) = 0 .. (n - 1)
  BY <1>1, JobRows DEF OwnJob
<1>3. Front \in Nat /\ Front' = Front + steal
  BY <1>2 DEF TypeOK, Front
<1>4. /\ hits' = hits /\ job' = job /\ n' = n /\ steal' = steal /\ ok' = ok /\ jobOwner' = jobOwner
      /\ \A c \in Callers : Examined(c)' = Examined(c)
      /\ \A u \in Threads \ {t} : pc'[u] = pc[u] /\ chunk'[u] = chunk[u]
      /\ InFail' = InFail
      /\ pc'[t] \in {"call", "dec", "doneLock"}
  BY LeaveDrain DEF TypeOK, Examined, InFail, DrainPlaces
<1>5. HitsCount' /\ SerialWork' /\ SerialBad' /\ Fresh'
  BY <1>1, <1>4 DEF HitsCount, SerialWork, SerialBad, Fresh, Threads
<1>6. OwnJob' /\ Blamed'
  BY <1>1, <1>4 DEF OwnJob, Blamed, Ongoing, HoldPlaces, OpenPlaces, DrainPlaces, Threads
<1>7. \A u \in InCall : /\ chunk[u] # {}
                       /\ \A r \in chunk[u] : r \in 0 .. (n - 1) /\ r < Front' /\ hits[o][r] = 0
  <2> SUFFICES ASSUME NEW u \in InCall, NEW r \in chunk[u]
               PROVE  r \in 0 .. (n - 1) /\ r < Front' /\ hits[o][r] = 0
    BY DEF Claims
  <2>1. r \in 0 .. (n - 1) /\ r < Front /\ hits[o][r] = 0
    BY DEF Claims
  <2> QED
    BY <1>2, <1>3, <2>1
<1>8. CASE CursorPastEnd
  <2>1. Front >= n /\ InCall' = InCall /\ chunk' = chunk
    BY <1>4, <1>8, LeaveDrain DEF CursorPastEnd, Front, InCall, DrainPlaces, TypeOK
  <2>2. Left'
    BY <1>1, <1>2, <1>3, <1>4, <2>1 DEF Left
  <2>3. Claims' /\ Disjoint'
    <3> HIDE DEF IInv, TakeChunk
    <3>1. Claims'
      BY <1>4, <1>7, <2>1 DEF Claims
    <3> QED
      BY <2>1, <3>1 DEF Disjoint
  <2>4. Covered'
    <3>1. \A c \in Callers : pc'[c] \in Ongoing => c = o
      BY <1>1, <1>4 DEF Ongoing, HoldPlaces, OpenPlaces, DrainPlaces, Threads
    <3>2. \A r \in RowsOf(job[o]) : /\ ~(r >= Front')
                                    /\ hits[o][r] = 1 \/ \E u \in InCall : r \in chunk[u]
      BY <1>1, <1>2, <1>3, <2>1 DEF Covered
    <3> HIDE DEF IInv, TakeChunk, Work
    <3> QED
      BY <1>4, <2>1, <3>1, <3>2 DEF Covered
  <2> QED
    BY <1>5, <1>6, <2>2, <2>3, <2>4
<1>9. CASE ~CursorPastEnd
  <2>1. /\ Front < n
        /\ InCall' = InCall \cup {t} /\ t \notin InCall
        /\ chunk'[t] = Front .. (NatMin(Front + steal, n) - 1)
    BY <1>2, <1>4, <1>9 DEF CursorPastEnd, Front, InCall, TypeOK, ChunkRows
  <2>2. \A r : r \in chunk'[t] <=> r \in 0 .. (n - 1) /\ r >= Front /\ r < Front + steal
    <3> HIDE DEF IInv, TakeChunk, GoTo, Work
    <3>1. n \in Nat /\ steal \in Nat /\ Front \in Nat
      BY <1>2, <1>3
    <3> HIDE DEF Front
    <3> QED
      BY <2>1, <3>1 DEF NatMin
  <2>3. Front \in chunk'[t]
    <3> HIDE DEF IInv, TakeChunk, GoTo, Work
    <3>1. Front \in 0 .. (n - 1) /\ Front < Front + steal
      BY <1>2, <1>3, <2>1
    <3> QED
      BY <2>2, <3>1
  <2>4. Left'
    BY <1>1, <1>3, <1>4, <1>9 DEF Left, Through, Ongoing, HoldPlaces, OpenPlaces, DrainPlaces, Threads, TypeOK
  <2>5. \A r \in chunk'[t] : r < Front' /\ hits[o][r] = 0
    BY <1>1, <1>2, <1>3, <2>2 DEF Covered
  <2>6. Claims'
    <3>1. \A u \in InCall : u # t /\ chunk'[u] = chunk[u]
      BY <1>4, <2>1 DEF InCall
    <3> QED
      BY <1>4, <1>7, <2>1, <2>2, <2>3, <2>5, <3>1 DEF Claims
  <2>7. \A u \in InCall : chunk'[u] = chunk[u] /\ chunk[u] \cap chunk'[t] = {}
    BY <1>2, <1>3, <1>4, <2>1, <2>2 DEF Claims, InCall
  <2>8. Disjoint'
    BY <2>1, <2>7 DEF Disjoint
  <2>9. Covered'
    <3> SUFFICES ASSUME NEW r \in 0 .. (n - 1)
                 PROVE  /\ r >= Front' => hits[o][r] = 0
                        /\ r < Front' => hits[o][r] = 1 \/ \E u \in InCall' : r \in chunk'[u]
      BY <1>1, <1>2, <1>4 DEF Covered, Ongoing, HoldPlaces, OpenPlaces, DrainPlaces, Threads
    <3>1. CASE r < Front
      BY <1>1, <1>2, <1>3, <2>1, <2>7, <3>1 DEF Covered
    <3>2. CASE r >= Front
      BY <1>1, <1>2, <1>3, <2>1, <2>2, <3>2 DEF Covered
    <3> QED
      BY <1>3, <3>1, <3>2
  <2> QED
    BY <1>5, <1>6, <2>4, <2>6, <2>8, <2>9
<1> QED
  BY <1>8, <1>9

\* fn sees the rows of a claimed chunk, each for the first time.
LEMMA CallFnWork ==
  ASSUME IInv, Work, NEW t \in Threads, CallFn(t)
  PROVE  Work'
<1> USE DEF IInv, CallFn, GoTo, shared, Work
<1> DEFINE o == jobOwner
<1>1. /\ JobOpen /\ o \in Callers /\ pc[o] \in Ongoing /\ fnRef[t] = o
      /\ t \in Callers => t = o
      /\ \A c \in Callers : pc[c] \in Ongoing => c = o
  BY Inside DEF DrainPlaces
<1>2. /\ n = job[o].n /\ n \in Nat /\ job[o].bad \subseteq RowsOf(job[o])
      /\ RowsOf(job[o]) = 0 .. (n - 1) /\ t \in InCall
  BY <1>1, JobRows DEF OwnJob, InCall
<1>3. /\ job' = job /\ n' = n /\ steal' = steal /\ ok' = ok /\ jobOwner' = jobOwner /\ Front' = Front
      /\ InCall' = InCall \ {t}
      /\ InFail' = (IF FnHolds(o, chunk[t]) THEN InFail ELSE InFail \cup {t})
      /\ \A u \in Threads \ {t} : pc'[u] = pc[u] /\ chunk'[u] = chunk[u]
      /\ pc'[t] \in {"check", "fail"}
  BY <1>1 DEF TypeOK, InCall, InFail, Front
<1>4. /\ hits' = [c \in Callers |-> hits'[c]]
      /\ \A c \in Callers \ {o} : hits'[c] = hits[c] /\ Examined(c)' = Examined(c)
      /\ hits'[o] = [r \in RowsOf(job[o]) |-> IF r \in chunk[t] THEN hits[o][r] + 1 ELSE hits[o][r]]
  BY <1>1 DEF Hit, HitsCount, Examined
<1>5. /\ \A r \in chunk[t] : r \in RowsOf(job[o]) /\ r < Front /\ hits'[o][r] = 1
      /\ \A r \in RowsOf(job[o]) \ chunk[t] : hits'[o][r] = hits[o][r]
      /\ hits'[o] \in [RowsOf(job[o]) -> 0 .. 1]
  <2>1. \A r \in chunk[t] : r \in RowsOf(job[o]) /\ r < Front /\ hits[o][r] = 0
    BY <1>2 DEF Claims
  <2>2. hits[o] \in [RowsOf(job[o]) -> 0 .. 1]
    BY <1>1 DEF HitsCount
  <2> HIDE DEF Work, IInv, CallFn
  <2> QED
    BY <1>4, <2>1, <2>2
<1>6. Examined(o)' = Examined(o) \cup chunk[t]
  BY <1>1, <1>4, <1>5 DEF Examined, HitsCount
<1>7. HitsCount' /\ SerialWork' /\ SerialBad' /\ Fresh'
  <2>1. \A c \in Callers \ {o} : pc'[c] = pc[c] /\ chunk'[c] = chunk[c]
    BY <1>1, <1>3 DEF Threads
  <2>2. pc'[o] \notin {"serial", "serialFail", "lock", "publish"}
    BY <1>1, <1>3 DEF Threads, Ongoing, HoldPlaces, OpenPlaces, DrainPlaces
  <2> QED
    <3> HIDE DEF IInv, CallFn
    <3>1. HitsCount'
      BY <1>3, <1>4, <1>5 DEF HitsCount
    <3>2. SerialWork'
      BY <1>3, <1>4, <2>1, <2>2 DEF SerialWork
    <3>3. SerialBad' /\ Fresh'
      BY <1>3, <1>4, <2>1, <2>2 DEF SerialBad, Fresh
    <3> QED
      BY <3>1, <3>2, <3>3
<1>8. OwnJob' /\ Left'
  BY <1>1, <1>3 DEF OwnJob, Left, Through, Ongoing, HoldPlaces, OpenPlaces, DrainPlaces, Threads
<1>9. Claims' /\ Disjoint'
  <2>1. \A u \in InCall \ {t} : chunk'[u] = chunk[u] /\ chunk[u] \cap chunk[t] = {}
    BY <1>2, <1>3 DEF Disjoint, InCall
  <2> QED
    BY <1>1, <1>2, <1>3, <1>5, <2>1 DEF Claims, Disjoint
<1>10. Covered'
  <2> SUFFICES ASSUME NEW r \in RowsOf(job[o])
               PROVE  /\ r >= Front => hits'[o][r] = 0
                      /\ r < Front => hits'[o][r] = 1 \/ \E u \in InCall' : r \in chunk'[u]
    BY <1>1, <1>3 DEF Covered, Ongoing, HoldPlaces, OpenPlaces, DrainPlaces, Threads
  <2>1. CASE r \in chunk[t]
    <3>1. r < Front /\ r \in Nat /\ Front \in Nat
      BY <1>2, <1>5, <2>1 DEF TypeOK, Front
    <3> QED
      BY <1>5, <2>1, <3>1
  <2>2. CASE r \notin chunk[t]
    BY <1>1, <1>3, <1>5, <2>2 DEF Covered, InCall
  <2> QED
    BY <2>1, <2>2
<1>11. Blamed'
  <2>1. FnHolds(o, chunk[t]) <=> chunk[t] \cap job[o].bad = {}
    BY DEF FnHolds
  <2>2. /\ ~ok' \/ InFail' # {} => Examined(o)' \cap job[o].bad # {}
        /\ ok' /\ Examined(o)' \cap job[o].bad # {} => InFail' # {}
    BY <1>1, <1>3, <1>6, <2>1 DEF Blamed
  <2> QED
    BY <1>1, <1>3, <2>2 DEF Blamed, Ongoing, HoldPlaces, OpenPlaces, DrainPlaces, Threads
<1> QED
  BY <1>7, <1>8, <1>9, <1>10, <1>11

\* The thread that met a bad row says so.
LEMMA StoreFalseWork ==
  ASSUME IInv, Work, NEW t \in Threads, StoreFalse(t)
  PROVE  Work'
<1> USE DEF IInv, StoreFalse, GoTo, Work
<1>1. /\ jobOwner \in Callers /\ pc[jobOwner] \in Ongoing
      /\ t \in Callers => t = jobOwner
      /\ \A c \in Callers : pc[c] \in Ongoing => c = jobOwner
  BY Inside DEF DrainPlaces
<1>2. /\ hits' = hits /\ job' = job /\ chunk' = chunk /\ n' = n /\ steal' = steal
      /\ jobOwner' = jobOwner /\ Front' = Front /\ ok' = FALSE
      /\ InCall' = InCall
      /\ \A u \in Threads \ {t} : pc'[u] = pc[u]
      /\ pc'[t] \in {"dec", "doneLock"}
      /\ \A c \in Callers : Examined(c)' = Examined(c)
  BY LeaveDrain DEF TypeOK, InCall, Front, Examined, DrainPlaces
<1>3. HitsCount' /\ SerialWork' /\ SerialBad' /\ Fresh'
  BY <1>1, <1>2 DEF HitsCount, SerialWork, SerialBad, Fresh, Threads
<1>4. OwnJob' /\ Left' /\ Claims' /\ Disjoint'
  BY <1>1, <1>2 DEF OwnJob, Left, Claims, Disjoint, Ongoing, HoldPlaces, OpenPlaces, DrainPlaces, Threads
<1>5. Covered'
  BY <1>1, <1>2 DEF Covered, Ongoing, HoldPlaces, OpenPlaces, DrainPlaces, Threads
<1>6. Examined(jobOwner) \cap job[jobOwner].bad # {}
  BY <1>1 DEF Blamed, InFail
<1>7. Blamed'
  BY <1>1, <1>2, <1>6 DEF Blamed, Ongoing, HoldPlaces, OpenPlaces, DrainPlaces, Threads
<1> QED
  BY <1>3, <1>4, <1>5, <1>7
-----------------------------------------------------------------------------
\* Both invariants together hold in every reachable state.
THEOREM WorkInductive == Spec => [](IInv /\ Work)
<1>1. IInv /\ Work /\ [Next]_vars => Work'
  <2> SUFFICES ASSUME IInv, Work, [Next]_vars PROVE Work'
    OBVIOUS
  <2>1. CASE \E c \in Callers : CallerStep(c)
    BY <2>1, QuietSteps, QuietKeeps, SerialCallWork, PublishWork DEF CallerStep
  <2>2. CASE \E c \in Callers, j \in Jobs : Submit(c, j)
    BY <2>2, SubmitWork
  <2>3. CASE \E w \in Workers : WorkerStep(w)
    BY <2>3, QuietSteps, QuietKeeps
  <2>4. CASE \E t \in Threads : Drain(t)
    BY <2>4, QuietSteps, QuietKeeps, TakeChunkWork, CallFnWork, StoreFalseWork DEF Drain
  <2>5. CASE \E t \in Threads : SpuriousWake(t)
    BY <2>5, QuietSteps, QuietKeeps
  <2>6. CASE UNCHANGED vars
    <3>1. Quiet
      BY <2>6 DEF vars, shared, Quiet, InCall, InFail
    <3> QED
      BY <3>1, QuietKeeps
  <2> QED
    BY <2>1, <2>2, <2>3, <2>4, <2>5, <2>6 DEF Next
<1> QED
  BY <1>1, WorkInit, Inductive, PTL DEF Spec

\* No row of a call goes to fn twice, whatever the interleaving of the threads
\* that claim chunks (batch_pool.hpp:99).
THEOREM RowsOnce == Spec => []EachRowOnce
<1>1. Work => EachRowOnce
  BY DEF Work, HitsCount, EachRowOnce
<1> QED
  BY <1>1, WorkInductive, PTL

\* When the holder has stopped waiting, nobody is at work on its rows: with
\* ok_ still true all were seen and are good.
LEMMA AnswerJustified ==
  ASSUME IInv, Work, NEW c \in Callers, pc[c] = "return"
  PROVE  /\ ok => Examined(c) = RowsOf(job[c]) /\ job[c].bad = {}
         /\ ~ok => Examined(c) \cap job[c].bad # {}
<1>1. InCall = {} /\ InFail = {}
  BY NobodyInside DEF IInv, Holds, JobOpen, HoldPlaces, OpenPlaces, DrainPlaces
<1>2. pc[c] \in Ongoing /\ pc[c] \in Through
  BY DEF Ongoing, Through, HoldPlaces
<1>3. CASE ok
  <2>1. Front \in Int /\ n \in Nat /\ Front >= n /\ RowsOf(job[c]) = 0 .. (n - 1)
    <3>1. TypeOK /\ n = job[c].n /\ (ok => Front >= n)
      BY <1>2 DEF IInv, Work, Left, OwnJob
    <3>2. n \in Nat /\ RowsOf(job[c]) = 0 .. (n - 1)
      BY <3>1, JobRows
    <3>3. Front \in Int
      BY <3>1 DEF TypeOK, Front
    <3> QED
      BY <1>3, <3>1, <3>2, <3>3
  <2>2. \A r \in RowsOf(job[c]) : hits[c][r] = 1
    BY <1>1, <1>2, <2>1 DEF Work, Covered
  <2>3. Examined(c) = RowsOf(job[c])
    BY <2>2 DEF Work, HitsCount, Examined
  <2>4. Examined(c) \cap job[c].bad = {}
    BY <1>1, <1>2, <1>3 DEF Work, Blamed
  <2>5. job[c].bad \subseteq RowsOf(job[c])
    BY JobRows DEF IInv
  <2> QED
    BY <1>3, <2>3, <2>4, <2>5
<1>4. CASE ~ok
  BY <1>2, <1>4 DEF Work, Blamed
<1> QED
  BY <1>3, <1>4

\* The serial path knows as much when it stops.
LEMMA SerialJustified ==
  ASSUME IInv, Work, NEW c \in Callers
  PROVE  /\ pc[c] = "serial" /\ chunk[c] = {} =>
               Examined(c) = RowsOf(job[c]) /\ job[c].bad = {}
         /\ pc[c] = "serial" /\ chunk[c] # {} =>
               chunk[c] \subseteq RowsOf(job[c]) \ Examined(c)
         /\ pc[c] = "serialFail" => Examined(c) \cap job[c].bad # {}
<1>1. CASE pc[c] = "serial"
  <2>1. PICK lo \in Nat :
            /\ chunk[c] = lo .. (NatMin(lo + StealOf(job[c]), job[c].n) - 1)
            /\ \A r \in RowsOf(job[c]) : hits[c][r] = IF r < lo THEN 1 ELSE 0
            /\ \A r \in job[c].bad : r >= lo
    BY <1>1 DEF Work, SerialWork
  <2>2. /\ job[c].n \in Nat /\ StealOf(job[c]) \in Nat /\ StealOf(job[c]) >= 1
        /\ job[c].bad \subseteq RowsOf(job[c]) /\ RowsOf(job[c]) = 0 .. (job[c].n - 1)
    BY JobRows DEF IInv
  <2>3. Examined(c) = {r \in RowsOf(job[c]) : r < lo}
    BY <2>1, <2>2 DEF Work, HitsCount, Examined
  <2>4. lo < job[c].n => lo \in chunk[c]
    BY <2>1, <2>2 DEF NatMin
  <2>5. ASSUME chunk[c] = {}
        PROVE  Examined(c) = RowsOf(job[c]) /\ job[c].bad = {}
    <3>1. \A r \in RowsOf(job[c]) : r < lo /\ ~(r >= lo)
      BY <2>2, <2>4, <2>5
    <3> QED
      BY <2>1, <2>2, <2>3, <3>1
  <2>6. chunk[c] \subseteq RowsOf(job[c]) \ Examined(c)
    BY <2>1, <2>2, <2>3 DEF NatMin
  <2> QED
    BY <1>1, <2>5, <2>6
<1>2. CASE pc[c] = "serialFail"
  BY <1>2 DEF Work, SerialBad
<1> QED
  BY <1>1, <1>2
-----------------------------------------------------------------------------
(* run() implements BatchJob.                                               *)

USE DEF Abstract!Rows, Abstract!NoReq

\* Both specifications start with nobody inside.
LEMMA AbstractInit == Init => Abstract!Init
  BY DEF Init, Abstract!Init, NoJob, Threads

\* A step that changes neither the calls, nor the counters, nor who is inside
\* run() is a stutter.
LEMMA AbstractStutter ==
  ASSUME UNCHANGED <<job, answer, hits>>,
         \A c \in Callers : pc'[c] = "idle" <=> pc[c] = "idle"
  PROVE  UNCHANGED Abstract!vars
  BY DEF Abstract!vars

\* A submitted call is a submitted job,
LEMMA AbstractSubmit ==
  ASSUME IInv, Work, NEW c \in Callers, NEW j \in Jobs, Submit(c, j)
  PROVE  Abstract!Submit(c, j)
<1> USE DEF Submit, GoTo
<1>1. /\ pc[c] = "idle" /\ pc'[c] # "idle"
      /\ \A d \in Callers \ {c} : pc'[d] = pc[d]
  BY DEF IInv, TypeOK, Threads
<1>2. /\ hits'[c] = [r \in RowsOf(j) |-> 0]
      /\ \A d \in Callers \ {c} : hits'[d] = hits[d]
  BY DEF Work, HitsCount
<1>3. {d \in Callers : pc'[d] # "idle"} = {d \in Callers : pc[d] # "idle"} \cup {c}
  BY <1>1
<1>4. [d \in Callers |-> {r \in DOMAIN hits'[d] : hits'[d][r] > 0}]
          = [[d \in Callers |-> {r \in DOMAIN hits[d] : hits[d][r] > 0}] EXCEPT ![c] = {}]
  <2>1. {r \in DOMAIN hits'[c] : hits'[c][r] > 0} = {}
    BY <1>2
  <2> QED
    BY <1>2, <2>1
<1> QED
  BY <1>1, <1>3, <1>4 DEF Abstract!Submit

\* A group of rows that fn has not seen goes to it.
LEMMA AbstractExamine ==
  ASSUME Work, NEW c \in Callers, NEW rows,
         rows # {}, rows \subseteq RowsOf(job[c]) \ Examined(c),
         hits' = Hit(c, rows), UNCHANGED <<job, answer>>,
         pc[c] # "idle",
         \A d \in Callers : pc'[d] = "idle" <=> pc[d] = "idle"
  PROVE  Abstract!Examine(c)
<1>1. /\ hits[c] \in [RowsOf(job[c]) -> 0 .. 1]
      /\ hits'[c] = [r \in RowsOf(job[c]) |-> IF r \in rows THEN hits[c][r] + 1 ELSE hits[c][r]]
      /\ \A d \in Callers \ {c} : hits'[d] = hits[d]
  BY DEF Work, HitsCount, Hit
<1>2. {r \in DOMAIN hits'[c] : hits'[c][r] > 0} = Examined(c) \cup rows
  BY <1>1 DEF Examined
<1>3. rows \in SUBSET (Abstract!Rows(job[c]) \ {r \in DOMAIN hits[c] : hits[c][r] > 0})
  BY DEF Examined, RowsOf
<1>4. [d \in Callers |-> {r \in DOMAIN hits'[d] : hits'[d][r] > 0}]
          = [[d \in Callers |-> {r \in DOMAIN hits[d] : hits[d][r] > 0}] EXCEPT ![c] = @ \cup rows]
  <2>1. \A d \in Callers :
            {r \in DOMAIN hits'[d] : hits'[d][r] > 0}
                = IF d = c THEN {r \in DOMAIN hits[c] : hits[c][r] > 0} \cup rows
                  ELSE {r \in DOMAIN hits[d] : hits[d][r] > 0}
    BY <1>1, <1>2 DEF Examined
  <2> QED
    BY <2>1
<1> QED
  BY <1>3, <1>4 DEF Abstract!Examine

\* A call returns with an answer that its rows justify.
LEMMA AbstractReturn ==
  ASSUME NEW c \in Callers, TypeOK, pc[c] # "idle", GoTo(c, "idle"), UNCHANGED <<job, hits>>,
         \/ /\ answer' = [answer EXCEPT ![c] = "true"]
            /\ Examined(c) = RowsOf(job[c]) /\ job[c].bad = {}
         \/ /\ answer' = [answer EXCEPT ![c] = "false"]
            /\ Examined(c) \cap job[c].bad # {}
  PROVE  Abstract!Return(c)
  BY DEF Abstract!Return, GoTo, Examined, RowsOf, TypeOK, Threads

\* and every other step a step of BatchJob or a stutter.
LEMMA AbstractStep ==
  ASSUME IInv, Work, [Next]_vars
  PROVE  [Abstract!Next]_(Abstract!vars)
<1> USE DEF IInv, GoTo
<1>1. ASSUME NEW c \in Callers, NEW j \in Jobs, Submit(c, j) PROVE Abstract!Next
  BY <1>1, AbstractSubmit DEF Abstract!Next
<1>2. ASSUME NEW c \in Callers, SerialCall(c) PROVE Abstract!Next
  <2>1. Abstract!Examine(c)
    BY <1>2, AbstractExamine, SerialJustified DEF SerialCall, TypeOK, Threads
  <2> QED
    BY <2>1 DEF Abstract!Next
<1>3. ASSUME NEW c \in Callers, SerialReturn(c) PROVE Abstract!Next
  <2>1. Abstract!Return(c)
    BY <1>3, AbstractReturn, SerialJustified DEF SerialReturn
  <2> QED
    BY <2>1 DEF Abstract!Next
<1>4. ASSUME NEW c \in Callers, ReturnOk(c) PROVE Abstract!Next
  <2>1. Abstract!Return(c)
    BY <1>4, AbstractReturn, AnswerJustified DEF ReturnOk
  <2> QED
    BY <2>1 DEF Abstract!Next
<1>5. ASSUME NEW t \in Threads, CallFn(t) PROVE Abstract!Next
  <2>1. /\ fnRef[t] = jobOwner /\ jobOwner \in Callers /\ pc[jobOwner] \in Ongoing
        /\ t \in InCall /\ (t \in Callers => t = jobOwner)
    BY <1>5, Inside DEF CallFn, DrainPlaces, InCall
  <2>2. chunk[t] # {} /\ chunk[t] \subseteq RowsOf(job[jobOwner]) \ Examined(jobOwner)
    BY <2>1, JobRows DEF Work, Claims, OwnJob, Examined
  <2>3. pc[jobOwner] # "idle" /\ \A d \in Callers : pc'[d] = "idle" <=> pc[d] = "idle"
    <3>1. /\ pc'[t] \in {"check", "fail"} /\ pc[t] = "call"
          /\ \A d \in Threads \ {t} : pc'[d] = pc[d]
      BY <1>5 DEF CallFn, TypeOK
    <3> HIDE DEF IInv
    <3> QED
      BY <2>1, <3>1 DEF Threads, Ongoing, HoldPlaces, OpenPlaces, DrainPlaces
  <2>4. PICK o \in Callers : o = jobOwner
    BY <2>1
  <2>5. Abstract!Examine(o)
    <3>1. hits' = Hit(o, chunk[t]) /\ UNCHANGED <<job, answer>>
      BY <1>5, <2>1, <2>4 DEF CallFn
    <3> HIDE DEF IInv
    <3> QED
      BY <2>2, <2>3, <2>4, <3>1, AbstractExamine
  <2> QED
    BY <2>5 DEF Abstract!Next
<1>6. ASSUME NEW c \in Callers,
             \/ LockJob(c) \/ Publish(c) \/ NotifyStart(c) \/ LockDone(c) \/ CheckDone(c)
             \/ BlockDone(c) \/ ClearFn(c)
      PROVE  UNCHANGED Abstract!vars
  BY <1>6, AbstractStutter DEF LockJob, Publish, NotifyStart, LockDone, CheckDone, BlockDone,
     ClearFn, TypeOK, Threads
<1>7. ASSUME NEW w \in Workers, WorkerStep(w) PROVE UNCHANGED Abstract!vars
  BY <1>7, AbstractStutter DEF WorkerStep, WorkerCheck, Decrement, LockSignal, SignalDone,
     DoneSleepers, TypeOK, Threads
<1>8. ASSUME NEW t \in Threads, EnterDrain(t) \/ CheckOk(t) \/ TakeChunk(t) \/ StoreFalse(t)
      PROVE  UNCHANGED Abstract!vars
  BY <1>8, AbstractStutter, LeaveDrain DEF EnterDrain, CheckOk, TakeChunk, StoreFalse, TypeOK,
     Threads, DrainPlaces
<1>9. ASSUME NEW t \in Threads, SpuriousWake(t) PROVE UNCHANGED Abstract!vars
  BY <1>9, AbstractStutter DEF SpuriousWake, TypeOK, Threads
<1>10. CASE UNCHANGED vars
  BY <1>10, AbstractStutter DEF vars
<1> QED
  BY <1>1, <1>2, <1>3, <1>4, <1>5, <1>6, <1>7, <1>8, <1>9, <1>10 DEF Next, CallerStep, Drain

\* run() answers true only when all rows were seen and are good, and false only
\* after a bad one: "the boolean result identical to the single-threaded"
\* (batch_verify.cpp:709-711) for any number of threads and callers.
THEOREM Implements == Spec => ImplementsJob
<1> QED
  BY AbstractInit, AbstractStep, WorkInductive, PTL DEF Spec, ImplementsJob, Abstract!Spec
=============================================================================
