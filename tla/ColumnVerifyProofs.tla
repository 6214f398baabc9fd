-------------------------- MODULE ColumnVerifyProofs -------------------------
(***************************************************************************)
(* Proofs about ColumnVerify, for any number of callers, any requests and  *)
(* any number of rows: its types, the exclusive use of the device, and     *)
(* that it keeps the promise of BatchVerdict.                              *)
(*                                                                         *)
(* The buffer has three writers, so that what it holds means something     *)
(* only at some places of a call: Marked and Summed say where and what.    *)
(***************************************************************************)
EXTENDS ColumnVerify, TLAPS

\* Past the entry a call has arguments that the entry accepted, and a device
\* only ever sees a buffer.
Accepted(c) ==
    /\ pc[c] # "idle" => request[c] \in Requests
    /\ pc[c] \notin {"idle", "entry"} => request[c].n # 0 /\ request[c].ok
    /\ pc[c] \in {"hook"} \cup DevicePlaces => request[c].out

\* Before a device starts and after it has failed nothing is counted.
Fresh(c) ==
    /\ pc[c] \in {"entry", "hook", "probe", "device", "submit", "pool"} => row[c] = 0
    /\ pc[c] \notin {"idle", "second"} => okAll[c]

\* The rows that a device or the second pass has been through are marked right.
Marked(c) ==
    pc[c] \in {"chunks", "second"} =>
        \A r \in DOMAIN out[c] : r < row[c] => out[c][r] = Mark(c, r)

\* The second pass has met no bad row exactly if all are ahead.
Summed(c) == pc[c] = "second" => (okAll[c] <=> \A r \in request[c].bad : row[c] <= r)

\* A call is in the pool with the rows of its request.
InPool(c) ==
    /\ c \in inside <=> pc[c] = "pool"
    /\ pc[c] = "pool" => job[c] = JobOf(request[c])

Local(c) == Accepted(c) /\ Fresh(c) /\ Marked(c) /\ Summed(c) /\ InPool(c)

\* What TypeOK leaves to the other parts: the domains, and the pool's variables.
Domains ==
    /\ DOMAIN out = Callers
    /\ row \in [Callers -> Nat]
    /\ inside \subseteq Callers
    /\ job \in [Callers -> {JobOf(a) : a \in Requests \cup {NoRequest}}]

IInv == TypeOK /\ Domains /\ \A c \in Callers : Local(c)

-----------------------------------------------------------------------------
(* One lemma per action; Frame is what they share: the other calls. *)

\* What is said of a call depends on its own variables.
LEMMA Frame ==
  ASSUME NEW x \in Callers, Local(x),
         pc'[x] = pc[x], request'[x] = request[x], out'[x] = out[x], row'[x] = row[x],
         okAll'[x] = okAll[x], job'[x] = job[x], x \in inside' <=> x \in inside
  PROVE  Local(x)'
BY DEF Local, Accepted, Fresh, Marked, Summed, InPool, Mark

LEMMA RequestTypes ==
  ASSUME NEW a \in Requests \cup {NoRequest}
  PROVE  /\ a.n \in Nat /\ a.bad \subseteq 0 .. (a.n - 1)
         /\ a.ok \in BOOLEAN /\ a.out \in BOOLEAN /\ a.columns \in BOOLEAN
<1>1. CASE a \in Requests
  BY <1>1, RequestsAssumption
<1>2. CASE a = NoRequest
  BY <1>2 DEF NoRequest
<1> QED
  BY <1>1, <1>2

LEMMA BufferRows ==
  ASSUME IInv, NEW c \in Callers, NEW r \in DOMAIN out[c]
  PROVE  r \in 0 .. (request[c].n - 1) /\ r \in Nat /\ request[c].n \in Nat /\ request[c].out
<1>1. out[c] \in [IF request[c].out THEN RowsOf(c) ELSE {} -> 0 .. 2]
  BY DEF IInv, TypeOK
<1>2. r \in RowsOf(c) /\ request[c].out
  BY <1>1
<1>3. request[c].n \in Nat
  BY RequestTypes DEF IInv, TypeOK
<1> QED
  BY <1>2, <1>3 DEF RowsOf, Rows

\* Writing marks leaves a buffer what it is: a mark for each row, if there is one.
LEMMA Filled ==
  ASSUME IInv, NEW c \in Callers, NEW mark \in 0 .. 2, Fill(c, mark), NEW x \in Callers
  PROVE  out'[x] \in [IF request[x].out THEN RowsOf(x) ELSE {} -> 0 .. 2]
<1>1. out[x] \in [IF request[x].out THEN RowsOf(x) ELSE {} -> 0 .. 2]
  BY DEF IInv, TypeOK
<1>2. CASE x = c
  <2>1. out'[c] = [r \in DOMAIN out[c] |-> mark]
    BY DEF Fill, IInv, Domains
  <2> QED
    BY <1>1, <1>2, <2>1
<1>3. CASE x # c
  BY <1>1, <1>3 DEF Fill, IInv, Domains
<1> QED
  BY <1>2, <1>3

LEMMA MarkedRows ==
  ASSUME IInv, NEW c \in Callers, NEW rows, MarkRows(c, rows)
  PROVE  /\ DOMAIN out' = Callers
         /\ \A x \in Callers \ {c} : out'[x] = out[x]
         /\ out'[c] \in [IF request[c].out THEN RowsOf(c) ELSE {} -> 0 .. 2]
         /\ DOMAIN out'[c] = DOMAIN out[c]
         /\ \A r \in DOMAIN out[c] : out'[c][r] = IF r \in rows THEN Mark(c, r) ELSE out[c][r]
<1>1. out[c] \in [IF request[c].out THEN RowsOf(c) ELSE {} -> 0 .. 2]
  BY DEF IInv, TypeOK
<1>2. out'[c] = [r \in DOMAIN out[c] |-> IF r \in rows THEN Mark(c, r) ELSE out[c][r]]
  BY DEF MarkRows, IInv, Domains
<1>3. \A r : Mark(c, r) \in 0 .. 2
  BY DEF Mark
<1> QED
  BY <1>1, <1>2, <1>3 DEF MarkRows, IInv, Domains

LEMMA Initially == Init => IInv
<1> SUFFICES ASSUME Init PROVE IInv
  OBVIOUS
<1>1. TypeOK
  BY CallersAssumption DEF Init, TypeOK, RowsOf, Rows, NoRequest, DevicePlaces, Places, Pool!Init
<1>2. Domains
  <2>1. Pool!NoReq = JobOf(NoRequest)
    BY DEF Pool!NoReq, JobOf, NoRequest
  <2>2. Pool!NoReq \in {JobOf(a) : a \in Requests \cup {NoRequest}}
    BY <2>1
  <2>3. job \in [Callers -> {JobOf(a) : a \in Requests \cup {NoRequest}}]
    BY <2>2 DEF Init, Pool!Init
  <2> QED
    BY <2>3 DEF Init, Domains, Pool!Init
<1>3. \A c \in Callers : Local(c)
  BY DEF Init, Local, Accepted, Fresh, Marked, Summed, InPool, DevicePlaces, Pool!Init
<1> QED
  BY <1>1, <1>2, <1>3 DEF IInv

LEMMA CallStep ==
  ASSUME IInv, NEW c \in Callers, NEW a \in Requests, Call(c, a)
  PROVE  IInv'
<1> USE DEF Call, GoTo, IInv
<1>1. TypeOK'
  BY RequestTypes DEF TypeOK, Domains, RowsOf, Rows, DevicePlaces, Places, gpu, pool
<1>2. Domains'
  BY DEF Domains, pool
<1>3. Local(c)'
  BY DEF TypeOK, Domains, Local, Accepted, Fresh, Marked, Summed, InPool, DevicePlaces, pool
<1>4. \A x \in Callers \ {c} : Local(x)'
  BY Frame DEF TypeOK, Domains, pool
<1> QED
  BY <1>1, <1>2, <1>3, <1>4

LEMMA EntryStep ==
  ASSUME IInv, NEW c \in Callers, Entry(c)
  PROVE  IInv'
<1> USE DEF Entry, Answer, GoTo, IInv
<1>1. TypeOK'
  <2>1. \A x \in Callers : out'[x] \in [IF request[x].out THEN RowsOf(x) ELSE {} -> 0 .. 2]
    <3>1. CASE Fill(c, 0)
      BY <3>1, Filled
    <3>2. CASE UNCHANGED out
      BY <3>2 DEF TypeOK
    <3> QED
      BY <3>1, <3>2
  <2>2. \A x \in Callers \ {c} : pc'[x] = pc[x]
    BY DEF TypeOK
  <2>3. pc'[c] \in {"idle", "hook", "submit"}
    BY DEF TypeOK
  <2>4. verdict' \in [Callers -> BOOLEAN]
    BY DEF TypeOK
  <2>5. pc' \in [Callers -> Places]
    BY DEF TypeOK, Places, DevicePlaces
  <2> QED
    BY <2>1, <2>2, <2>3, <2>4, <2>5 DEF TypeOK, RowsOf, Rows, DevicePlaces, gpu, pool
<1>2. Domains'
  BY DEF Domains, Fill, pool
<1>3. Local(c)'
  BY DEF TypeOK, Domains, Local, Accepted, Fresh, Marked, Summed, InPool, DevicePlaces, Accelerable, pool
<1>4. \A x \in Callers \ {c} : Local(x)'
  BY Frame DEF TypeOK, Domains, Fill, pool
<1> QED
  BY <1>1, <1>2, <1>3, <1>4

LEMMA LockGpuStep ==
  ASSUME IInv, NEW c \in Callers, LockGpu(c)
  PROVE  IInv'
<1> USE DEF LockGpu, GoTo, IInv
<1>1. TypeOK'
  BY CallersAssumption DEF TypeOK, Domains, RowsOf, Rows, DevicePlaces, Places, call, pool
<1>2. Domains'
  BY DEF Domains, call, pool
<1>3. Local(c)'
  BY DEF TypeOK, Domains, Local, Accepted, Fresh, Marked, Summed, InPool, DevicePlaces, call, pool
<1>4. \A x \in Callers \ {c} : Local(x)'
  BY Frame DEF TypeOK, Domains, call, pool
<1> QED
  BY <1>1, <1>2, <1>3, <1>4

LEMMA ProbeStep ==
  ASSUME IInv, NEW c \in Callers, Probe(c)
  PROVE  IInv'
<1> USE DEF Probe, Decline, GoTo, IInv
<1>1. TypeOK'
  BY CallersAssumption, BackendsAssumption DEF TypeOK, Domains, RowsOf, Rows, DevicePlaces, Places, pool
<1>2. Domains'
  BY DEF Domains, pool
<1>3. Local(c)'
  BY DEF TypeOK, Domains, Local, Accepted, Fresh, Marked, Summed, InPool, DevicePlaces, pool
<1>4. \A x \in Callers \ {c} : Local(x)'
  BY Frame DEF TypeOK, Domains, pool
<1> QED
  BY <1>1, <1>2, <1>3, <1>4
LEMMA DeviceStartStep ==
  ASSUME IInv, NEW c \in Callers, DeviceStart(c)
  PROVE  IInv'
<1> USE DEF DeviceStart, Fill, GoTo, IInv
<1>1. TypeOK'
  BY DEF TypeOK, Domains, RowsOf, Rows, DevicePlaces, Places, gpu, pool
<1>2. Domains'
  BY DEF Domains, pool
<1>3. Local(c)'
  <2>1. row'[c] = 0 /\ pc'[c] = "chunks"
    BY DEF TypeOK, Local, Fresh
  <2>2. \A r \in DOMAIN out'[c] : ~(r < row'[c])
    BY <2>1, Filled, RequestTypes DEF TypeOK, RowsOf, Rows
  <2> QED
    BY <2>1, <2>2 DEF Local, Accepted, Fresh, Marked, Summed, InPool, DevicePlaces, pool
<1>4. \A x \in Callers \ {c} : Local(x)'
  BY Frame DEF TypeOK, Domains, pool
<1> QED
  BY <1>1, <1>2, <1>3, <1>4

LEMMA DeviceChunkStep ==
  ASSUME IInv, NEW c \in Callers, DeviceChunk(c)
  PROVE  IInv'
<1> USE DEF IInv
<1>1. PICK next \in (row[c] + 1) .. request[c].n :
        row' = [row EXCEPT ![c] = next] /\ MarkRows(c, row[c] .. (next - 1))
  BY DEF DeviceChunk
<1>2. /\ pc[c] = "chunks" /\ row[c] < request[c].n
      /\ UNCHANGED <<pc, request, verdict, okAll, gpu, pool>>
  BY DEF DeviceChunk
<1>3. /\ row[c] \in Nat /\ next \in 0 .. request[c].n
      /\ row'[c] = next /\ \A x \in Callers \ {c} : row'[x] = row[x]
      /\ row' \in [Callers -> Nat]
  BY <1>1, RequestTypes DEF TypeOK, Domains
<1>4. TypeOK'
  BY <1>1, <1>2, <1>3, MarkedRows DEF TypeOK, RowsOf, gpu, pool
<1>5. Domains'
  BY <1>1, <1>2, <1>3, MarkedRows DEF Domains, pool
<1>6. Marked(c)'
  <2>1. \A r \in DOMAIN out[c] : r \in Nat
    BY BufferRows
  <2>2. ASSUME NEW r \in DOMAIN out[c], r < next
        PROVE  out'[c][r] = Mark(c, r)
    <3>1. CASE r < row[c]
      BY <1>1, <1>2, <1>3, <2>1, <3>1, MarkedRows DEF Local, Marked
    <3>2. CASE r \in row[c] .. (next - 1)
      BY <1>1, <3>2, MarkedRows
    <3> QED
      BY <1>3, <2>1, <2>2, <3>1, <3>2
  <2> QED
    BY <1>1, <1>2, <1>3, <2>2, MarkedRows DEF Marked, Mark
<1>7. Local(c)'
  BY <1>2, <1>6 DEF Local, Accepted, Fresh, Summed, InPool, DevicePlaces, pool
<1>8. \A x \in Callers \ {c} : Local(x)'
  BY <1>1, <1>2, <1>3, Frame, MarkedRows DEF pool
<1> QED
  BY <1>4, <1>5, <1>7, <1>8

LEMMA DeviceFailsStep ==
  ASSUME IInv, NEW c \in Callers, DeviceFails(c)
  PROVE  IInv'
<1> USE DEF DeviceFails, Decline, GoTo, IInv
<1>1. TypeOK'
  BY CallersAssumption, RequestTypes DEF TypeOK, Domains, RowsOf, Rows, DevicePlaces, Places, pool
<1>2. Domains'
  BY DEF Domains, pool
<1>3. Local(c)'
  BY DEF TypeOK, Domains, Local, Accepted, Fresh, Marked, Summed, InPool, DevicePlaces, pool
<1>4. \A x \in Callers \ {c} : Local(x)'
  BY Frame DEF TypeOK, Domains, pool
<1> QED
  BY <1>1, <1>2, <1>3, <1>4

LEMMA DeviceAnswerStep ==
  ASSUME IInv, NEW c \in Callers, DeviceAnswer(c)
  PROVE  IInv'
<1> USE DEF DeviceAnswer, Answer, GoTo, IInv
<1>1. TypeOK'
  BY CallersAssumption DEF TypeOK, Domains, RowsOf, Rows, DevicePlaces, Places, pool
<1>2. Domains'
  BY DEF Domains, pool
<1>3. Local(c)'
  BY DEF TypeOK, Domains, Local, Accepted, Fresh, Marked, Summed, InPool, DevicePlaces, pool
<1>4. \A x \in Callers \ {c} : Local(x)'
  BY Frame DEF TypeOK, Domains, pool
<1> QED
  BY <1>1, <1>2, <1>3, <1>4

LEMMA SubmitStep ==
  ASSUME IInv, NEW c \in Callers, Submit(c)
  PROVE  IInv'
<1> USE DEF Submit, GoTo, Pool!Submit, IInv
<1>1. TypeOK'
  BY DEF TypeOK, RowsOf, Rows, DevicePlaces, Places, call, gpu
<1>2. Domains'
  <2>1. JobOf(request[c]) \in {JobOf(a) : a \in Requests \cup {NoRequest}}
    BY DEF TypeOK
  <2> QED
    BY <2>1 DEF Domains, call
<1>3. Local(c)'
  BY DEF TypeOK, Domains, Local, Accepted, Fresh, Marked, Summed, InPool, DevicePlaces, call
<1>4. \A x \in Callers \ {c} : Local(x)'
  BY Frame DEF TypeOK, Domains, call
<1> QED
  BY <1>1, <1>2, <1>3, <1>4

LEMMA ExamineStep ==
  ASSUME IInv, NEW c \in Callers, Examine(c)
  PROVE  IInv'
<1> USE DEF Examine, Pool!Examine, IInv
<1>1. TypeOK'
  BY DEF TypeOK, RowsOf, Rows, call, gpu
<1>2. Domains'
  BY DEF Domains, call
<1>3. \A x \in Callers : Local(x)'
  BY Frame DEF call
<1> QED
  BY <1>1, <1>2, <1>3

LEMMA PoolReturnStep ==
  ASSUME IInv, NEW c \in Callers, PoolReturn(c)
  PROVE  IInv'
<1> USE DEF PoolReturn, Answer, GoTo, IInv
<1>1. Fill(c, 1) \/ UNCHANGED out
  OBVIOUS
<1>2. /\ poolAnswer' \in [Callers -> {"none", "true", "false"}]
      /\ inside' = inside \ {c} /\ UNCHANGED job
  BY DEF TypeOK, Pool!Return
<1>3. /\ pc' \in [Callers -> Places] /\ pc[c] = "pool" /\ pc'[c] \in {"idle", "second"}
      /\ \A x \in Callers \ {c} : pc'[x] = pc[x]
      /\ verdict' \in [Callers -> BOOLEAN]
  BY DEF TypeOK, Places
<1>4. TypeOK'
  <2>1. \A x \in Callers : out'[x] \in [IF request[x].out THEN RowsOf(x) ELSE {} -> 0 .. 2]
    BY <1>1, Filled DEF TypeOK
  <2> QED
    BY <1>2, <1>3, <2>1 DEF TypeOK, RowsOf, DevicePlaces, gpu
<1>5. Domains'
  BY <1>1, <1>2 DEF Domains, Fill
<1>6. Local(c)'
  <2>1. row'[c] = 0 /\ okAll'[c]
    BY <1>3 DEF Local, Fresh
  <2>2. CASE pc'[c] = "idle"
    BY <1>2, <2>2 DEF Local, Accepted, Fresh, Marked, Summed, InPool, DevicePlaces
  <2>3. CASE pc'[c] = "second"
    <3>1. \A r \in Rows(request[c]) : 0 <= r
      BY RequestTypes DEF TypeOK, Rows
    <3>2. Summed(c)'
      BY <2>1, <3>1, RequestTypes DEF TypeOK, Rows, Summed
    <3>3. out'[c] = out[c] \/ DOMAIN out'[c] \subseteq Rows(request[c])
      BY <1>1, Filled DEF RowsOf
    <3>4. DOMAIN out'[c] \subseteq Rows(request[c])
      BY <3>3 DEF TypeOK, RowsOf
    <3>5. Marked(c)'
      BY <2>1, <3>1, <3>4 DEF Marked, Rows
    <3> QED
      BY <1>2, <1>3, <2>1, <2>3, <3>2, <3>5 DEF Local, Accepted, Fresh, InPool, DevicePlaces
  <2> QED
    BY <1>3, <2>2, <2>3
<1>7. \A x \in Callers \ {c} : Local(x)'
  BY <1>1, <1>2, <1>3, Frame DEF Domains, Fill
<1> QED
  BY <1>4, <1>5, <1>6, <1>7

LEMMA SecondPassStep ==
  ASSUME IInv, NEW c \in Callers, SecondPass(c)
  PROVE  IInv'
<1> USE DEF SecondPass, IInv
<1>1. /\ row[c] \in Nat /\ row[c] < request[c].n /\ request[c].n \in Nat
      /\ row'[c] = row[c] + 1 /\ \A x \in Callers \ {c} : row'[x] = row[x]
      /\ row' \in [Callers -> Nat]
  BY RequestTypes DEF MoreRows, TypeOK, Domains
<1>2. /\ okAll' \in [Callers -> BOOLEAN]
      /\ okAll'[c] <=> okAll[c] /\ row[c] \notin request[c].bad
      /\ \A x \in Callers \ {c} : okAll'[x] = okAll[x]
  BY DEF TypeOK
<1>3. TypeOK'
  BY <1>1, <1>2, MarkedRows DEF TypeOK, RowsOf, gpu, pool
<1>4. Domains'
  BY <1>1, MarkedRows DEF Domains, pool
<1>5. Marked(c)'
  <2>1. \A r \in DOMAIN out[c] : r \in Nat
    BY BufferRows
  <2>2. ASSUME NEW r \in DOMAIN out[c], r < row[c] + 1
        PROVE  out'[c][r] = Mark(c, r)
    <3>1. r = row[c] \/ (r # row[c] /\ r < row[c])
      BY <1>1, <2>1, <2>2
    <3> QED
      BY <3>1, MarkedRows DEF Local, Marked
  <2> QED
    BY <1>1, <2>2, MarkedRows DEF Marked, Mark
<1>6. Summed(c)'
  <2>1. \A r \in request[c].bad : r \in Nat
    BY RequestTypes DEF TypeOK
  <2>2. okAll[c] <=> \A r \in request[c].bad : row[c] <= r
    BY DEF Local, Summed
  <2>3. (\A r \in request[c].bad : row[c] + 1 <= r)
          <=> (\A r \in request[c].bad : row[c] <= r) /\ row[c] \notin request[c].bad
    BY <1>1, <2>1
  <2> QED
    BY <1>1, <1>2, <2>2, <2>3 DEF Summed
<1>7. Local(c)'
  BY <1>5, <1>6 DEF Local, Accepted, Fresh, InPool, DevicePlaces, pool
<1>8. \A x \in Callers \ {c} : Local(x)'
  BY <1>1, <1>2, Frame, MarkedRows DEF pool
<1> QED
  BY <1>3, <1>4, <1>7, <1>8

LEMMA SecondReturnStep ==
  ASSUME IInv, NEW c \in Callers, SecondReturn(c)
  PROVE  IInv'
<1> USE DEF SecondReturn, Answer, GoTo, IInv
<1>1. TypeOK'
  BY DEF TypeOK, Domains, RowsOf, Rows, DevicePlaces, Places, gpu, pool
<1>2. Domains'
  BY DEF Domains, pool
<1>3. Local(c)'
  BY DEF TypeOK, Domains, Local, Accepted, Fresh, Marked, Summed, InPool, DevicePlaces, pool
<1>4. \A x \in Callers \ {c} : Local(x)'
  BY Frame DEF TypeOK, Domains, pool
<1> QED
  BY <1>1, <1>2, <1>3, <1>4

LEMMA IdleStep ==
  ASSUME IInv, InstallHook \/ UNCHANGED vars
  PROVE  IInv'
<1>1. UNCHANGED <<pc, call, backend, gpuOwner, pool>> /\ hook' \in BOOLEAN
  BY DEF InstallHook, vars, gpu, IInv, TypeOK
<1>2. TypeOK' /\ Domains'
  BY <1>1 DEF IInv, TypeOK, Domains, RowsOf, Rows, call, pool
<1>3. \A x \in Callers : Local(x)'
  BY <1>1, Frame DEF IInv, call, pool
<1> QED
  BY <1>2, <1>3 DEF IInv

THEOREM Inductive == Spec => []IInv
<1>1. IInv /\ [Next]_vars => IInv'
  BY CallStep, EntryStep, LockGpuStep, ProbeStep, DeviceStartStep, DeviceChunkStep, DeviceFailsStep,
     DeviceAnswerStep, SubmitStep, ExamineStep, PoolReturnStep, SecondPassStep, SecondReturnStep,
     IdleStep DEF Next, Step
<1> QED
  BY Initially, <1>1, PTL DEF Spec

\* TypeOK holds of every call, whatever the device does and whenever the hook
\* is cleared (gpu_engine_hook.cpp:81-97).
THEOREM TypeCorrect == Spec => []TypeOK
<1>1. IInv => TypeOK
  BY DEF IInv
<1> QED
  BY Inductive, <1>1, PTL
-----------------------------------------------------------------------------
(* The promise.  A step inside a call does not show; a return is right. *)

Busy(c) == pc[c] # "idle"

\* Only call c takes a step.
OnlyCall(c) ==
    /\ DOMAIN pc' = Callers
    /\ \A x \in Callers \ {c} : pc'[x] = pc[x] /\ out'[x] = out[x]

LEMMA Inside ==
  ASSUME NEW c \in Callers, OnlyCall(c), Busy(c), Busy(c)', UNCHANGED <<request, verdict>>
  PROVE  UNCHANGED Promise!vars
<1>1. \A x \in Callers : (pc'[x] # "idle") <=> (pc[x] # "idle")
  BY DEF OnlyCall, Busy
<1>2. \A x \in Callers : (IF pc'[x] = "idle" THEN out'[x] ELSE Hidden)
                       = (IF pc[x] = "idle" THEN out[x] ELSE Hidden)
  BY DEF OnlyCall, Busy
<1> QED
  BY <1>1, <1>2 DEF Promise!vars

LEMMA Returns ==
  ASSUME NEW c \in Callers, OnlyCall(c), Busy(c), ~Busy(c)', UNCHANGED request,
         verdict' = [verdict EXCEPT ![c] = Promise!Valid(request[c])],
         out'[c] = Promise!Marks(request[c])
  PROVE  Promise!Return(c)
<1>1. {x \in Callers : pc'[x] # "idle"} = {x \in Callers : pc[x] # "idle"} \ {c}
  BY DEF OnlyCall, Busy
<1>2. [x \in Callers |-> IF pc'[x] = "idle" THEN out'[x] ELSE Hidden]
        = [[x \in Callers |-> IF pc[x] = "idle" THEN out[x] ELSE Hidden]
              EXCEPT ![c] = Promise!Marks(request[c])]
  BY DEF OnlyCall, Busy
<1>3. c \in {x \in Callers : pc[x] # "idle"}
  BY DEF Busy
<1> QED
  BY <1>1, <1>2, <1>3 DEF Promise!Return

\* A buffer with the right mark for every row is the promised one.
LEMMA RightMarks ==
  ASSUME NEW a, NEW f, DOMAIN f = IF a.out THEN Rows(a) ELSE {}, f = [r \in DOMAIN f |-> f[r]],
         \A r \in DOMAIN f : f[r] = IF a.ok /\ r \notin a.bad THEN 1 ELSE 0
  PROVE  f = Promise!Marks(a)
BY DEF Promise!Marks, Promise!Rows, Rows

\* What the marks say when the device or the second pass is through.
LEMMA AllMarked ==
  ASSUME IInv, NEW c \in Callers, pc[c] \in {"chunks", "second"}, row[c] = request[c].n
  PROVE  /\ out[c] = Promise!Marks(request[c])
         /\ \A r \in DOMAIN out[c] : out[c][r] = Mark(c, r)
<1>1. out[c] \in [IF request[c].out THEN RowsOf(c) ELSE {} -> 0 .. 2]
  BY DEF IInv, TypeOK
<1>2. \A r \in DOMAIN out[c] : out[c][r] = Mark(c, r)
  BY BufferRows DEF IInv, Local, Marked
<1>3. request[c].ok
  BY DEF IInv, Local, Accepted
<1>4. \A r \in DOMAIN out[c] : out[c][r] = IF request[c].ok /\ r \notin request[c].bad THEN 1 ELSE 0
  BY <1>2, <1>3 DEF Mark
<1> QED
  BY <1>1, <1>2, <1>4, RightMarks DEF RowsOf

\* Filling a buffer with the mark that all its rows have.
LEMMA AllFilled ==
  ASSUME IInv, NEW c \in Callers, NEW mark \in {0, 1}, Fill(c, mark),
         \A r \in RowsOf(c) : mark = IF request[c].ok /\ r \notin request[c].bad THEN 1 ELSE 0
  PROVE  out'[c] = Promise!Marks(request[c])
<1>1. out[c] \in [IF request[c].out THEN RowsOf(c) ELSE {} -> 0 .. 2]
  BY DEF IInv, TypeOK
<1>2. out'[c] = [r \in DOMAIN out[c] |-> mark]
  BY DEF Fill, IInv, Domains
<1>3. DOMAIN out[c] = IF request[c].out THEN RowsOf(c) ELSE {}
  BY <1>1
<1>4. \A r \in DOMAIN out[c] : mark = IF request[c].ok /\ r \notin request[c].bad THEN 1 ELSE 0
  BY <1>3
<1> QED
  BY <1>2, <1>3, <1>4 DEF Promise!Marks, Promise!Rows, RowsOf, Rows

LEMMA CallPromised ==
  ASSUME IInv, NEW c \in Callers, NEW a \in Requests, Call(c, a)
  PROVE  Promise!Call(c, a)
<1>1. pc[c] = "idle" /\ pc' = [pc EXCEPT ![c] = "entry"] /\ UNCHANGED verdict
      /\ request' = [request EXCEPT ![c] = a]
      /\ \A x \in Callers \ {c} : out'[x] = out[x]
  BY DEF Call, GoTo, IInv, Domains
<1>2. c \notin {x \in Callers : pc[x] # "idle"}
  BY <1>1
<1>3. {x \in Callers : pc'[x] # "idle"} = {x \in Callers : pc[x] # "idle"} \cup {c}
  BY <1>1 DEF IInv, TypeOK
<1>4. [x \in Callers |-> IF pc'[x] = "idle" THEN out'[x] ELSE Hidden]
        = [[x \in Callers |-> IF pc[x] = "idle" THEN out[x] ELSE Hidden] EXCEPT ![c] = Hidden]
  BY <1>1 DEF IInv, TypeOK
<1> QED
  BY <1>1, <1>2, <1>3, <1>4 DEF Promise!Call

LEMMA EntryPromised ==
  ASSUME IInv, NEW c \in Callers, Entry(c)
  PROVE  UNCHANGED Promise!vars \/ Promise!Return(c)
<1>1. OnlyCall(c) /\ Busy(c) /\ UNCHANGED request
  BY DEF Entry, Answer, Fill, GoTo, OnlyCall, Busy, IInv, TypeOK, Domains
<1>2. CASE request[c].n = 0 /\ Answer(c, TRUE) /\ UNCHANGED out
  <2>1. \A r : r \notin DOMAIN out[c]
    BY <1>2, BufferRows
  <2>2. out[c] \in [IF request[c].out THEN RowsOf(c) ELSE {} -> 0 .. 2]
    BY DEF IInv, TypeOK
  <2>3. out[c] = Promise!Marks(request[c])
    BY <2>1, <2>2, RightMarks DEF RowsOf
  <2>4. Promise!Valid(request[c]) = TRUE
    BY <1>2 DEF Promise!Valid
  <2> QED
    BY <1>1, <1>2, <2>3, <2>4, Returns DEF Answer, GoTo, Busy, IInv, TypeOK
<1>3. CASE request[c].n # 0 /\ ~request[c].ok /\ Fill(c, 0) /\ Answer(c, FALSE)
  <2>1. out'[c] = Promise!Marks(request[c])
    BY <1>3, AllFilled
  <2>2. Promise!Valid(request[c]) = FALSE
    BY <1>3 DEF Promise!Valid
  <2> QED
    BY <1>1, <1>3, <2>1, <2>2, Returns DEF Answer, GoTo, Busy, IInv, TypeOK
<1>4. CASE GoTo(c, IF Accelerable(request[c]) /\ hook THEN "hook" ELSE "submit")
           /\ UNCHANGED <<out, verdict>>
  BY <1>1, <1>4, Inside DEF GoTo, Busy, IInv, TypeOK
<1> QED
  BY <1>2, <1>3, <1>4 DEF Entry

\* The device answers once it has marked all rows.
LEMMA DeviceAnswerPromised ==
  ASSUME IInv, NEW c \in Callers, DeviceAnswer(c)
  PROVE  Promise!Return(c)
<1>1. OnlyCall(c) /\ Busy(c) /\ ~Busy(c)' /\ UNCHANGED <<request, out>>
  BY DEF DeviceAnswer, Answer, GoTo, OnlyCall, Busy, IInv, TypeOK
<1>2. /\ out[c] = Promise!Marks(request[c])
      /\ \A r \in DOMAIN out[c] : out[c][r] = Mark(c, r)
  BY AllMarked DEF DeviceAnswer
<1>3. request[c].n # 0 /\ request[c].ok /\ request[c].bad \subseteq DOMAIN out[c]
  BY RequestTypes DEF DeviceAnswer, IInv, TypeOK, Local, Accepted, DevicePlaces, RowsOf, Rows
<1>4. (\A r \in DOMAIN out[c] : out[c][r] # 0) <=> request[c].bad = {}
  BY <1>2, <1>3 DEF Mark
<1>5. Promise!Valid(request[c]) = \A r \in DOMAIN out[c] : out[c][r] # 0
  BY <1>3, <1>4 DEF Promise!Valid
<1> QED
  BY <1>1, <1>2, <1>5, Returns DEF DeviceAnswer, Answer

LEMMA PoolReturnPromised ==
  ASSUME IInv, NEW c \in Callers, PoolReturn(c)
  PROVE  UNCHANGED Promise!vars \/ Promise!Return(c)
<1>1. OnlyCall(c) /\ Busy(c) /\ UNCHANGED request
  BY DEF PoolReturn, Answer, Fill, GoTo, OnlyCall, Busy, IInv, TypeOK, Domains
<1>2. CASE poolAnswer'[c] = "true"
  <2>1. Fill(c, 1) /\ Answer(c, TRUE)
    BY <1>2 DEF PoolReturn
  <2>2. request[c].ok /\ request[c].bad = {}
    <3>1. pc[c] = "pool" /\ Pool!Return(c)
      BY DEF PoolReturn
    <3>2. job[c].bad = {}
      BY <1>2, <3>1 DEF Pool!Return, IInv, TypeOK
    <3>3. job[c] = JobOf(request[c]) /\ request[c].ok
      BY <3>1 DEF IInv, Local, Accepted, InPool
    <3> QED
      BY <3>2, <3>3 DEF JobOf
  <2>3. out'[c] = Promise!Marks(request[c])
    BY <2>1, <2>2, AllFilled
  <2>4. Promise!Valid(request[c]) = TRUE
    BY <2>2 DEF Promise!Valid
  <2> QED
    BY <1>1, <2>1, <2>3, <2>4, Returns DEF Answer, GoTo, Busy, IInv, TypeOK
<1>3. CASE GoTo(c, "second") /\ UNCHANGED <<out, verdict>>
  BY <1>1, <1>3, Inside DEF GoTo, Busy, IInv, TypeOK
<1> QED
  BY <1>2, <1>3 DEF PoolReturn

\* The second pass ends with every row marked and every bad row counted.
LEMMA SecondReturnPromised ==
  ASSUME IInv, NEW c \in Callers, SecondReturn(c)
  PROVE  Promise!Return(c)
<1>1. OnlyCall(c) /\ Busy(c) /\ ~Busy(c)' /\ UNCHANGED <<request, out>>
  BY DEF SecondReturn, Answer, GoTo, OnlyCall, Busy, IInv, TypeOK
<1>2. request[c].n \in Nat /\ row[c] = request[c].n
  <2>1. request[c].n \in Nat /\ row[c] \in 0 .. request[c].n
    BY RequestTypes DEF IInv, TypeOK
  <2>2. ~(row[c] < request[c].n)
    BY DEF SecondReturn, MoreRows
  <2> QED
    BY <2>1, <2>2
<1>3. out[c] = Promise!Marks(request[c])
  BY <1>2, AllMarked DEF SecondReturn
<1>4. request[c].n # 0 /\ request[c].ok
  BY DEF SecondReturn, IInv, Local, Accepted
<1>5. request[c].bad \subseteq 0 .. (request[c].n - 1)
  BY RequestTypes DEF IInv, TypeOK
<1>6. okAll[c] <=> request[c].bad = {}
  BY <1>2, <1>5 DEF SecondReturn, IInv, Local, Summed
<1>7. Promise!Valid(request[c]) = okAll[c]
  BY <1>4, <1>6 DEF Promise!Valid, IInv, TypeOK
<1> QED
  BY <1>1, <1>3, <1>7, Returns DEF SecondReturn, Answer

\* The steps that leave a call where nobody looks.
LEMMA InnerStep ==
  ASSUME IInv, NEW c \in Callers,
         \/ LockGpu(c) \/ Probe(c) \/ DeviceStart(c) \/ DeviceChunk(c) \/ DeviceFails(c)
         \/ Submit(c) \/ Examine(c) \/ SecondPass(c)
  PROVE  UNCHANGED Promise!vars
<1>1. CASE LockGpu(c)
  BY <1>1, Inside DEF LockGpu, GoTo, call, OnlyCall, Busy, IInv, TypeOK
<1>2. CASE Probe(c)
  BY <1>2, Inside DEF Probe, Decline, GoTo, OnlyCall, Busy, IInv, TypeOK
<1>3. CASE DeviceStart(c)
  BY <1>3, Inside DEF DeviceStart, Fill, GoTo, OnlyCall, Busy, IInv, TypeOK, Domains
<1>4. CASE DeviceChunk(c)
  BY <1>4, Inside, MarkedRows DEF DeviceChunk, OnlyCall, Busy, IInv, TypeOK
<1>5. CASE DeviceFails(c)
  BY <1>5, Inside DEF DeviceFails, Decline, GoTo, OnlyCall, Busy, IInv, TypeOK
<1>6. CASE Submit(c)
  BY <1>6, Inside DEF Submit, GoTo, call, OnlyCall, Busy, IInv, TypeOK
<1>7. CASE Examine(c)
  BY <1>7, Inside DEF Examine, call, OnlyCall, Busy, IInv, TypeOK
<1>8. CASE SecondPass(c)
  BY <1>8, Inside, MarkedRows DEF SecondPass, OnlyCall, Busy, IInv, TypeOK
<1> QED
  BY <1>1, <1>2, <1>3, <1>4, <1>5, <1>6, <1>7, <1>8

\* Whatever has happened inside, a verifier returns what verifying each row
\* alone would: "Operational backend errors are declines (-1) -> CPU fallback,
\* never invalid rows" (batch_verify.hpp:119-122 and 159).
THEOREM Implements == Spec => ImplementsVerdict
<1>1. Init => Promise!Init
  <2> SUFFICES ASSUME Init PROVE Promise!Init
    OBVIOUS
  <2>1. [r \in {} |-> 0] = Promise!Marks(Promise!NoRequest)
    BY DEF Promise!Marks, Promise!NoRequest
  <2>2. {c \in Callers : pc[c] # "idle"} = {}
    BY DEF Init
  <2>3. [c \in Callers |-> IF pc[c] = "idle" THEN out[c] ELSE Hidden]
          = [c \in Callers |-> Promise!Marks(Promise!NoRequest)]
    BY <2>1 DEF Init
  <2>4. request = [c \in Callers |-> Promise!NoRequest]
    BY DEF Init, NoRequest, Promise!NoRequest
  <2> QED
    BY <2>2, <2>3, <2>4 DEF Init, Promise!Init
<1>2. ASSUME IInv, [Next]_vars
      PROVE  [Promise!Next]_(Promise!vars)
  <2>1. CASE UNCHANGED vars \/ InstallHook
    BY <2>1 DEF vars, call, InstallHook, Promise!vars
  <2>2. ASSUME NEW c \in Callers, NEW a \in Requests, Call(c, a)
        PROVE  Promise!Next
    BY <1>2, <2>2, CallPromised DEF Promise!Next
  <2>3. ASSUME NEW c \in Callers, Step(c)
        PROVE  UNCHANGED Promise!vars \/ Promise!Return(c)
    BY <1>2, <2>3, EntryPromised, DeviceAnswerPromised, PoolReturnPromised, SecondReturnPromised,
       InnerStep DEF Step
  <2> QED
    BY <1>2, <2>1, <2>2, <2>3 DEF Next, Promise!Next
<1> QED
  BY <1>1, <1>2, Inductive, PTL DEF Spec, ImplementsVerdict, Promise!Spec
===============================================================================
