-------------------------- MODULE LbtcBridgeProofs ---------------------------
(***************************************************************************)
(* Proofs about LbtcBridge, for any devices, any batches, any chunk size   *)
(* and any number of threads: its types, the contexts it owns, and what    *)
(* its verdicts mean, in the middle of a call and after it.                *)
(***************************************************************************)
EXTENDS LbtcBridge, FiniteSetTheorems, TLAPS

LoopPlaces == {"poll", "collect", "device", "cpu", "report"}
KeyPlaces == {"device keys", "generator", "workers"}

\* A call past its entry has arguments that the entry accepted.
Entered ==
    /\ at \in LoopPlaces => /\ request \in Requests /\ request.api # "keys"
                            /\ request.args
    /\ at \in KeyPlaces => /\ request \in Requests /\ request.api = "keys"
                           /\ request.args /\ request.out
    /\ at = "report" => request.api = "rows"
    /\ request.api = "keys" => base = 0

\* A loop that has ended has seen every row, or ran out of memory.
Over == at = "report" \/ (at = "idle" /\ status = "ok" /\ request.api # "keys" /\ request.args)
Ended == Over => oom \/ base >= request.n

\* The threads that are done have marked their good rows, and so has a call
\* that has returned.
Worked ==
    /\ at = "workers" /\ ~oom =>
          \A t \in (0 .. (Threads(request) - 1)) \ todo :
             Good(request) \cap RowsOf(request, t) \subseteq accepted
    /\ at = "idle" /\ status = "ok" /\ ~oom /\ request.api = "keys" /\ request.args
          /\ request.out => Good(request) \subseteq accepted

\* What the packed call has reported.
Reported ==
    at = "idle" /\ status = "ok" /\ ~oom /\ request.api = "rows" /\ request.args =>
        /\ report.count = Cardinality(request.bad)
        /\ report.idx = FirstOf(request.bad, request.cap)

IInv == TypeOK /\ Entered /\ Ended /\ FailClosed /\ VerdictsInOrder /\ Worked /\ Reported

-----------------------------------------------------------------------------
(* The arguments of a call. *)

LEMMA RequestTypes ==
  ASSUME NEW a \in Requests \cup {NoRequest}
  PROVE  /\ a.n \in Nat /\ a.bad \subseteq 0 .. (a.n - 1)
         /\ a.interval \in Nat \cup {NoToken}
<1>1. CASE a \in Requests
  BY <1>1, RequestsAssumption DEF Request
<1>2. CASE a = NoRequest
  BY <1>2 DEF NoRequest
<1> QED
  BY <1>1, <1>2

LEMMA ChunkTypes ==
  ASSUME NEW a \in Requests \cup {NoRequest}
  PROVE  ChunkSize(a) \in Nat /\ ChunkSize(a) > 0
BY RequestTypes, BoundsAssumption DEF ChunkSize

LEMMA ThreadTypes ==
  ASSUME NEW a \in Requests \cup {NoRequest}
  PROVE  Threads(a) \in Nat /\ Threads(a) > 0
BY RequestTypes, BoundsAssumption DEF Threads

\* The rows listed are rows of the set they are taken from.
LEMMA FirstOfSubset ==
  ASSUME NEW S, NEW cap
  PROVE  FirstOf(S, cap) \subseteq S
BY DEF FirstOf

\* No more rows are rejected than there are.
LEMMA Counted ==
  ASSUME NEW a \in Requests \cup {NoRequest}, NEW S \in SUBSET Rows(a)
  PROVE  Cardinality(S) \in 0 .. a.n
<1>1. a.n \in Nat
  BY RequestTypes
<1>2. IsFiniteSet(Rows(a)) /\ Cardinality(Rows(a)) = a.n
  <2>1. CASE a.n = 0
    <3>1. Rows(a) = {}
      BY <2>1 DEF Rows
    <3> QED
      BY <3>1, <2>1, FS_EmptySet
  <2>2. CASE a.n # 0
    <3>1. a.n - 1 \in Nat /\ 0 <= a.n - 1
      BY <2>2, <1>1
    <3>2. Cardinality(0 .. (a.n - 1)) = (a.n - 1) - 0 + 1 /\ IsFiniteSet(0 .. (a.n - 1))
      BY <3>1, FS_Interval
    <3> QED
      BY <3>1, <3>2, <1>1 DEF Rows
  <2> QED
    BY <2>1, <2>2
<1>3. IsFiniteSet(S) /\ Cardinality(S) <= Cardinality(Rows(a))
  BY <1>2, FS_Subset
<1>4. Cardinality(S) \in Nat
  BY <1>3, FS_CardinalityType
<1> QED
  BY <1>1, <1>2, <1>3, <1>4

\* The threads' ranges cover the rows: the shares are rounded up.
LEMMA Covered ==
  ASSUME NEW a \in Requests \cup {NoRequest}, NEW r \in Rows(a)
  PROVE  \E t \in 0 .. (Threads(a) - 1) : r \in RowsOf(a, t)
<1> DEFINE n == a.n
           T == Threads(a)
           s == Share(a)
           t == r \div s
<1>1. n \in Nat /\ T \in Nat /\ T > 0 /\ r \in Nat /\ r < n
  BY RequestTypes, ThreadTypes DEF Rows
<1>2. s = (n + T - 1) \div T
  BY DEF Share
<1> HIDE DEF n, T, s
<1>3. s \in Nat /\ T * s >= n /\ s > 0
  <2>1. s \in Nat /\ T * s <= n + T - 1 /\ n + T - 1 < T * s + T
    BY <1>1, <1>2, Z3
  <2>2. T * s \in Int
    BY <2>1, <1>1
  <2>3. T * s >= n
    BY <2>1, <2>2, <1>1
  <2>4. s # 0
    BY <2>3, <1>1
  <2> QED
    BY <2>1, <2>3, <2>4
<1>4. t \in Nat /\ t * s <= r /\ r < (t + 1) * s
  BY <1>1, <1>3, Z3
<1>5. t < T
  <2>1. SUFFICES ASSUME t >= T PROVE FALSE
    BY <1>1, <1>4
  <2> HIDE DEF t
  <2>2. t * s >= T * s
    BY <2>1, <1>1, <1>3, <1>4, Z3
  <2>3. t * s \in Int /\ T * s \in Int
    BY <1>1, <1>3, <1>4
  <2> QED
    BY <2>2, <2>3, <1>1, <1>3, <1>4
<1> HIDE DEF t
<1>6. r \in RowsOf(a, t)
  BY <1>4 DEF RowsOf, s
<1> QED
  BY <1>1, <1>4, <1>5, <1>6 DEF T

-----------------------------------------------------------------------------
(* The controller. *)

\* What the contexts are while a controller is made, too.
Owned ==
    /\ handle \in {"none", "making", "live"} /\ next \in 1 .. (Len(Devices) + 1)
    /\ handle = "none" => gpu = NoDevice /\ contexts = {}
    /\ handle # "none" => contexts = {Cpu} \cup ({gpu} \ {NoDevice})

LEMMA OwnedInit == Init => Owned
BY DevicesAssumption DEF Init, Owned

LEMMA OwnedStep ==
  ASSUME Owned, [Next]_vars
  PROVE  Owned'
<1>1. CASE UNCHANGED controller
  BY <1>1 DEF Owned, controller
<1>2. ASSUME NEW backend, Create(backend)
      PROVE  Owned'
  BY <1>2, DevicesAssumption DEF Owned, Create
<1>3. ASSUME NEW outcome \in {"absent", "unready", "ready"}, TryDevice(outcome)
      PROVE  Owned'
  <2>1. /\ handle = "making" /\ handle' = "making" /\ gpu = NoDevice
        /\ contexts = {Cpu} \cup ({gpu} \ {NoDevice})
        /\ next' \in 1 .. (Len(Devices) + 1)
        /\ Devices[next] \in Backends /\ Devices[next] # NoDevice
    BY <1>3, DevicesAssumption DEF Owned, TryDevice, Backends
  <2>2. CASE outcome \in {"absent", "unready"}
    BY <2>1, <2>2, <1>3 DEF Owned, TryDevice, Discarded
  <2>3. CASE outcome = "ready"
    BY <2>1, <2>3, <1>3 DEF Owned, TryDevice
  <2> QED
    BY <2>2, <2>3
<1>4. CASE CreateEnd
  BY <1>4 DEF Owned, CreateEnd
<1>5. CASE Destroy
  BY <1>5 DEF Owned, Destroy
<1>6. ASSUME NEW a \in Requests, EnterRows(a) \/ EnterColumns(a) \/ EnterKeys(a)
      PROVE  UNCHANGED controller
  BY <1>6 DEF EnterRows, EnterColumns, EnterKeys, Begin
<1>7. CASE \/ Poll \/ DeviceCollect \/ Device \/ CpuChunk \/ Report
           \/ DeviceKeys \/ Generator \/ Join
  BY <1>1, <1>7 DEF Poll, DeviceCollect, Device, CpuChunk, Report, DeviceKeys, Generator, Join,
                    Finish, Abandon, controller
<1>8. ASSUME NEW t \in todo, Worker(t)
      PROVE  UNCHANGED controller
  BY <1>8 DEF Worker
<1> QED
  BY <1>1, <1>2, <1>3, <1>4, <1>5, <1>6, <1>7, <1>8 DEF Next, vars

\* ctrl_create and ctrl_destroy account for every context, whichever devices
\* are missing or fail (ufsecp_libbitcoin.cpp:804-867).
THEOREM ContextsAccounted == Spec => []ContextsOwned
<1>1. Owned => ContextsOwned
  BY DEF Owned, ContextsOwned
<1> QED
  BY <1>1, OwnedInit, OwnedStep, PTL DEF Spec

-----------------------------------------------------------------------------
(* The calls: one lemma per action. *)

\* The rows of a chunk, and the verdicts it deserves.
LEMMA Chunks ==
  ASSUME IInv
  PROVE  /\ request \in Requests \cup {NoRequest}
         /\ ChunkSize(request) \in Nat /\ ChunkSize(request) > 0
         /\ Deserved \subseteq Good(request) \cap Chunk
         /\ Good(request) \subseteq Rows(request)
         /\ Rows(request) \subseteq Nat /\ base \in Nat /\ request.n \in Nat
<1>1. request \in Requests \cup {NoRequest} /\ base \in Nat
  BY DEF IInv, TypeOK
<1> QED
  BY <1>1, ChunkTypes, RequestTypes DEF Deserved, Good, Rows

\* The controller's actions are between calls, or before the first.
LEMMA ControllerStep ==
  ASSUME IInv, UNCHANGED call, TypeOK'
  PROVE  IInv'
<1> QED
  BY DEF IInv, call, Entered, Over, Ended, FailClosed, VerdictsInOrder, Worked, Reported,
         Readable, Frontier

LEMMA ControllerTypes ==
  ASSUME TypeOK, UNCHANGED call, handle' \in {"none", "making", "live"},
         wanted' \in {"auto", "gpu", "cpu"}, next' \in 1 .. (Len(Devices) + 1),
         gpu' \in Backends \cup {NoDevice}, contexts' \subseteq Backends \cup {Cpu}
  PROVE  TypeOK'
BY DEF TypeOK, call

LEMMA ControllerActions ==
  ASSUME IInv,
         \/ \E backend \in {"auto", "gpu", "cpu"} : Create(backend)
         \/ \E outcome \in {"absent", "unready", "ready"} : TryDevice(outcome)
         \/ CreateEnd \/ Destroy
  PROVE  IInv'
<1>0. TypeOK
  BY DEF IInv
<1>1. UNCHANGED call
  BY DEF Create, TryDevice, CreateEnd, Destroy
<1>2. ASSUME NEW backend \in {"auto", "gpu", "cpu"}, Create(backend)
      PROVE  TypeOK'
  BY <1>0, <1>1, <1>2, ControllerTypes, DevicesAssumption DEF TypeOK, Create
<1>3. ASSUME NEW outcome \in {"absent", "unready", "ready"}, TryDevice(outcome)
      PROVE  TypeOK'
  <2>1. /\ UNCHANGED <<handle, wanted>> /\ next' \in 1 .. (Len(Devices) + 1)
        /\ Devices[next] \in Backends
    BY <1>0, <1>3, DevicesAssumption DEF TypeOK, TryDevice, Backends
  <2>2. /\ gpu' \in {gpu, Devices[next]}
        /\ contexts' \subseteq contexts \cup {Devices[next]}
    BY <1>3 DEF TryDevice, Discarded
  <2> QED
    BY <1>0, <1>1, <2>1, <2>2, ControllerTypes DEF TypeOK
<1>4. CASE CreateEnd \/ Destroy
  <2>1. /\ UNCHANGED <<wanted, next>> /\ handle' \in {"none", "live"}
        /\ gpu' \in {gpu, NoDevice} /\ contexts' \subseteq contexts
    BY <1>4 DEF CreateEnd, Destroy
  <2>2. /\ wanted' \in {"auto", "gpu", "cpu"} /\ next' \in 1 .. (Len(Devices) + 1)
        /\ gpu' \in Backends \cup {NoDevice} /\ contexts' \subseteq Backends \cup {Cpu}
        /\ handle' \in {"none", "making", "live"}
    BY <1>0, <2>1 DEF TypeOK
  <2>3. TypeOK'
    BY <1>0, <1>1, <2>2, ControllerTypes
  <2> QED
    BY <1>1, <2>3, ControllerStep
<1> QED
  BY <1>1, <1>2, <1>3, <1>4, ControllerStep

\* The entries: a call begins with nothing accepted, or returns at once.
LEMMA EntryStep ==
  ASSUME IInv, NEW a \in Requests, EnterRows(a) \/ EnterColumns(a) \/ EnterKeys(a)
  PROVE  IInv'
<1>1. /\ UNCHANGED controller /\ request' = a /\ base' = 0 /\ todo' = {} /\ oom' = FALSE
      /\ report' = [count |-> 0, idx |-> {}]
  BY DEF EnterRows, EnterColumns, EnterKeys, Begin
<1>2. /\ a.n \in Nat /\ a.bad \subseteq Rows(a)
      /\ ChunkSize(a) \in Nat /\ ChunkSize(a) > 0 /\ Threads(a) \in Nat
      /\ a.n = 0 => Rows(a) = {} /\ a.bad = {}
  BY RequestTypes, ChunkTypes, ThreadTypes DEF Rows
<1>3. accepted' \subseteq Rows(a)
  BY <1>2 DEF EnterRows, EnterColumns, EnterKeys
<1>4. /\ at' \in {"idle", "poll", "device keys", "generator"}
      /\ status' \in {"ok", "null", "cancelled", "exception"}
  BY DEF EnterRows, EnterColumns, EnterKeys, Return, IInv, TypeOK
<1>5. at' # "idle" => /\ accepted' = {} /\ a.n > 0 /\ a.args
                      /\ at' = "poll" => a.api # "keys"
                      /\ at' # "poll" => a.api = "keys" /\ a.out
  BY DEF EnterRows, EnterColumns, EnterKeys, Return
<1>6. at' = "idle" /\ status' = "ok" =>
        /\ accepted' = {}
        /\ a.args => a.n = 0 \/ (a.api = "keys" /\ ~a.out)
  BY <1>2 DEF EnterRows, EnterColumns, EnterKeys, Return
<1>7. TypeOK'
  <2>1. report'.count = 0 /\ report'.idx = {}
    BY <1>1
  <2>2. UNCHANGED <<handle, wanted, next, gpu, contexts>>
    BY <1>1 DEF controller
  <2>3. at' \in Places /\ ~(at' \in {"collect", "device", "cpu"})
    BY <1>4 DEF Places
  <2>4. /\ handle' \in {"none", "making", "live"} /\ wanted' \in {"auto", "gpu", "cpu"}
        /\ next' \in 1 .. (Len(Devices) + 1) /\ gpu' \in Backends \cup {NoDevice}
        /\ contexts' \subseteq Backends \cup {Cpu}
    BY <2>2 DEF TypeOK, IInv
  <2>5. /\ request' \in Requests \cup {NoRequest} /\ base' \in Nat
        /\ accepted' \subseteq Rows(request') /\ oom' \in BOOLEAN
        /\ todo' \subseteq 0 .. (Threads(request') - 1) /\ todo' = {}
    BY <1>1, <1>3
  <2>6. report'.count \in 0 .. request'.n /\ report'.idx \subseteq Rows(request')
    BY <1>1, <1>2, <2>1
  <2> QED
    BY <1>4, <2>3, <2>4, <2>5, <2>6 DEF TypeOK
<1>8. Entered'
  BY <1>1, <1>4, <1>5 DEF Entered, LoopPlaces, KeyPlaces
<1>9. Ended'
  <2>1. at' # "report"
    BY <1>4
  <2>2. Over' => at' = "idle" /\ status' = "ok" /\ a.args /\ a.api # "keys"
    BY <1>1, <2>1, Zenon DEF Over
  <2>3. Over' => a.n = 0
    BY <1>6, <2>2
  <2> QED
    BY <1>1, <1>2, <2>3 DEF Ended
<1>10. FailClosed'
  BY <1>1, <1>5, <1>6 DEF FailClosed, Readable
<1>11. VerdictsInOrder'
  <2>1. Readable' => accepted' = {}
    BY <1>1, <1>5, <1>6 DEF Readable
  <2>2. ~\E r \in Rows(a) : r < 0
    BY <1>2 DEF Rows
  <2> QED
    BY <1>1, <2>1, <2>2 DEF VerdictsInOrder, Good
<1>12. Worked'
  BY <1>1, <1>2, <1>4, <1>6 DEF Worked, Good
<1>13. Reported'
  <2>1. CASE a.n = 0
    BY <1>1, <1>2, <2>1, FS_EmptySet DEF Reported, FirstOf
  <2>2. CASE a.n # 0
    BY <1>1, <1>6, <2>2 DEF Reported
  <2> QED
    BY <2>1, <2>2
<1> QED
  BY <1>7, <1>8, <1>9, <1>10, <1>11, <1>12, <1>13 DEF IInv

\* What every step of a call leaves alone.
LEMMA CallTypes ==
  ASSUME TypeOK, UNCHANGED <<controller, request>>, at' \in Places, base' \in Nat,
         at' \in {"collect", "device", "cpu"} => base' < request.n,
         accepted' \subseteq Rows(request),
         todo' \subseteq 0 .. (Threads(request) - 1), at' # "workers" => todo' = {},
         status' \in {"ok", "null", "cancelled", "exception"},
         report'.count \in 0 .. request.n /\ report'.idx \subseteq Rows(request),
         oom' \in BOOLEAN
  PROVE  TypeOK'
<1>1. /\ UNCHANGED <<handle, wanted, next, gpu, contexts, request>>
  BY DEF controller
<1> QED
  BY <1>1 DEF TypeOK

\* The top of the loop: on to the chunk, out of the loop, or cancelled.
LEMMA PollStep ==
  ASSUME IInv, Poll
  PROVE  IInv'
<1>1. /\ at = "poll" /\ UNCHANGED <<controller, request, base, accepted, todo, report, oom>>
  BY DEF Poll
<1>2. request \in Requests /\ request.api # "keys" /\ request.args
  BY <1>1 DEF IInv, Entered, LoopPlaces
<1>3. \/ base >= request.n /\ request.api = "rows" /\ at' = "report" /\ status' = status
      \/ base >= request.n /\ request.api # "rows" /\ at' = "idle" /\ status' = "ok"
      \/ at' = "idle" /\ status' = "cancelled"
      \/ base < request.n /\ at' \in {"collect", "device", "cpu"} /\ status' = status
  BY DEF Poll, LeaveLoop, Return, FirstPath
<1>4. TypeOK'
  <2>1. TypeOK /\ at' \in Places /\ at' # "workers"
        /\ (at' \in {"collect", "device", "cpu"} => base' < request.n)
        /\ status' \in {"ok", "null", "cancelled", "exception"}
    BY <1>1, <1>3 DEF IInv, TypeOK, Places
  <2> QED
    BY <1>1, <2>1, CallTypes DEF TypeOK
<1>5. Entered'
  BY <1>1, <1>2, <1>3 DEF Entered, LoopPlaces, KeyPlaces
<1>6. Ended'
  <2>1. Over' => base >= request.n
    BY <1>1, <1>3 DEF Over
  <2> QED
    BY <1>1, <2>1 DEF Ended
<1>7. FailClosed'
  BY <1>1 DEF IInv, FailClosed, Readable
<1>8. VerdictsInOrder'
  <2>1. ChunkSize(request) \in Nat /\ base \in Nat /\ Rows(request) \subseteq Nat
    BY Chunks
  <2>2. Frontier = base
    BY <1>1 DEF Frontier
  <2>3. Frontier' \in {base, base + ChunkSize(request)}
    BY <1>1 DEF Frontier
  <2>4. \A r \in Rows(request) : r >= Frontier' => r >= Frontier
    BY <2>1, <2>2, <2>3
  <2>5. VerdictsInOrder /\ Readable
    BY <1>1 DEF IInv, Readable
  <2> QED
    BY <1>1, <1>2, <2>4, <2>5 DEF VerdictsInOrder
<1>9. Worked'
  BY <1>1, <1>2, <1>3 DEF Worked
<1>10. Reported'
  <2>1. ~(at' = "idle" /\ status' = "ok" /\ request.api = "rows")
    BY <1>3
  <2> QED
    BY <1>1, <2>1 DEF Reported
<1> QED
  BY <1>4, <1>5, <1>6, <1>7, <1>8, <1>9, <1>10 DEF IInv

\* A chunk is done: what is marked in it is deserved, and all of it unless
\* memory ran out.
LEMMA FinishStep ==
  ASSUME IInv, NEW rows, rows \subseteq Deserved, Finish(rows),
         at \in {"collect", "device", "cpu"}
  PROVE  IInv'
<1>1. /\ UNCHANGED <<controller, request, todo, status, report>>
      /\ accepted' = Marked(rows) /\ base' = base + ChunkSize(request)
      /\ oom' = (oom \/ rows # Deserved) /\ at' = "poll"
  BY DEF Finish
<1>2. request \in Requests /\ request.api # "keys" /\ request.args
  BY DEF IInv, Entered, LoopPlaces
<1>3. /\ ChunkSize(request) \in Nat /\ base \in Nat /\ Rows(request) \subseteq Nat
      /\ Deserved \subseteq Good(request) \cap Chunk /\ Good(request) \subseteq Rows(request)
  BY Chunks
<1>4. accepted \subseteq Good(request)
  BY DEF IInv, FailClosed, Readable
<1>5. /\ accepted' \subseteq accepted \cup rows /\ rows \subseteq accepted'
      /\ accepted \ Chunk \subseteq accepted'
  BY <1>1 DEF Marked
<1>6. accepted' \subseteq Good(request)
  BY <1>3, <1>4, <1>5
<1>7. TypeOK'
  <2>1. TypeOK /\ todo' = {}
    BY <1>1 DEF IInv, TypeOK
  <2>3. at' \in Places /\ base' \in Nat
    BY <1>1, <1>3 DEF Places
  <2>2. oom' \in BOOLEAN
    BY <1>1, Zenon
  <2> QED
    BY <1>1, <1>3, <1>6, <2>1, <2>2, <2>3, CallTypes DEF TypeOK
<1>8. Entered'
  BY <1>1, <1>2 DEF Entered, LoopPlaces, KeyPlaces
<1>9. Ended'
  BY <1>1 DEF Ended, Over
<1>10. FailClosed'
  BY <1>1, <1>6 DEF FailClosed
<1>11. VerdictsInOrder'
  <2>1. VerdictsInOrder /\ Readable /\ Frontier = base + ChunkSize(request)
    BY DEF IInv, Readable, Frontier
  <2>2. Frontier' = base + ChunkSize(request)
    BY <1>1 DEF Frontier
  <2>3. ASSUME NEW r \in Rows(request), r >= Frontier'
        PROVE  r \notin accepted'
    <3>1. r \notin accepted
      BY <2>1, <2>2, <2>3, <1>2 DEF VerdictsInOrder
    <3>2. r \notin Chunk
      BY <2>2, <2>3, <1>3 DEF Chunk
    <3> QED
      BY <3>1, <3>2, <1>3, <1>5
  <2>4. ASSUME NEW r \in Good(request), r < base', ~oom'
        PROVE  r \in accepted'
    <3>1. ~oom /\ rows = Deserved
      BY <1>1, <2>4
    <3>2. CASE r \in Chunk
      BY <3>1, <3>2, <1>5, <1>3 DEF Deserved
    <3>3. CASE r \notin Chunk
      <4>1. r < base
        BY <3>3, <2>4, <1>1, <1>3 DEF Chunk
      <4>2. r \in accepted
        BY <4>1, <3>1, <2>1, <1>2, <1>3 DEF VerdictsInOrder
      <4> QED
        BY <4>2, <3>3, <1>5
    <3> QED
      BY <3>2, <3>3
  <2> QED
    BY <1>1, <1>6, <2>3, <2>4 DEF VerdictsInOrder
<1>12. Worked'
  BY <1>1 DEF Worked
<1>13. Reported'
  BY <1>1 DEF Reported
<1> QED
  BY <1>7, <1>8, <1>9, <1>10, <1>11, <1>12, <1>13 DEF IInv

\* Memory ran out: the loop is left with what has been marked so far.
LEMMA AbandonStep ==
  ASSUME IInv, Abandon, at \in {"collect", "device", "cpu"}
  PROVE  IInv'
<1>1. /\ UNCHANGED <<controller, request, base, accepted, todo, report>> /\ oom' = TRUE
      /\ \/ request.api = "rows" /\ at' = "report" /\ status' = status
         \/ request.api # "rows" /\ at' = "idle" /\ status' = "ok"
  BY DEF Abandon, LeaveLoop, Return
<1>2. request \in Requests /\ request.api # "keys" /\ request.args
  BY DEF IInv, Entered, LoopPlaces
<1>3. TypeOK'
  <2>1. TypeOK /\ at' \in Places /\ at' \notin {"collect", "device", "cpu"} /\ todo' = {}
        /\ status' \in {"ok", "null", "cancelled", "exception"}
    BY <1>1 DEF IInv, TypeOK, Places
  <2> QED
    BY <1>1, <2>1, CallTypes DEF TypeOK
<1>4. Entered'
  BY <1>1, <1>2 DEF Entered, LoopPlaces, KeyPlaces
<1>5. Ended'
  BY <1>1 DEF Ended
<1>6. FailClosed'
  BY <1>1 DEF IInv, FailClosed, Readable
<1>7. VerdictsInOrder'
  <2>1. VerdictsInOrder /\ Readable
    BY DEF IInv, Readable
  <2>2. Frontier' = Frontier
    BY <1>1 DEF Frontier
  <2> QED
    BY <1>1, <1>2, <2>1, <2>2 DEF VerdictsInOrder
<1>8. Worked'
  BY <1>1 DEF Worked
<1>9. Reported'
  BY <1>1 DEF Reported
<1> QED
  BY <1>3, <1>4, <1>5, <1>6, <1>7, <1>8, <1>9 DEF IInv

\* A device has failed: only the rows of the chunk may be marked otherwise,
\* and none of them falsely.
LEMMA FallbackStep ==
  ASSUME IInv, at \in {"collect", "device"}, at' \in {"device", "cpu"},
         UNCHANGED <<controller, request, base, todo, status, report, oom>>,
         accepted' \subseteq Good(request), accepted' \ Chunk = accepted \ Chunk
  PROVE  IInv'
<1>1. request \in Requests /\ request.api # "keys" /\ request.args
  BY DEF IInv, Entered, LoopPlaces
<1>2. /\ ChunkSize(request) \in Nat /\ base \in Nat /\ Rows(request) \subseteq Nat
      /\ Good(request) \subseteq Rows(request)
  BY Chunks
<1>3. TypeOK'
  <2>1. TypeOK /\ todo' = {} /\ base' < request.n
    BY DEF IInv, TypeOK
  <2>2. at' \in Places
    BY DEF Places
  <2> QED
    BY <1>2, <2>1, <2>2, CallTypes DEF TypeOK
<1>4. Entered'
  BY <1>1 DEF Entered, LoopPlaces, KeyPlaces
<1>5. Ended'
  BY DEF Ended, Over
<1>6. FailClosed'
  BY DEF FailClosed
<1>7. VerdictsInOrder'
  <2>1. VerdictsInOrder /\ Readable /\ Frontier = base + ChunkSize(request)
    BY DEF IInv, Readable, Frontier
  <2>2. Frontier' = base + ChunkSize(request)
    BY DEF Frontier
  <2>3. \A r \in Rows(request) :
           r < base \/ r >= base + ChunkSize(request) => (r \in accepted' <=> r \in accepted)
    BY <1>2 DEF Chunk
  <2> QED
    BY <1>1, <1>2, <2>1, <2>2, <2>3 DEF VerdictsInOrder
<1>8. Worked'
  BY DEF Worked
<1>9. Reported'
  BY DEF Reported
<1> QED
  BY <1>3, <1>4, <1>5, <1>6, <1>7, <1>8, <1>9 DEF IInv

LEMMA LoopStep ==
  ASSUME IInv, DeviceCollect \/ Device \/ CpuChunk
  PROVE  IInv'
<1>1. Deserved \subseteq Good(request) /\ accepted \subseteq Good(request)
  <2>1. at # "idle"
    BY DEF DeviceCollect, Device, CpuChunk
  <2> QED
    BY <2>1, Chunks DEF IInv, FailClosed, Readable
<1>2. at \in {"collect", "device", "cpu"}
  BY DEF DeviceCollect, Device, CpuChunk
<1>3. CASE Abandon
  BY <1>2, <1>3, AbandonStep
<1>4. CASE Finish(Deserved)
  BY <1>2, <1>4, FinishStep
<1>5. CASE DeviceCollect
  BY <1>1, <1>3, <1>4, <1>5, FallbackStep DEF DeviceCollect
<1>6. CASE Device
  <2>1. ASSUME NEW left \in Leftovers, at' = "cpu", at = "device",
               accepted' = (accepted \ Chunk) \cup left,
               UNCHANGED <<controller, request, base, todo, status, report, oom>>
        PROVE  IInv'
    <3>1. left \subseteq Good(request) /\ left \subseteq Chunk
      BY <1>1, Chunks DEF Leftovers
    <3> QED
      BY <1>1, <2>1, <3>1, FallbackStep
  <2> QED
    BY <1>3, <1>4, <1>6, <2>1 DEF Device
<1>7. CASE CpuChunk
  <2>1. ASSUME NEW rows \in CpuVerdicts, Finish(rows)
        PROVE  IInv'
    <3>1. rows \subseteq Deserved
      BY <2>1 DEF CpuVerdicts
    <3> QED
      BY <1>2, <2>1, <3>1, FinishStep
  <2> QED
    BY <1>3, <1>7, <2>1 DEF CpuChunk
<1> QED
  BY <1>5, <1>6, <1>7

\* All rows have been seen, or memory ran out: what is not accepted is listed.
LEMMA ReportStep ==
  ASSUME IInv, Report
  PROVE  IInv'
<1>1. /\ at = "report" /\ at' = "idle" /\ status' = "ok"
      /\ report' = [count |-> Cardinality(Rejected), idx |-> FirstOf(Rejected, request.cap)]
      /\ UNCHANGED <<controller, request, base, accepted, todo, oom>>
  BY DEF Report, Return
<1>2. request \in Requests /\ request.api = "rows" /\ request.args
  BY <1>1 DEF IInv, Entered, LoopPlaces
<1>3. /\ ChunkSize(request) \in Nat /\ base \in Nat /\ Rows(request) \subseteq Nat
      /\ request.n \in Nat
  BY Chunks
<1>4. TypeOK'
  <2>1. TypeOK /\ at' \in Places /\ at' # "workers" /\ todo' = {}
        /\ at' \notin {"collect", "device", "cpu"}
    BY <1>1 DEF IInv, TypeOK, Places
  <2>2. Rejected \subseteq Rows(request)
    BY DEF Rejected
  <2>3. Cardinality(Rejected) \in 0 .. request.n
    BY <1>2, <2>2, Counted
  <2>4. report'.count \in 0 .. request.n /\ report'.idx \subseteq Rows(request)
    BY <1>1, <2>2, <2>3, FirstOfSubset
  <2>5. UNCHANGED <<controller, request>> /\ base' \in Nat
        /\ accepted' \subseteq Rows(request) /\ oom' \in BOOLEAN
    BY <1>1, <2>1 DEF TypeOK
  <2>6. status' \in {"ok", "null", "cancelled", "exception"}
        /\ todo' \subseteq 0 .. (Threads(request) - 1)
    BY <1>1, <2>1
  <2> QED
    BY <2>1, <2>4, <2>5, <2>6, CallTypes
<1>5. Entered'
  BY <1>1, <1>2 DEF Entered, LoopPlaces, KeyPlaces
<1>6. Ended'
  BY <1>1 DEF IInv, Ended, Over
<1>7. FailClosed'
  BY <1>1 DEF IInv, FailClosed, Readable
<1>8. VerdictsInOrder /\ Readable /\ Frontier' = Frontier
  BY <1>1 DEF IInv, Readable, Frontier
<1>9. VerdictsInOrder'
  BY <1>1, <1>2, <1>8 DEF VerdictsInOrder
<1>10. Worked'
  BY <1>1, <1>2 DEF Worked
<1>11. Reported'
  <2>1. SUFFICES ASSUME ~oom
                 PROVE  Rejected = request.bad
    BY <1>1, <1>2 DEF Reported
  <2>2. base >= request.n
    BY <1>1, <2>1 DEF IInv, Ended, Over
  <2>3. Good(request) \subseteq accepted
    BY <2>1, <2>2, <1>2, <1>3, <1>8 DEF VerdictsInOrder, Good, Rows
  <2>4. accepted \subseteq Good(request)
    BY <1>8 DEF IInv, FailClosed
  <2>5. request.bad \subseteq Rows(request)
    BY <1>2, RequestTypes DEF Rows
  <2> QED
    BY <2>3, <2>4, <2>5 DEF Rejected, Good
<1> QED
  BY <1>4, <1>5, <1>6, <1>7, <1>9, <1>10, <1>11 DEF IInv

\* What is common to the steps of the calls that take keys and commitments.
LEMMA KeysStep ==
  ASSUME IInv, at \in KeyPlaces, at' \in {"idle", "generator", "workers"},
         UNCHANGED <<controller, request, base, report>>,
         accepted' \subseteq Good(request),
         todo' \subseteq 0 .. (Threads(request) - 1), at' # "workers" => todo' = {},
         status' \in {"ok", "null", "cancelled", "exception"}, oom' \in BOOLEAN,
         Worked'
  PROVE  IInv'
<1>1. request \in Requests /\ request.api = "keys" /\ request.args /\ request.out /\ base = 0
  BY DEF IInv, Entered
<1>2. TypeOK'
  <2>1. Good(request) \subseteq Rows(request)
    BY DEF Good
  <2>2. TypeOK /\ at' \in Places /\ base' \in Nat /\ at' \notin {"collect", "device", "cpu"}
    BY DEF IInv, TypeOK, Places
  <2>3. report'.count \in 0 .. request.n /\ report'.idx \subseteq Rows(request)
    BY <2>2 DEF TypeOK
  <2> QED
    BY <2>1, <2>2, <2>3, CallTypes
<1>3. Entered'
  BY <1>1 DEF Entered, LoopPlaces, KeyPlaces
<1>4. Ended'
  BY <1>1 DEF Ended, Over
<1>5. FailClosed'
  BY DEF FailClosed
<1>6. VerdictsInOrder'
  BY <1>1 DEF VerdictsInOrder
<1>7. Reported'
  BY <1>1 DEF Reported
<1> QED
  BY <1>2, <1>3, <1>4, <1>5, <1>6, <1>7 DEF IInv

LEMMA DeviceKeysStep ==
  ASSUME IInv, DeviceKeys
  PROVE  IInv'
<1>1. /\ at \in KeyPlaces /\ at = "device keys"
      /\ UNCHANGED <<controller, request, base, todo, report, oom>>
  BY DEF DeviceKeys, controller, KeyPlaces
<1>2. accepted \subseteq Good(request) /\ todo = {} /\ oom \in BOOLEAN
      /\ status \in {"ok", "null", "cancelled", "exception"}
  BY <1>1 DEF IInv, FailClosed, Readable, TypeOK
<1>3. CASE accepted' = Good(request) /\ at' = "idle" /\ status' = "ok"
  <2>1. Worked'
    BY <1>1, <1>3 DEF Worked
  <2> QED
    BY <1>1, <1>2, <1>3, <2>1, KeysStep
<1>4. CASE accepted' = {} /\ at' = "generator" /\ status' = status
  <2>1. Worked'
    BY <1>4 DEF Worked
  <2> QED
    BY <1>1, <1>2, <1>4, <2>1, KeysStep
<1>5. CASE at' = "idle" /\ status' = "exception" /\ accepted' = accepted
  <2>1. Worked'
    BY <1>5 DEF Worked
  <2> QED
    BY <1>1, <1>2, <1>5, <2>1, KeysStep
<1> QED
  BY <1>3, <1>4, <1>5 DEF DeviceKeys, Return, Wiped

LEMMA GeneratorStep ==
  ASSUME IInv, Generator
  PROVE  IInv'
<1>1. /\ at \in KeyPlaces /\ at = "generator"
      /\ UNCHANGED <<controller, request, base, accepted, report>>
  BY DEF Generator, controller, KeyPlaces
<1>2. accepted \subseteq Good(request) /\ todo = {} /\ oom \in BOOLEAN
      /\ status \in {"ok", "null", "cancelled", "exception"}
  BY <1>1 DEF IInv, FailClosed, Readable, TypeOK
<1>3. CASE /\ at' = "workers" /\ todo' = 0 .. (Threads(request) - 1)
           /\ status' = status /\ oom' = oom
  <2>1. Worked'
    BY <1>1, <1>3 DEF Worked
  <2> QED
    BY <1>1, <1>2, <1>3, <2>1, KeysStep
<1>4. CASE at' = "idle" /\ status' = "ok" /\ oom' = TRUE /\ todo' = todo
  <2>1. Worked'
    BY <1>4 DEF Worked
  <2> QED
    BY <1>1, <1>2, <1>4, <2>1, KeysStep
<1> QED
  BY <1>3, <1>4 DEF Generator, Return

\* A thread marks good rows of its range: all, unless it lacked memory.
LEMMA WorkerStep ==
  ASSUME IInv, NEW t \in todo, Worker(t)
  PROVE  IInv'
<1> DEFINE deserved == Good(request) \cap RowsOf(request, t)
<1>1. /\ at \in KeyPlaces /\ at = "workers" /\ at' = "workers" /\ todo' = todo \ {t}
      /\ UNCHANGED <<controller, request, base, status, report>>
  BY DEF Worker, controller, KeyPlaces
<1>2. PICK rows \in SUBSET deserved :
         accepted' = accepted \cup rows /\ oom' = (oom \/ rows # deserved)
  BY DEF Worker
<1>3. accepted \subseteq Good(request) /\ todo \subseteq 0 .. (Threads(request) - 1)
      /\ status \in {"ok", "null", "cancelled", "exception"}
  BY <1>1 DEF IInv, FailClosed, Readable, TypeOK
<1>4. oom' \in BOOLEAN
  BY <1>2, Zenon
<1>5. Worked'
  <2>1. SUFFICES ASSUME ~oom', NEW u \in (0 .. (Threads(request) - 1)) \ todo'
                 PROVE  Good(request) \cap RowsOf(request, u) \subseteq accepted'
    BY <1>1 DEF Worked
  <2>2. ~oom /\ rows = deserved
    BY <1>2, <2>1
  <2>3. CASE u = t
    BY <1>2, <2>2, <2>3
  <2>4. CASE u # t
    <3>1. u \in (0 .. (Threads(request) - 1)) \ todo
      BY <1>1, <2>1, <2>4
    <3> QED
      BY <1>1, <1>2, <2>2, <3>1 DEF IInv, Worked
  <2> QED
    BY <2>3, <2>4
<1> QED
  BY <1>1, <1>2, <1>3, <1>4, <1>5, KeysStep

\* When all threads are done every row has been looked at.
LEMMA JoinStep ==
  ASSUME IInv, Join
  PROVE  IInv'
<1>1. /\ at \in KeyPlaces /\ at = "workers" /\ at' = "idle" /\ status' = "ok" /\ todo = {}
      /\ UNCHANGED <<controller, request, base, accepted, todo, report, oom>>
  BY DEF Join, Return, controller, KeyPlaces
<1>2. accepted \subseteq Good(request) /\ oom \in BOOLEAN
      /\ request \in Requests \cup {NoRequest}
  BY <1>1 DEF IInv, FailClosed, Readable, TypeOK
<1>3. Worked'
  <2>1. SUFFICES ASSUME ~oom, NEW r \in Good(request)
                 PROVE  r \in accepted
    BY <1>1 DEF Worked
  <2>2. r \in Rows(request)
    BY DEF Good
  <2>3. PICK t \in 0 .. (Threads(request) - 1) : r \in RowsOf(request, t)
    BY <1>2, <2>2, Covered
  <2>4. Good(request) \cap RowsOf(request, t) \subseteq accepted
    BY <1>1, <2>1, <2>3 DEF IInv, Worked
  <2> QED
    BY <2>3, <2>4
<1> QED
  BY <1>1, <1>2, <1>3, KeysStep

-----------------------------------------------------------------------------
(* The theorems. *)

LEMMA Initial == Init => IInv
<1> SUFFICES ASSUME Init PROVE IInv
  OBVIOUS
<1>1. /\ request = NoRequest /\ Rows(request) = {} /\ NoRequest.n = 0 /\ NoRequest.bad = {}
      /\ NoRequest.api = "rows" /\ ~NoRequest.out
  BY DEF Init, NoRequest, Rows
<1>2. /\ at = "idle" /\ base = 0 /\ accepted = {} /\ todo = {} /\ status = "ok" /\ ~oom
      /\ report.count = 0 /\ report.idx = {} /\ Cardinality({}) = 0
  BY FS_EmptySet DEF Init
<1>3. TypeOK
  <2>1. /\ handle = "none" /\ wanted = "auto" /\ next = 1 /\ gpu = NoDevice /\ contexts = {}
        /\ oom = FALSE
    BY DEF Init
  <2>2. /\ handle \in {"none", "making", "live"} /\ wanted \in {"auto", "gpu", "cpu"}
        /\ next \in 1 .. (Len(Devices) + 1) /\ gpu \in Backends \cup {NoDevice}
        /\ contexts \subseteq Backends \cup {Cpu}
    BY <2>1, DevicesAssumption
  <2>4. oom \in BOOLEAN
    BY <2>1
  <2>3. /\ at \in Places /\ at \notin {"collect", "device", "cpu"}
        /\ status \in {"ok", "null", "cancelled", "exception"}
        /\ request.n = 0 /\ report.count \in 0 .. request.n
    BY <1>1, <1>2 DEF Places
  <2> QED
    BY <1>1, <1>2, <2>2, <2>3, <2>4 DEF TypeOK
<1>4. Entered /\ Ended /\ Worked
  BY <1>1, <1>2 DEF Entered, LoopPlaces, KeyPlaces, Ended, Over, Worked
<1>5. FailClosed /\ VerdictsInOrder
  BY <1>1, <1>2 DEF FailClosed, VerdictsInOrder, Good
<1>6. Reported
  BY <1>1, <1>2 DEF Reported, FirstOf
<1> QED
  BY <1>3, <1>4, <1>5, <1>6 DEF IInv

LEMMA Inductive == IInv /\ [Next]_vars => IInv'
<1> SUFFICES ASSUME IInv, [Next]_vars PROVE IInv'
  OBVIOUS
<1>1. CASE UNCHANGED vars
  <2>1. UNCHANGED call /\ UNCHANGED controller
    BY <1>1 DEF vars, call, controller
  <2>2. TypeOK'
    BY <2>1, ControllerTypes DEF IInv, TypeOK, controller
  <2> QED
    BY <2>1, <2>2, ControllerStep
<1> QED
  BY <1>1, ControllerActions, EntryStep, PollStep, LoopStep, ReportStep, DeviceKeysStep,
     GeneratorStep, WorkerStep, JoinStep DEF Next

LEMMA Invariant == Spec => []IInv
BY Initial, Inductive, PTL DEF Spec

\* The types of the bridge's state, for any batches (ufsecp_libbitcoin.cpp).
THEOREM TypeCorrect == Spec => []TypeOK
BY Invariant, PTL DEF IInv

\* No row is ever falsely accepted: neither a device that fails half way nor
\* memory running out nor a cancellation marks a bad row
\* (ufsecp_libbitcoin.cpp:606-615).
THEOREM NeverFalselyAccepted == Spec => []FailClosed
BY Invariant, PTL DEF IInv

\* A batch that is cancelled, or left, is a prefix of whole chunks
\* (ufsecp_libbitcoin.cpp:625-653).
THEOREM ChunksInOrder == Spec => []VerdictsInOrder
BY Invariant, PTL DEF IInv

\* A call that returns OK and had the memory it needed has given every row its
\* verdict, whatever devices failed, and however many rows and threads there
\* were (ufsecp_libbitcoin.cpp:761-793, 1149-1202).
THEOREM VerdictsExact == Spec => []ExactWhenComplete
<1>1. IInv => ExactWhenComplete
  <2>1. SUFFICES ASSUME IInv, at = "idle", status = "ok", ~oom, request.args,
                        request.api = "keys" => request.out
                 PROVE  /\ accepted = Good(request)
                        /\ request.api = "rows" =>
                              /\ report.count = Cardinality(request.bad)
                              /\ report.idx = FirstOf(request.bad, request.cap)
    BY DEF ExactWhenComplete
  <2>2. accepted \subseteq Good(request) /\ Readable
    BY <2>1 DEF IInv, FailClosed, Readable
  <2>3. Good(request) \subseteq accepted
    <3>1. CASE request.api = "keys"
      BY <2>1, <3>1 DEF IInv, Worked
    <3>2. CASE request.api # "keys"
      <4>1. base >= request.n
        BY <2>1, <3>2 DEF IInv, Ended, Over
      <4>2. base \in Nat /\ request.n \in Nat
        BY <2>1, Chunks
      <4> QED
        BY <2>1, <2>2, <3>2, <4>1, <4>2 DEF IInv, VerdictsInOrder, Good, Rows
    <3> QED
      BY <3>1, <3>2
  <2> QED
    BY <2>1, <2>2, <2>3 DEF IInv, Reported
<1> QED
  BY <1>1, Invariant, PTL
=============================================================================
