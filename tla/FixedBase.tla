------------------------------ MODULE FixedBase ------------------------------
(***************************************************************************)
(* The fixed-base generator table of src/cpu/src/precompute.cpp: one       *)
(* table per process (g_context), its configuration (g_config), the mutex  *)
(* that guards both, the cache files that processes share, and the         *)
(* multiplications that go on reading a table after the mutex is released. *)
(*                                                                         *)
(* A critical section that only writes memory is one action.  The build,   *)
(* which reads and writes files that other processes use too, is a step    *)
(* per file operation, and a process may crash between two of them.        *)
(* A scalar has Bits bits, a point is its discrete logarithm modulo Order, *)
(* and a table is known by its window width, its halves and how many of    *)
(* its windows are filled.                                                 *)
(***************************************************************************)
EXTENDS Integers, Sequences, FiniteSets

CONSTANTS
    Processes, Threads,
    ProcessOf,     \* ProcessOf[t]: the process thread t runs in
    NoThread,      \* nobody holds the mutex
    Blocks,        \* blocks of memory a PrecomputeContext may be put in
    NoBlock,       \* a null pointer
    Free,          \* a block that holds nothing
    Missing,       \* no such file
    Dirs, Cwd,     \* cache directories; Cwd stands for the empty name
    NamedFiles,    \* files that a cache_path names
    NoFile,        \* cache_path_set is false
    Configs,       \* what callers configure
    Default,       \* g_config when a process starts
    Env,           \* environment overrides [dir, path, maxw]
    Bits, Order, Lambda,  \* scalar width, group order, eigenvalue of psi
    Calls,         \* sequences of scalars that callers multiply
    NoCall,        \* a thread outside a multiplication
    OldFiles,      \* contents found on the disk at the start
    Named,         \* files that callers save to and load from by name
    MaxCalls, MaxCrashes  \* bounds: calls, crashes

\* Powers of two, by doubling.
Power2[n \in Nat] == IF n = 0 THEN 1 ELSE 2 * Power2[n - 1]
Pow2(n) == Power2[n]
WindowCount(w) == (Bits + w - 1) \div w
TableCount(w, glv) == IF glv THEN 2 * WindowCount(w) ELSE WindowCount(w)

Widths == {c.bits : c \in Configs \cup {Default}}
ConfigTypes ==
    [bits : Widths, glv : BOOLEAN, adaptive : BOOLEAN, minbits : Nat, cache : BOOLEAN,
     dir : Dirs, path : NamedFiles \cup {NoFile}, maxw : Nat]

\* A PrecomputeContext: filled counts base windows first, then psi windows.
Tables ==
    {T \in [bits : Widths, glv : BOOLEAN, filled : Nat] : T.filled <= TableCount(T.bits, T.glv)}
Complete(T) == T.filled = TableCount(T.bits, T.glv)
FullTable(c) == [bits |-> c.bits, glv |-> c.glv, filled |-> TableCount(c.bits, c.glv)]

Files == [dir : Dirs, bits : Widths, glv : BOOLEAN] \cup NamedFiles

Holder == "g_context"

ASSUME WidthsAssumption == Bits \in Nat \ {0} /\ Widths \subseteq Nat \ {0}
ASSUME ConfigsAssumption ==
    /\ Configs \cup {Default} \subseteq ConfigTypes
    /\ Env \in [dir : Dirs, path : NamedFiles \cup {NoFile}, maxw : Nat]
ASSUME DiskAssumption ==
    /\ OldFiles \subseteq [Files -> Tables \cup {Missing}]
    /\ Cwd \in Dirs
    /\ Named \subseteq NamedFiles
ASSUME ThreadsAssumption == ProcessOf \in [Threads -> Processes]
ASSUME NullsAssumption ==
    /\ NoThread \notin Threads /\ Holder \notin Threads
    /\ NoBlock \notin Blocks
    /\ Free \notin Tables /\ Missing \notin Tables
    /\ NoFile \notin Files

VARIABLES
    g_config,   \* g_config[p]
    g_context,  \* g_context[p]: a block, or NoBlock
    heap,       \* heap[p][b]: the table in block b
    owners,     \* owners[p][b]: who holds a shared_ptr to block b
    mutex,      \* mutex[p]: the thread that holds g_mutex
    pc,         \* pc[t]
    call,       \* call[t]: the multiplication of thread t, or NoCall
    path,       \* path[t]: cache_path in ensure_built_locked
    disk,       \* disk[f]: a published file, or Missing
    tmp,        \* tmp[p][f]: the temporary file of process p for f
    calls, crashes

memory == <<g_config, g_context, heap, owners>>
files == <<disk, tmp>>
bounds == <<calls, crashes>>
vars == <<memory, mutex, pc, call, path, files, bounds>>

PC == {"idle", "load", "build", "open", "write", "rename", "snapshot", "multiply"}
BuildSteps == PC \ {"idle", "multiply"}

Init ==
    /\ g_config = [p \in Processes |-> Default]
    /\ g_context = [p \in Processes |-> NoBlock]
    /\ heap = [p \in Processes |-> [b \in Blocks |-> Free]]
    /\ owners = [p \in Processes |-> [b \in Blocks |-> {}]]
    /\ mutex = [p \in Processes |-> NoThread]
    /\ pc = [t \in Threads |-> "idle"]
    /\ call = [t \in Threads |-> NoCall]
    /\ path = [t \in Threads |-> NoFile]
    /\ disk \in OldFiles
    /\ tmp = [p \in Processes |-> [f \in Files |-> Missing]]
    /\ calls = 0
    /\ crashes = 0
-----------------------------------------------------------------------------
(* Memory: shared_ptr.                                                      *)

\* who lets its shared_ptr to block b go; the last owner frees the block.
Drop(p, b, who) ==
    /\ owners' = [owners EXCEPT ![p][b] = @ \ {who}]
    /\ heap' = [heap EXCEPT ![p][b] = IF owners[p][b] = {who} THEN Free ELSE @]

\* g_context.reset().
Reset(p) ==
    /\ g_context' = [g_context EXCEPT ![p] = NoBlock]
    /\ IF g_context[p] = NoBlock
       THEN UNCHANGED <<heap, owners>>
       ELSE Drop(p, g_context[p], Holder)

\* g_context = a new context that holds T; what it pointed to before is let go.
Install(p, T) ==
    \E b \in Blocks :
        /\ heap[p][b] = Free
        /\ g_context' = [g_context EXCEPT ![p] = b]
        /\ owners' = [owners EXCEPT ![p] = [x \in Blocks |->
                          IF x = b THEN {Holder} ELSE @[x] \ {Holder}]]
        /\ heap' = [heap EXCEPT ![p] = [x \in Blocks |->
                        IF x = b THEN T ELSE IF owners[p][x] = {Holder} THEN Free ELSE @[x]]]
-----------------------------------------------------------------------------
(* Configuration: configure_fixed_base and set_cache_directory.             *)

\* The adaptive override, then the environment.
Effective(c) ==
    [c EXCEPT !.glv = c.glv /\ ~(c.adaptive /\ c.bits < c.minbits),
              !.dir = IF Env.dir = Cwd THEN @ ELSE Env.dir,
              !.path = IF Env.path = NoFile THEN @ ELSE Env.path,
              !.maxw = IF Env.maxw = 0 THEN @ ELSE Env.maxw]

Peers(t) == {u \in Threads : ProcessOf[u] = ProcessOf[t]}

\* A call enters an idle thread while it can take the mutex at once, and no
\* caller is in save_precompute_cache, which the mutex does not cover.
Enters(t) ==
    /\ pc[t] = "idle"
    /\ calls < MaxCalls
    /\ calls' = calls + 1
    /\ mutex[ProcessOf[t]] = NoThread
    /\ \A u \in Peers(t) : pc[u] \in {"idle", "multiply"}

Configure(t, c) ==
    /\ Enters(t)
    /\ g_config' = [g_config EXCEPT ![ProcessOf[t]] = Effective(c)]
    /\ Reset(ProcessOf[t])
    /\ UNCHANGED <<mutex, pc, call, path, files, crashes>>

SetCacheDirectory(t, dir) ==
    /\ Enters(t)
    /\ g_config' = [g_config EXCEPT ![ProcessOf[t]].dir = dir]
    /\ Reset(ProcessOf[t])
    /\ UNCHANGED <<mutex, pc, call, path, files, crashes>>
-----------------------------------------------------------------------------
(* ensure_built_locked, with the mutex held.                                *)

\* get_default_cache_path: the configured directory only if the file is there.
DefaultPath(c) ==
    LET named == [dir |-> c.dir, bits |-> c.bits, glv |-> c.glv]
    IN  IF c.dir # Cwd /\ disk[named] # Missing THEN named ELSE [named EXCEPT !.dir = Cwd]

CachePath(c) == IF c.path # NoFile THEN c.path ELSE DefaultPath(c)

\* What a multiplication has done so far: ks are its scalars, out the points
\* it has finished, win and acc the window and the sum of the current one.
Call(ks, block, out, win, acc) ==
    [ks |-> ks, block |-> block, out |-> out, win |-> win, acc |-> acc]
NewCall(ks, block) == Call(ks, block, <<>>, 0, 0)

\* Mutant: a raw reference in the place of the shared_ptr snapshot.
TakeReference(t, ks) ==
    LET p == ProcessOf[t] IN
    /\ call' = [call EXCEPT ![t] = NewCall(ks, g_context[p])]
    /\ UNCHANGED owners

\* ctx_ptr = g_context.
TakeSnapshot(t, ks) ==
    LET p == ProcessOf[t] IN
    /\ call' = [call EXCEPT ![t] = NewCall(ks, g_context[p])]
    /\ owners' = [owners EXCEPT ![p][g_context[p]] = @ \cup {t}]

\* scalar_mul_generator and batch_scalar_mul_generator for ks, or
\* ensure_fixed_base_ready for no scalar, when the table is there.
BeginBuilt(t, ks) ==
    /\ Enters(t)
    /\ g_context[ProcessOf[t]] # NoBlock
    /\ IF ks = <<>>
       THEN UNCHANGED <<pc, call, owners>>
       ELSE pc' = [pc EXCEPT ![t] = "multiply"] /\ TakeSnapshot(t, ks)
    /\ UNCHANGED <<g_config, g_context, heap, mutex, path, files, crashes>>

\* The same calls when it is not: the mutex is kept for the whole build.
BeginBuild(t, ks) ==
    LET p == ProcessOf[t] IN
    /\ Enters(t)
    /\ g_context[p] = NoBlock
    /\ mutex' = [mutex EXCEPT ![p] = t]
    /\ call' = [call EXCEPT ![t] = IF ks = <<>> THEN NoCall ELSE NewCall(ks, NoBlock)]
    /\ IF g_config[p].cache
       THEN /\ path' = [path EXCEPT ![t] = CachePath(g_config[p])]
            /\ pc' = [pc EXCEPT ![t] = "load"]
       ELSE pc' = [pc EXCEPT ![t] = "build"] /\ UNCHANGED path
    /\ UNCHANGED <<memory, files, crashes>>

\* Mutant: the header is believed, and a file that ends early is not noticed.
LoadableByHeader(F, c, maxw) ==
    /\ F # Missing
    /\ F.bits = c.bits /\ F.glv = c.glv

\* load_precompute_cache_locked: the header fits the configuration and the
\* window limit, and every window can be read.
Loadable(F, c, maxw) ==
    /\ F # Missing
    /\ F.bits = c.bits /\ F.glv = c.glv
    /\ maxw = 0 \/ maxw >= WindowCount(F.bits)
    /\ F.filled >= TableCount(F.bits, F.glv)

LoadCache(t) ==
    LET p == ProcessOf[t]
        F == disk[path[t]]
    IN  /\ pc[t] = "load"
        /\ IF Loadable(F, g_config[p], g_config[p].maxw)
           THEN Install(p, F) /\ pc' = [pc EXCEPT ![t] = "snapshot"]
           ELSE pc' = [pc EXCEPT ![t] = "build"] /\ UNCHANGED <<g_context, heap, owners>>
        /\ UNCHANGED <<g_config, mutex, call, path, files, bounds>>

\* build_context; validate_precompute_context accepts whatever it returns.
BuildContext(t) ==
    LET p == ProcessOf[t] IN
    /\ pc[t] = "build"
    /\ g_config[p].bits \in 2 .. 30
    /\ Install(p, FullTable(g_config[p]))
    /\ pc' = [pc EXCEPT ![t] = IF g_config[p].cache THEN "open" ELSE "snapshot"]
    /\ UNCHANGED <<g_config, mutex, call, path, files, bounds>>

\* build_context throws, for the width or for want of memory.
BuildThrows(t) ==
    /\ pc[t] = "build"
    /\ mutex' = [mutex EXCEPT ![ProcessOf[t]] = NoThread]
    /\ pc' = [pc EXCEPT ![t] = "idle"]
    /\ call' = [call EXCEPT ![t] = NoCall]
    /\ path' = [path EXCEPT ![t] = NoFile]
    /\ UNCHANGED <<memory, files, bounds>>
-----------------------------------------------------------------------------
(* save_precompute_cache_locked.                                            *)

\* Mutant: the header does not say whether there are psi tables.
HeaderWithoutPsi(T) == [bits |-> T.bits, filled |-> 0]

Header(T) == [T EXCEPT !.filled = 0]
Saved(t) == heap[ProcessOf[t]][g_context[ProcessOf[t]]]

\* The end of a save: on with the build, or back to the caller.
AfterSave(t) ==
    /\ pc' = [pc EXCEPT ![t] = IF mutex[ProcessOf[t]] = t THEN "snapshot" ELSE "idle"]
    /\ path' = [path EXCEPT ![t] = NoFile]

\* Mutant: the temporary file stays.
SaveFailsUntidy(t) ==
    /\ pc[t] \in {"open", "write", "rename"}
    /\ AfterSave(t)
    /\ UNCHANGED <<memory, mutex, call, files, bounds>>

\* Mutant: the file is renamed although a write has failed.
SaveFailsUnseen(t) ==
    LET p == ProcessOf[t] IN
    /\ pc[t] \in {"open", "write", "rename"}
    /\ AfterSave(t)
    /\ disk' = [disk EXCEPT ![path[t]] = IF pc[t] = "write" THEN tmp[p][path[t]] ELSE @]
    /\ tmp' = [tmp EXCEPT ![p][path[t]] = IF pc[t] = "open" THEN @ ELSE Missing]
    /\ UNCHANGED <<memory, mutex, call, bounds>>

\* A file operation fails: the temporary file is removed, the save is given up.
SaveFails(t) ==
    /\ pc[t] \in {"open", "write", "rename"}
    /\ AfterSave(t)
    /\ tmp' = [tmp EXCEPT ![ProcessOf[t]][path[t]] = IF pc[t] = "open" THEN @ ELSE Missing]
    /\ UNCHANGED <<memory, mutex, call, disk, bounds>>

\* The temporary file is opened; one that a crash left under the same process
\* number is emptied.
OpenTemporary(t) ==
    /\ pc[t] = "open"
    /\ tmp' = [tmp EXCEPT ![ProcessOf[t]][path[t]] = Header(Saved(t))]
    /\ pc' = [pc EXCEPT ![t] = "write"]
    /\ UNCHANGED <<memory, mutex, call, path, disk, bounds>>

WriteWindow(t) ==
    LET p == ProcessOf[t]
        F == tmp[p][path[t]]
    IN  /\ pc[t] = "write"
        /\ tmp' = [tmp EXCEPT ![p][path[t]].filled = @ + 1]
        /\ pc' = [pc EXCEPT ![t] = IF F.filled + 1 = Saved(t).filled THEN "rename" ELSE "write"]
        /\ UNCHANGED <<memory, mutex, call, path, disk, bounds>>

RenameTemporary(t) ==
    LET p == ProcessOf[t] IN
    /\ pc[t] = "rename"
    /\ disk' = [disk EXCEPT ![path[t]] = tmp[p][path[t]]]
    /\ tmp' = [tmp EXCEPT ![p][path[t]] = Missing]
    /\ AfterSave(t)
    /\ UNCHANGED <<memory, mutex, call, bounds>>

\* save_precompute_cache: the same without the mutex, so that its caller must
\* be alone in the process.
Alone(t) == \A u \in Peers(t) : pc[u] = "idle"

SavePrecomputeCache(t, f) ==
    /\ Enters(t) /\ Alone(t)
    /\ g_context[ProcessOf[t]] # NoBlock
    /\ pc' = [pc EXCEPT ![t] = "open"]
    /\ path' = [path EXCEPT ![t] = f]
    /\ UNCHANGED <<memory, mutex, call, files, crashes>>

\* load_precompute_cache: likewise without the mutex.
LoadPrecomputeCache(t, f) ==
    LET p == ProcessOf[t] IN
    /\ Enters(t) /\ Alone(t)
    /\ Loadable(disk[f], g_config[p], 0)
    /\ Install(p, disk[f])
    /\ UNCHANGED <<g_config, mutex, pc, call, path, files, crashes>>
-----------------------------------------------------------------------------
(* The multiplication: k * G as a sum of table entries.                     *)

\* fill_window_digits_into: signed digits, least significant first.  rest is
\* what is left of the scalar; a carry out of the last window is dropped.
Rest(k, w) ==
    LET rest[i \in 0 .. WindowCount(w)] ==
            IF i = 0 THEN k
            ELSE rest[i - 1] \div Pow2(w)
                 + (IF rest[i - 1] % Pow2(w) >= Pow2(w - 1) THEN 1 ELSE 0)
    IN  rest

\* Mutant: a digit of half the range is kept positive, with its carry.
DigitCarriedTwice(k, w, i) ==
    LET chunk == Rest(k, w)[i] % Pow2(w)
    IN  IF chunk > Pow2(w - 1) THEN chunk - Pow2(w) ELSE chunk

WindowDigit(k, w, i) ==
    LET chunk == Rest(k, w)[i] % Pow2(w)
    IN  IF chunk >= Pow2(w - 1) THEN chunk - Pow2(w) ELSE chunk

\* Entry |d| of window i, negated for d < 0; psi tables hold Lambda times as much.
Entry(T, psi, i, d) ==
    LET at == IF psi THEN WindowCount(T.bits) + i ELSE i
    IN  IF at < T.filled
        THEN (d * Pow2(T.bits * i) * (IF psi THEN Lambda ELSE 1)) % Order
        ELSE 0

\* split_scalar_internal: k = +-k1 +- k2 * lambda with halves of half the width.
Signed(x, neg) == IF neg THEN -x ELSE x
Splits(k) ==
    {s \in [k1 : 0 .. Pow2(Bits \div 2) - 1, k2 : 0 .. Pow2(Bits \div 2) - 1,
            neg1 : BOOLEAN, neg2 : BOOLEAN] :
        (Signed(s.k1, s.neg1) + Lambda * Signed(s.k2, s.neg2)) % Order = k % Order}
SplitScalar(k) == CHOOSE s \in Splits(k) : TRUE

\* Scalars are reduced, and every scalar that is multiplied can be split.
ASSUME ScalarsAssumption ==
    /\ Bits > 2 /\ Order \in 1 .. Pow2(Bits) /\ Lambda \in Int
    /\ Calls \subseteq Seq(0 .. (Order - 1))
    /\ \A ks \in Calls : \A i \in DOMAIN ks : Splits(ks[i]) # {}

\* One window of accumulate, or of shamir_windowed_glv with both tables.
WindowSum(T, k, i) ==
    IF T.glv
    THEN LET s == SplitScalar(k) IN
         Entry(T, FALSE, i, Signed(WindowDigit(s.k1, T.bits, i), s.neg1))
         + Entry(T, TRUE, i, Signed(WindowDigit(s.k2, T.bits, i), s.neg2))
    ELSE Entry(T, FALSE, i, WindowDigit(k, T.bits, i))

AddWindow(t) ==
    LET c == call[t]
        T == heap[ProcessOf[t]][c.block]
        acc == (c.acc + WindowSum(T, c.ks[Len(c.out) + 1], c.win)) % Order
    IN  /\ pc[t] = "multiply"
        /\ T # Free
        /\ Len(c.out) < Len(c.ks)
        /\ call' = [call EXCEPT ![t] =
                       IF c.win + 1 = WindowCount(T.bits)
                       THEN Call(c.ks, c.block, Append(c.out, acc), 0, 0)
                       ELSE Call(c.ks, c.block, c.out, c.win + 1, acc)]
        /\ UNCHANGED <<memory, mutex, pc, path, files, bounds>>

\* The snapshot goes out of scope and the points are returned.
Return(t) ==
    LET c == call[t] IN
    /\ pc[t] = "multiply"
    /\ Len(c.out) = Len(c.ks)
    /\ Drop(ProcessOf[t], c.block, t)
    /\ pc' = [pc EXCEPT ![t] = "idle"]
    /\ call' = [call EXCEPT ![t] = NoCall]
    /\ UNCHANGED <<g_config, g_context, mutex, path, files, bounds>>

\* The table is ready after a build: the mutex is released.
Proceed(t) ==
    LET p == ProcessOf[t] IN
    /\ pc[t] = "snapshot"
    /\ mutex' = [mutex EXCEPT ![p] = NoThread]
    /\ path' = [path EXCEPT ![t] = NoFile]
    /\ IF call[t] = NoCall
       THEN pc' = [pc EXCEPT ![t] = "idle"] /\ UNCHANGED <<call, owners>>
       ELSE pc' = [pc EXCEPT ![t] = "multiply"] /\ TakeSnapshot(t, call[t].ks)
    /\ UNCHANGED <<g_config, g_context, heap, files, bounds>>
-----------------------------------------------------------------------------
\* A process dies and starts again: its memory is gone, its files are not.
Crash(p) ==
    LET Own == {t \in Threads : ProcessOf[t] = p} IN
    /\ crashes < MaxCrashes
    /\ crashes' = crashes + 1
    /\ g_config' = [g_config EXCEPT ![p] = Default]
    /\ g_context' = [g_context EXCEPT ![p] = NoBlock]
    /\ heap' = [heap EXCEPT ![p] = [b \in Blocks |-> Free]]
    /\ owners' = [owners EXCEPT ![p] = [b \in Blocks |-> {}]]
    /\ mutex' = [mutex EXCEPT ![p] = NoThread]
    /\ pc' = [t \in Threads |-> IF t \in Own THEN "idle" ELSE pc[t]]
    /\ call' = [t \in Threads |-> IF t \in Own THEN NoCall ELSE call[t]]
    /\ path' = [t \in Threads |-> IF t \in Own THEN NoFile ELSE path[t]]
    /\ UNCHANGED <<files, calls>>

Step(t) ==
    \/ LoadCache(t)
    \/ BuildContext(t)
    \/ BuildThrows(t)
    \/ SaveFails(t)
    \/ OpenTemporary(t)
    \/ WriteWindow(t)
    \/ RenameTemporary(t)
    \/ Proceed(t)
    \/ AddWindow(t)
    \/ Return(t)

Next ==
    \/ \E t \in Threads :
          \/ \E c \in Configs : Configure(t, c)
          \/ \E dir \in Dirs : SetCacheDirectory(t, dir)
          \/ \E ks \in Calls \cup {<<>>} : BeginBuilt(t, ks) \/ BeginBuild(t, ks)
          \/ \E f \in Named : SavePrecomputeCache(t, f) \/ LoadPrecomputeCache(t, f)
          \/ Step(t)
    \/ \E p \in Processes : Crash(p)

Spec == Init /\ [][Next]_vars
-----------------------------------------------------------------------------
IsCall(c) ==
    /\ c = Call(c.ks, c.block, c.out, c.win, c.acc)
    /\ c.ks \in Calls
    /\ c.block \in Blocks \cup {NoBlock}
    /\ c.win \in Nat

TypeOK ==
    /\ g_config \in [Processes -> ConfigTypes]
    /\ g_context \in [Processes -> Blocks \cup {NoBlock}]
    /\ heap \in [Processes -> [Blocks -> Tables \cup {Free}]]
    /\ owners \in [Processes -> [Blocks -> SUBSET (Threads \cup {Holder})]]
    /\ mutex \in [Processes -> Threads \cup {NoThread}]
    /\ pc \in [Threads -> PC]
    /\ DOMAIN call = Threads
    /\ \A t \in Threads : call[t] = NoCall \/ IsCall(call[t])
    /\ path \in [Threads -> Files \cup {NoFile}]
    /\ disk \in [Files -> Tables \cup {Missing}]
    /\ tmp \in [Processes -> [Files -> Tables \cup {Missing}]]
    /\ calls \in Nat /\ crashes \in Nat

\* A thread that multiplies reads a table that is still there, whoever
\* reconfigures meanwhile (docs/THREAD_SAFETY.md, PRECOMPUTE-GCONTEXT-UAF),
\* and a table nobody can reach any more has been freed.
AliveWhileRead ==
    \A p \in Processes, b \in Blocks :
        heap[p][b] # Free <=>
            \/ g_context[p] = b
            \/ \E t \in Threads : ProcessOf[t] = p /\ pc[t] = "multiply" /\ call[t].block = b

\* The points a call returns are the multiples it was asked for, whatever was
\* configured, loaded, saved or lost by others while it ran.
AnswersRight ==
    \A t \in Threads : call[t] # NoCall =>
        \A i \in 1 .. Len(call[t].out) : call[t].out[i] = call[t].ks[i] % Order

\* Signed digits of w bits, one for each window, reach every number up to m
\* when m is no more than they make up with every digit at its largest,
\* 2^(w - 1) - 1.  A scalar beyond that has a carry out of the last window.
Reaches(w, m) ==
    (Pow2(w) - 1) * m <= (Pow2(w - 1) - 1) * (Pow2(w * WindowCount(w)) - 1)

\* A table, or the configuration of one, whose windows reach every scalar that
\* they will be asked for: halves always fit, whole scalars may not.
Reaching(T) == T.bits >= 2 /\ (T.glv \/ Reaches(T.bits, Order - 1))

\* What is configured, and what the disk holds at the start.
WidthsReach ==
    /\ \A c \in {Default} \cup {Effective(c) : c \in Configs} : c.bits \in 2 .. 30 => Reaching(c)
    /\ \A old \in OldFiles : \A f \in Files : old[f] # Missing => Reaching(old[f])

\* A file under a published name is whole or was cut short before the program
\* started: "readers see either the old complete file or the new complete
\* file" (save_precompute_cache_locked), also after a crash.
PublishedWhole ==
    \A f \in Files : disk[f] = Missing \/ Complete(disk[f]) \/ \E old \in OldFiles : disk[f] = old[f]

\* The table in use is one for the configuration in force, and whole.
ContextFitsConfig ==
    \A p \in Processes : g_context[p] # NoBlock =>
        heap[p][g_context[p]] = FullTable(g_config[p])

\* A save that ends in any way but a crash leaves no temporary file behind.
NoTemporaryLeft ==
    \A p \in Processes, f \in Files : tmp[p][f] # Missing =>
        \/ crashes > 0
        \/ \E t \in Threads : /\ ProcessOf[t] = p /\ path[t] = f
                            /\ pc[t] \in {"write", "rename"}
=============================================================================
