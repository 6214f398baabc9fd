-------------------------- MODULE FixedBaseProofs --------------------------
(***************************************************************************)
(* What holds of FixedBase for every number of processes, threads, blocks, *)
(* configurations and files.  The inductive invariant says who owns a      *)
(* block of memory, that one thread of a process at most is building, and  *)
(* what that thread has written so far.                                    *)
(***************************************************************************)
EXTENDS FixedBase, WellFoundedInduction, NaturalsInduction, TLAPS

\* The threads that read the table in block b.
Readers(p, b) == {t \in Threads : ProcessOf[t] = p /\ pc[t] = "multiply" /\ call[t].block = b}

\* One thread of a process at most is in a build.
Exclusive ==
    \A t, u \in Threads :
        ProcessOf[t] = ProcessOf[u] /\ pc[t] \in BuildSteps /\ pc[u] \in BuildSteps => t = u

\* A block is owned by g_context and by its readers, and lives as long as it is owned.
Ownership ==
    \A p \in Processes, b \in Blocks :
        /\ owners[p][b] = (IF g_context[p] = b THEN {Holder} ELSE {}) \cup Readers(p, b)
        /\ heap[p][b] # Free <=> owners[p][b] # {}

\* Who multiplies has a table.
Multiplying ==
    \A t \in Threads : pc[t] = "multiply" => IsCall(call[t]) /\ call[t].block \in Blocks

\* What a thread in a build has at hand: a table once it is built, a path while it needs one.
Building ==
    \A t \in Threads :
        /\ pc[t] \in {"open", "write", "rename", "snapshot"} => g_context[ProcessOf[t]] # NoBlock
        /\ pc[t] \in {"load", "open", "write", "rename"} => path[t] \in Files
        /\ pc[t] = "build" /\ g_config[ProcessOf[t]].cache => path[t] \in Files

\* A file with a part of the windows of T.
Partial(F, T) == F # Missing /\ F.bits = T.bits /\ F.glv = T.glv /\ F.filled < T.filled

\* A temporary file holds what its writer has written, and all of it before the rename.
Writing ==
    \A t \in Threads :
        /\ pc[t] = "write" => Partial(tmp[ProcessOf[t]][path[t]], Saved(t))
        /\ pc[t] = "rename" => tmp[ProcessOf[t]][path[t]] = Saved(t)

\* The types, in three parts.
TypesOfMemory ==
    /\ g_config \in [Processes -> ConfigTypes]
    /\ g_context \in [Processes -> Blocks \cup {NoBlock}]
    /\ heap \in [Processes -> [Blocks -> Tables \cup {Free}]]
    /\ owners \in [Processes -> [Blocks -> SUBSET (Threads \cup {Holder})]]

TypesOfControl ==
    /\ mutex \in [Processes -> Threads \cup {NoThread}]
    /\ pc \in [Threads -> PC]
    /\ DOMAIN call = Threads
    /\ \A t \in Threads : call[t] = NoCall \/ IsCall(call[t])
    /\ path \in [Threads -> Files \cup {NoFile}]
    /\ calls \in Nat /\ crashes \in Nat

TypesOfFiles ==
    /\ disk \in [Files -> Tables \cup {Missing}]
    /\ tmp \in [Processes -> [Files -> Tables \cup {Missing}]]

\* The inductive invariant.
IInv ==
    /\ TypesOfMemory /\ TypesOfControl /\ TypesOfFiles
    /\ Exclusive /\ Ownership /\ Multiplying /\ Building /\ Writing
    /\ PublishedWhole /\ ContextFitsConfig /\ NoTemporaryLeft
-----------------------------------------------------------------------------
\* There is at least one window.
LEMMA WindowCountFacts ==
    ASSUME NEW w \in Nat \ {0}
    PROVE  WindowCount(w) \in Nat \ {0}
  <1> DEFINE n == (Bits + w - 1) \div w
  <1>1. Bits + w - 1 \in Nat /\ Bits + w - 1 >= w
    BY WidthsAssumption
  <1>2. n \in Nat /\ Bits + w - 1 < w * (n + 1)
    BY <1>1
  <1>3. n # 0
    BY <1>1, <1>2
  <1> QED  BY <1>2, <1>3 DEF WindowCount

\* The table of a configuration is a table, whole and not empty.
LEMMA TableFacts ==
    ASSUME NEW c \in ConfigTypes
    PROVE  /\ FullTable(c) \in Tables /\ FullTable(c).filled > 0
           /\ Complete(FullTable(c))
           /\ FullTable(c).bits = c.bits /\ FullTable(c).glv = c.glv
  <1>1. c.bits \in Nat \ {0} /\ c.bits \in Widths /\ c.glv \in BOOLEAN
    BY WidthsAssumption DEF ConfigTypes
  <1>2. WindowCount(c.bits) \in Nat \ {0}
    BY <1>1, WindowCountFacts
  <1>3. TableCount(c.bits, c.glv) \in Nat \ {0}
    BY <1>1, <1>2 DEF TableCount
  <1> QED  BY <1>1, <1>3 DEF FullTable, Tables, Complete

\* The overrides leave a configuration a configuration.
LEMMA EffectiveType ==
    ASSUME NEW c \in ConfigTypes
    PROVE  Effective(c) \in ConfigTypes
  <1> DEFINE glv == c.glv /\ ~(c.adaptive /\ c.bits < c.minbits)
              dir == IF Env.dir = Cwd THEN c.dir ELSE Env.dir
              file == IF Env.path = NoFile THEN c.path ELSE Env.path
              maxw == IF Env.maxw = 0 THEN c.maxw ELSE Env.maxw
  <1>1. glv \in BOOLEAN
    OBVIOUS
  <1>2. dir \in Dirs /\ file \in NamedFiles \cup {NoFile} /\ maxw \in Nat
    BY ConfigsAssumption DEF ConfigTypes
  <1> HIDE DEF glv, dir, file, maxw
  <1>3. [c EXCEPT !.glv = glv, !.dir = dir, !.path = file, !.maxw = maxw] \in ConfigTypes
    BY <1>1, <1>2 DEF ConfigTypes
  <1>4. Effective(c) = [c EXCEPT !.glv = glv, !.dir = dir, !.path = file, !.maxw = maxw]
    BY DEF Effective, glv, dir, file, maxw, ConfigTypes
  <1> QED  BY <1>3, <1>4

\* Install puts T in a block of its own and leaves every other owner alone.
LEMMA InstallFacts ==
    ASSUME IInv, NEW p \in Processes, NEW T \in Tables, Install(p, T), UNCHANGED call,
           \A u \in Threads : pc'[u] = "multiply" <=> pc[u] = "multiply"
    PROVE  /\ g_context' \in [Processes -> Blocks \cup {NoBlock}]
           /\ heap' \in [Processes -> [Blocks -> Tables \cup {Free}]]
           /\ owners' \in [Processes -> [Blocks -> SUBSET (Threads \cup {Holder})]]
           /\ Ownership'
           /\ g_context'[p] \in Blocks /\ heap'[p][g_context'[p]] = T
           /\ \A r \in Processes \ {p} : g_context'[r] = g_context[r] /\ heap'[r] = heap[r]
  <1>1. PICK b \in Blocks :
            /\ heap[p][b] = Free
            /\ g_context' = [g_context EXCEPT ![p] = b]
            /\ owners' = [owners EXCEPT ![p] = [x \in Blocks |->
                              IF x = b THEN {Holder} ELSE @[x] \ {Holder}]]
            /\ heap' = [heap EXCEPT ![p] = [x \in Blocks |->
                            IF x = b THEN T ELSE IF owners[p][x] = {Holder} THEN Free ELSE @[x]]]
    BY DEF Install
  <1> USE DEF IInv, TypesOfMemory
  <1>2. \A r \in Processes \ {p} : g_context'[r] = g_context[r] /\ heap'[r] = heap[r]
                                   /\ owners'[r] = owners[r]
    BY <1>1
  <1>3. /\ g_context'[p] = b /\ heap'[p][b] = T /\ owners'[p][b] = {Holder}
        /\ \A x \in Blocks \ {b} :
              /\ owners'[p][x] = owners[p][x] \ {Holder}
              /\ heap'[p][x] = IF owners[p][x] = {Holder} THEN Free ELSE heap[p][x]
    BY <1>1
  <1>4. g_context' \in [Processes -> Blocks \cup {NoBlock}]
    BY <1>1
  <1>5. heap' \in [Processes -> [Blocks -> Tables \cup {Free}]]
    BY <1>1
  <1>6. owners' \in [Processes -> [Blocks -> SUBSET (Threads \cup {Holder})]]
    BY <1>1
  <1>7. T # Free
    BY NullsAssumption
  <1>8. \A r \in Processes, x \in Blocks : Readers(r, x)' = Readers(r, x)
    BY DEF Readers
  <1>9. \A x \in Blocks : Holder \notin Readers(p, x)
    BY NullsAssumption DEF Readers
  <1>10. Readers(p, b) = {} /\ g_context[p] # b
    BY <1>1 DEF Ownership
  <1>11. ASSUME NEW r \in Processes, NEW x \in Blocks
         PROVE  /\ owners'[r][x] = (IF g_context'[r] = x THEN {Holder} ELSE {}) \cup Readers(r, x)'
                /\ heap'[r][x] # Free <=> owners'[r][x] # {}
    <2>1. CASE r # p
      BY <2>1, <1>2, <1>8 DEF Ownership
    <2>2. CASE r = p /\ x = b
      BY <2>2, <1>3, <1>7, <1>8, <1>10
    <2>3. CASE r = p /\ x # b
      <3>1. owners[p][x] \ {Holder} = Readers(p, x)
        BY <1>9 DEF Ownership
      <3>2. heap'[p][x] # Free <=> owners[p][x] \ {Holder} # {}
        <4>1. heap'[p][x] = IF owners[p][x] = {Holder} THEN Free ELSE heap[p][x]
          BY <2>3, <1>3
        <4>2. heap[p][x] # Free <=> owners[p][x] # {}
          BY DEF Ownership
        <4>3. owners[p][x] \ {Holder} = {} <=> owners[p][x] = {} \/ owners[p][x] = {Holder}
          OBVIOUS
        <4> QED  BY <4>1, <4>2, <4>3
      <3> QED  BY <2>3, <3>1, <3>2, <1>3, <1>8
    <2> QED  BY <2>1, <2>2, <2>3
  <1>12. Ownership'
    BY <1>11 DEF Ownership
  <1> QED  BY <1>2, <1>3, <1>4, <1>5, <1>6, <1>12

\* A step of t that no peer in the build can notice.
LEMMA ExclusiveKept ==
    ASSUME IInv, NEW t \in Threads, \A u \in Threads \ {t} : pc'[u] = pc[u],
           pc'[t] \in BuildSteps =>
               \/ pc[t] \in BuildSteps
               \/ \A u \in Peers(t) : pc[u] \notin BuildSteps
    PROVE  Exclusive'
  BY DEF IInv, Exclusive, Peers

\* What a thread has written stays as long as nobody else touches it.
LEMMA WritingKept ==
    ASSUME IInv, UNCHANGED tmp,
           \A u \in Threads : pc'[u] \in {"write", "rename"} =>
               /\ pc'[u] = pc[u] /\ path'[u] = path[u]
               /\ Saved(u)' = Saved(u)
    PROVE  Writing'
  <1> SUFFICES ASSUME NEW u \in Threads, pc'[u] \in {"write", "rename"}
               PROVE  /\ pc'[u] = "write" =>
                              Partial(tmp[ProcessOf[u]][path[u]], Saved(u))
                      /\ pc'[u] = "rename" => tmp[ProcessOf[u]][path[u]] = Saved(u)
    BY DEF Writing, Partial
  <1> QED  BY DEF IInv, Writing

\* A temporary file stays excused as long as its writer does not move on.
LEMMA TemporaryKept ==
    ASSUME IInv, UNCHANGED <<tmp, crashes>>,
           \A u \in Threads : pc[u] \in {"write", "rename"} =>
               pc'[u] = pc[u] /\ path'[u] = path[u]
    PROVE  NoTemporaryLeft'
  <1> SUFFICES ASSUME NEW p \in Processes, NEW f \in Files, tmp[p][f] # Missing, ~(crashes > 0)
               PROVE  \E t \in Threads : /\ ProcessOf[t] = p /\ path'[t] = f
                                         /\ pc'[t] \in {"write", "rename"}
    BY DEF NoTemporaryLeft
  <1>1. PICK t \in Threads : /\ ProcessOf[t] = p /\ path[t] = f
                             /\ pc[t] \in {"write", "rename"}
    BY DEF IInv, NoTemporaryLeft
  <1> QED  BY <1>1

\* A call that starts, with or without its block, is a call.
LEMMA NewCallType ==
    ASSUME NEW ks \in Calls, NEW b \in Blocks \cup {NoBlock}
    PROVE  IsCall(NewCall(ks, b)) /\ NewCall(ks, b).block = b /\ NewCall(ks, b).ks = ks
  BY DEF IsCall, NewCall, Call

\* A snapshot adds t to the owners of the block in use, and t is its reader.
LEMMA SnapshotFacts ==
    ASSUME IInv, NEW t \in Threads, NEW ks \in Calls, pc[t] # "multiply",
           g_context[ProcessOf[t]] # NoBlock, TakeSnapshot(t, ks),
           pc' = [pc EXCEPT ![t] = "multiply"], UNCHANGED <<g_context, heap>>
    PROVE  /\ owners' \in [Processes -> [Blocks -> SUBSET (Threads \cup {Holder})]]
           /\ DOMAIN call' = Threads /\ IsCall(call'[t]) /\ call'[t].block \in Blocks
           /\ \A u \in Threads \ {t} : call'[u] = call[u]
           /\ Ownership'
  <1> DEFINE p == ProcessOf[t]
             b == g_context[p]
  <1>1. p \in Processes /\ b \in Blocks
    BY ThreadsAssumption DEF IInv, TypesOfMemory
  <1>2. owners' = [owners EXCEPT ![p][b] = @ \cup {t}]
    BY DEF TakeSnapshot
  <1>3. DOMAIN call' = Threads /\ call'[t] = NewCall(ks, b)
        /\ \A u \in Threads \ {t} : call'[u] = call[u]
    BY DEF IInv, TypesOfControl, TakeSnapshot
  <1>4. IsCall(call'[t]) /\ call'[t].block = b
    BY <1>1, <1>3, NewCallType
  <1>5. owners' \in [Processes -> [Blocks -> SUBSET (Threads \cup {Holder})]]
    BY <1>1, <1>2 DEF IInv, TypesOfMemory
  <1>6. ASSUME NEW r \in Processes, NEW x \in Blocks
        PROVE  /\ owners'[r][x] = (IF g_context'[r] = x THEN {Holder} ELSE {}) \cup Readers(r, x)'
               /\ heap'[r][x] # Free <=> owners'[r][x] # {}
    <2>1. Readers(r, x)' = IF r = p /\ x = b THEN Readers(r, x) \cup {t} ELSE Readers(r, x)
      BY <1>3, <1>4 DEF Readers, IInv, TypesOfControl
    <2>2. owners'[r][x] = IF r = p /\ x = b THEN owners[r][x] \cup {t} ELSE owners[r][x]
      BY <1>1, <1>2 DEF IInv, TypesOfMemory
    <2>3. owners[p][b] # {}
      BY <1>1 DEF IInv, Ownership
    <2> HIDE DEF p, b
    <2> QED  BY <2>1, <2>2, <2>3 DEF IInv, Ownership
  <1>7. Ownership'
    BY <1>6 DEF Ownership
  <1> QED  BY <1>1, <1>3, <1>4, <1>5, <1>7

\* A reset lets the block in use go and nothing else.
LEMMA ResetFacts ==
    ASSUME IInv, NEW p \in Processes, Reset(p)
    PROVE  /\ g_context' \in [Processes -> Blocks \cup {NoBlock}]
           /\ heap' \in [Processes -> [Blocks -> Tables \cup {Free}]]
           /\ owners' \in [Processes -> [Blocks -> SUBSET (Threads \cup {Holder})]]
  <1>1. g_context' \in [Processes -> Blocks \cup {NoBlock}]
    BY DEF IInv, TypesOfMemory, Reset
  <1>2. CASE g_context[p] = NoBlock
    BY <1>1, <1>2 DEF IInv, TypesOfMemory, Reset
  <1>3. CASE g_context[p] # NoBlock
    <2> DEFINE b == g_context[p]
    <2>1. b \in Blocks
      BY <1>3 DEF IInv, TypesOfMemory
    <2>2. /\ owners' = [owners EXCEPT ![p][b] = @ \ {Holder}]
          /\ heap' = [heap EXCEPT ![p][b] = IF owners[p][b] = {Holder} THEN Free ELSE @]
      BY <1>3 DEF Reset, Drop
    <2> HIDE DEF b
    <2> QED  BY <1>1, <2>1, <2>2 DEF IInv, TypesOfMemory
  <1> QED  BY <1>2, <1>3

\* A configuration with another directory is a configuration.
LEMMA DirectoryType ==
    ASSUME NEW c \in ConfigTypes, NEW dir \in Dirs
    PROVE  [c EXCEPT !.dir = dir] \in ConfigTypes
  BY DEF ConfigTypes

\* A file that can be loaded is the whole table of the configuration.
LEMMA LoadableIsFull ==
    ASSUME NEW T \in Tables, NEW c \in ConfigTypes, NEW maxw, Loadable(T, c, maxw)
    PROVE  T = FullTable(c)
  <1>1. /\ T \in [bits : Widths, glv : BOOLEAN, filled : Nat]
        /\ T.filled <= TableCount(T.bits, T.glv)
    BY DEF Tables
  <1>2. /\ T.bits = c.bits /\ T.glv = c.glv /\ T.filled >= TableCount(T.bits, T.glv)
    BY DEF Loadable
  <1>3. TableCount(c.bits, c.glv) = FullTable(c).filled /\ FullTable(c).filled \in Nat
    BY TableFacts DEF FullTable, Tables
  <1>4. T.filled = TableCount(c.bits, c.glv)
    BY <1>1, <1>2, <1>3
  <1> QED  BY <1>1, <1>2, <1>4 DEF FullTable

\* A table that fits the configuration may be installed.
LEMMA InstallFits ==
    ASSUME IInv, NEW p \in Processes, NEW T \in Tables, Install(p, T), UNCHANGED <<call, g_config>>,
           \A u \in Threads : pc'[u] = "multiply" <=> pc[u] = "multiply",
           T = FullTable(g_config[p])
    PROVE  ContextFitsConfig'
  <1> SUFFICES ASSUME NEW r \in Processes, g_context'[r] # NoBlock
               PROVE  heap'[r][g_context'[r]] = FullTable(g_config[r])
    BY DEF ContextFitsConfig, FullTable
  <1>1. /\ heap'[p][g_context'[p]] = T
        /\ \A x \in Processes \ {p} : g_context'[x] = g_context[x] /\ heap'[x] = heap[x]
    BY InstallFacts
  <1>2. CASE r = p
    BY <1>1, <1>2
  <1>3. CASE r # p
    <2>1. g_context'[r] = g_context[r] /\ heap'[r] = heap[r]
      BY <1>1, <1>3
    <2> QED  BY <2>1 DEF IInv, ContextFitsConfig
  <1> QED  BY <1>2, <1>3

\* What a thread saves is the table in use, and it is whole.
LEMMA SavedFacts ==
    ASSUME IInv, NEW t \in Threads, pc[t] \in {"open", "write", "rename"}
    PROVE  /\ ProcessOf[t] \in Processes /\ path[t] \in Files
           /\ Saved(t) \in Tables /\ Saved(t).filled > 0 /\ Complete(Saved(t))
  <1> DEFINE p == ProcessOf[t]
  <1>1. p \in Processes /\ path[t] \in Files /\ g_context[p] # NoBlock
    BY ThreadsAssumption DEF IInv, Building
  <1>2. g_config[p] \in ConfigTypes /\ Saved(t) = FullTable(g_config[p])
    BY <1>1 DEF IInv, TypesOfMemory, ContextFitsConfig, Saved
  <1> QED  BY <1>1, <1>2, TableFacts

\* A file is changed for t, and the others keep theirs.
LEMMA OthersWrite ==
    ASSUME IInv, NEW t \in Threads, NEW F, pc[t] \in BuildSteps,
           tmp' = [tmp EXCEPT ![ProcessOf[t]][path[t]] = F],
           \A u \in Threads \ {t} : pc'[u] = pc[u] /\ path'[u] = path[u],
           UNCHANGED <<heap, g_context>>,
           /\ pc'[t] = "write" => Partial(tmp'[ProcessOf[t]][path'[t]], Saved(t))
           /\ pc'[t] = "rename" => tmp'[ProcessOf[t]][path'[t]] = Saved(t)
    PROVE  Writing'
  <1> SUFFICES ASSUME NEW u \in Threads, pc'[u] \in {"write", "rename"}
               PROVE  /\ pc'[u] = "write" => Partial(tmp'[ProcessOf[u]][path'[u]], Saved(u))
                      /\ pc'[u] = "rename" => tmp'[ProcessOf[u]][path'[u]] = Saved(u)
    BY DEF Writing, Partial, Saved
  <1>1. CASE u = t
    BY <1>1
  <1>2. CASE u # t
    <2>1. pc'[u] = pc[u] /\ path'[u] = path[u]
      BY <1>2
    <2>2. ProcessOf[u] # ProcessOf[t]
      BY <1>2, <2>1 DEF IInv, Exclusive, BuildSteps, PC
    <2>3. tmp'[ProcessOf[u]] = tmp[ProcessOf[u]]
      BY <2>2, ThreadsAssumption DEF IInv, TypesOfFiles
    <2> QED  BY <2>1, <2>3 DEF IInv, Writing
  <1> QED  BY <1>1, <1>2

\* What a window adds leaves a call a call.
LEMMA CallType ==
    ASSUME NEW ks \in Calls, NEW block \in Blocks \cup {NoBlock}, NEW out, NEW win \in Nat, NEW acc
    PROVE  IsCall(Call(ks, block, out, win, acc)) /\ Call(ks, block, out, win, acc).block = block
  BY DEF IsCall, Call

\* The return of t takes it from the owners of the block it has read.
LEMMA ReturnFacts ==
    ASSUME IInv, NEW t \in Threads, Return(t)
    PROVE  /\ owners' \in [Processes -> [Blocks -> SUBSET (Threads \cup {Holder})]]
           /\ heap' \in [Processes -> [Blocks -> Tables \cup {Free}]]
           /\ \A p \in Processes : g_context[p] # NoBlock =>
                  heap'[p][g_context[p]] = heap[p][g_context[p]]
           /\ Ownership'
  <1> DEFINE p == ProcessOf[t]
             b == call[t].block
  <1>1. p \in Processes /\ b \in Blocks
    BY ThreadsAssumption DEF IInv, Multiplying, Return
  <1>2. /\ owners' = [owners EXCEPT ![p][b] = @ \ {t}]
        /\ heap' = [heap EXCEPT ![p][b] = IF owners[p][b] = {t} THEN Free ELSE @]
        /\ pc' = [pc EXCEPT ![t] = "idle"] /\ UNCHANGED g_context
        /\ \A u \in Threads \ {t} : call'[u] = call[u]
    BY DEF Return, Drop, IInv, TypesOfControl
  <1>3. owners' \in [Processes -> [Blocks -> SUBSET (Threads \cup {Holder})]]
    BY <1>1, <1>2 DEF IInv, TypesOfMemory
  <1>4. heap' \in [Processes -> [Blocks -> Tables \cup {Free}]]
    BY <1>1, <1>2 DEF IInv, TypesOfMemory
  <1>5. \A r \in Processes, x \in Blocks :
            /\ owners'[r][x] = IF r = p /\ x = b THEN owners[r][x] \ {t} ELSE owners[r][x]
            /\ heap'[r][x] = IF r = p /\ x = b /\ owners[r][x] = {t} THEN Free ELSE heap[r][x]
    BY <1>1, <1>2 DEF IInv, TypesOfMemory
  <1>6. \A r \in Processes, x \in Blocks :
            Readers(r, x)' = IF r = p /\ x = b THEN Readers(r, x) \ {t} ELSE Readers(r, x)
    BY <1>2 DEF Readers, IInv, TypesOfControl
  <1>7. t \in Readers(p, b) /\ t # Holder
    BY NullsAssumption DEF Readers, Return
  <1> HIDE DEF p, b
  <1>8. ASSUME NEW r \in Processes, NEW x \in Blocks
        PROVE  /\ owners'[r][x] = (IF g_context'[r] = x THEN {Holder} ELSE {}) \cup Readers(r, x)'
               /\ heap'[r][x] # Free <=> owners'[r][x] # {}
    <2>1. /\ owners[r][x] = (IF g_context[r] = x THEN {Holder} ELSE {}) \cup Readers(r, x)
          /\ heap[r][x] # Free <=> owners[r][x] # {}
      BY DEF IInv, Ownership
    <2>2. CASE r = p /\ x = b
      <3>1. t \in owners[r][x]
        BY <2>1, <2>2, <1>7
      <3>2. /\ owners'[r][x] = owners[r][x] \ {t}
            /\ Readers(r, x)' = Readers(r, x) \ {t}
            /\ heap'[r][x] = IF owners[r][x] = {t} THEN Free ELSE heap[r][x]
        BY <2>2, <1>5, <1>6
      <3>3. owners'[r][x] = (IF g_context'[r] = x THEN {Holder} ELSE {}) \cup Readers(r, x)'
        BY <2>1, <3>2, <1>2, <1>7
      <3>4. owners[r][x] \ {t} # {} <=> owners[r][x] # {t}
        BY <3>1
      <3>5. heap[r][x] # Free
        BY <2>1, <3>1
      <3> QED  BY <3>2, <3>3, <3>4, <3>5
    <2>3. CASE ~(r = p /\ x = b)
      BY <2>1, <2>3, <1>2, <1>5, <1>6
    <2> QED  BY <2>2, <2>3
  <1>9. Ownership'
    BY <1>8 DEF Ownership
  <1>10. ASSUME NEW r \in Processes, g_context[r] # NoBlock
         PROVE  heap'[r][g_context[r]] = heap[r][g_context[r]]
    <2>1. g_context[r] \in Blocks
      BY <1>10 DEF IInv, TypesOfMemory
    <2>2. owners[r][g_context[r]] # {t}
      BY <2>1, <1>7 DEF IInv, Ownership
    <2> QED  BY <2>1, <2>2, <1>5
  <1> QED  BY <1>3, <1>4, <1>9, <1>10

\* A reset leaves the other processes alone.
LEMMA ResetApart ==
    ASSUME IInv, NEW p \in Processes, Reset(p)
    PROVE  \A r \in Processes \ {p} : g_context'[r] = g_context[r] /\ heap'[r] = heap[r]
  <1>1. \A r \in Processes \ {p} : g_context'[r] = g_context[r]
    BY DEF IInv, TypesOfMemory, Reset
  <1>2. \A r \in Processes \ {p} : heap'[r] = heap[r]
    <2>1. CASE g_context[p] = NoBlock
      BY <2>1 DEF Reset
    <2>2. CASE g_context[p] # NoBlock
      BY <2>2 DEF IInv, TypesOfMemory, Reset, Drop
    <2> QED  BY <2>1, <2>2
  <1> QED  BY <1>1, <1>2

\* A call that enters and is done at once finds no peer in a build or a save:
\* what it changes in its own process disturbs nobody.
LEMMA QuietCallKeeps ==
    ASSUME IInv, NEW t \in Threads, Enters(t), UNCHANGED <<pc, path, tmp>>,
           \A r \in Processes \ {ProcessOf[t]} :
               g_context'[r] = g_context[r] /\ heap'[r] = heap[r] /\ g_config'[r] = g_config[r]
    PROVE  Building' /\ Writing'
  <1>1. ASSUME NEW u \in Threads, pc[u] \notin {"idle", "multiply"}
        PROVE  ProcessOf[u] \in Processes \ {ProcessOf[t]}
    BY <1>1, ThreadsAssumption DEF Enters, Peers
  <1>2. Building'
    BY <1>1 DEF IInv, Building
  <1>3. Writing'
    <2>1. ASSUME NEW u \in Threads, pc'[u] \in {"write", "rename"}
          PROVE  pc'[u] = pc[u] /\ path'[u] = path[u] /\ Saved(u)' = Saved(u)
      <3>1. ProcessOf[u] \in Processes \ {ProcessOf[t]}
        BY <1>1, <2>1
      <3> QED  BY <3>1 DEF Saved
    <2> QED  BY <2>1, WritingKept
  <1> QED  BY <1>2, <1>3

\* configure_fixed_base keeps the invariant.
LEMMA ConfigureKeeps ==
    ASSUME IInv, NEW t \in Threads, NEW c \in Configs, Configure(t, c)
    PROVE  IInv'
  <1>1. TypesOfMemory'
    <2>1. Effective(c) \in ConfigTypes
      BY ConfigsAssumption, EffectiveType
    <2>2. ProcessOf[t] \in Processes
      BY ThreadsAssumption
    <2>3. Reset(ProcessOf[t]) /\ g_config' = [g_config EXCEPT ![ProcessOf[t]] = Effective(c)]
      BY DEF Configure
    <2> QED  BY <2>1, <2>2, <2>3, ResetFacts DEF IInv, TypesOfMemory
  <1>2. TypesOfControl'
    BY DEF IInv, TypesOfControl, PC, Configure, Enters
  <1>3. TypesOfFiles'
    BY DEF IInv, TypesOfFiles, Configure, files
  <1>4. Exclusive'
    BY DEF IInv, Exclusive, BuildSteps, Configure
  <1>5. Ownership'
    BY ThreadsAssumption, NullsAssumption
    DEF IInv, Ownership, Readers, TypesOfMemory, TypesOfControl, Multiplying, Configure, Enters,
        Effective, Reset, Drop, Peers, files
  <1>6. Multiplying'
    BY DEF IInv, Multiplying, Configure
  <1>7. Building' /\ Writing'
    <2>1. ProcessOf[t] \in Processes
      BY ThreadsAssumption
    <2>2. Enters(t) /\ Reset(ProcessOf[t]) /\ UNCHANGED <<pc, path, tmp>>
      BY DEF Configure, files
    <2>3. \A r \in Processes \ {ProcessOf[t]} : g_config'[r] = g_config[r]
      BY DEF IInv, TypesOfMemory, Configure
    <2> QED  BY <2>1, <2>2, <2>3, ResetApart, QuietCallKeeps
  <1>8. PublishedWhole'
    BY DEF IInv, PublishedWhole, Configure, files
  <1>9. ContextFitsConfig'
    BY DEF IInv, ContextFitsConfig, FullTable, TypesOfMemory, Ownership, Configure, Enters,
           Reset, Drop, Peers, files
  <1>10. NoTemporaryLeft'
    BY DEF IInv, NoTemporaryLeft, Configure, files
  <1> QED
    BY <1>1, <1>2, <1>3, <1>4, <1>5, <1>6, <1>7, <1>8, <1>9, <1>10 DEF IInv

\* set_cache_directory keeps the invariant.
LEMMA SetCacheDirectoryKeeps ==
    ASSUME IInv, NEW t \in Threads, NEW dir \in Dirs, SetCacheDirectory(t, dir)
    PROVE  IInv'
  <1>1. TypesOfMemory'
    <2>1. ProcessOf[t] \in Processes
      BY ThreadsAssumption
    <2>2. [g_config[ProcessOf[t]] EXCEPT !.dir = dir] \in ConfigTypes
      BY <2>1, DirectoryType DEF IInv, TypesOfMemory
    <2>3. g_config' \in [Processes -> ConfigTypes]
      BY <2>1, <2>2 DEF IInv, TypesOfMemory, SetCacheDirectory
    <2>4. Reset(ProcessOf[t])
      BY DEF SetCacheDirectory
    <2> QED  BY <2>1, <2>3, <2>4, ResetFacts DEF TypesOfMemory
  <1>2. TypesOfControl'
    BY DEF IInv, TypesOfControl, PC, SetCacheDirectory, Enters
  <1>3. TypesOfFiles'
    BY DEF IInv, TypesOfFiles, SetCacheDirectory, files
  <1>4. Exclusive'
    BY DEF IInv, Exclusive, BuildSteps, SetCacheDirectory
  <1>5. Ownership'
    BY ThreadsAssumption, NullsAssumption
    DEF IInv, Ownership, Readers, TypesOfMemory, TypesOfControl, Multiplying, SetCacheDirectory,
        Enters, Reset, Drop, Peers, files
  <1>6. Multiplying'
    BY DEF IInv, Multiplying, SetCacheDirectory
  <1>7. Building' /\ Writing'
    <2>1. ProcessOf[t] \in Processes
      BY ThreadsAssumption
    <2>2. Enters(t) /\ Reset(ProcessOf[t]) /\ UNCHANGED <<pc, path, tmp>>
      BY DEF SetCacheDirectory, files
    <2>3. \A r \in Processes \ {ProcessOf[t]} : g_config'[r] = g_config[r]
      BY DEF IInv, TypesOfMemory, SetCacheDirectory
    <2> QED  BY <2>1, <2>2, <2>3, ResetApart, QuietCallKeeps
  <1>8. PublishedWhole'
    BY DEF IInv, PublishedWhole, SetCacheDirectory, files
  <1>9. ContextFitsConfig'
    BY DEF IInv, ContextFitsConfig, FullTable, TypesOfMemory, Ownership, SetCacheDirectory,
           Enters, Reset, Drop, Peers, files
  <1>10. NoTemporaryLeft'
    BY DEF IInv, NoTemporaryLeft, SetCacheDirectory, files
  <1> QED
    BY <1>1, <1>2, <1>3, <1>4, <1>5, <1>6, <1>7, <1>8, <1>9, <1>10 DEF IInv

\* A call that finds the table keeps the invariant.
LEMMA BeginBuiltKeeps ==
    ASSUME IInv, NEW t \in Threads, NEW ks \in Calls \cup {<<>>}, BeginBuilt(t, ks)
    PROVE  IInv'
  <1>1. TypesOfMemory'
    <2>1. CASE ks = <<>>
      BY <2>1 DEF IInv, TypesOfMemory, BeginBuilt, Enters, memory, files
    <2>2. CASE ks # <<>>
      <3>1. ks \in Calls /\ pc[t] # "multiply"
        BY <2>2 DEF BeginBuilt, Enters
      <3>2. TakeSnapshot(t, ks) /\ pc' = [pc EXCEPT ![t] = "multiply"]
        BY <2>2 DEF BeginBuilt
      <3>3. g_context[ProcessOf[t]] # NoBlock /\ UNCHANGED <<g_context, heap>>
        BY DEF BeginBuilt
      <3> QED  BY <3>1, <3>2, <3>3, SnapshotFacts DEF IInv, TypesOfMemory, BeginBuilt
    <2> QED  BY <2>1, <2>2
  <1>2. TypesOfControl'
    <2>1. CASE ks = <<>>
      BY <2>1 DEF IInv, TypesOfControl, BeginBuilt, Enters, memory, files
    <2>2. CASE ks # <<>>
      <3>1. ks \in Calls /\ pc[t] # "multiply"
        BY <2>2 DEF BeginBuilt, Enters
      <3>2. TakeSnapshot(t, ks) /\ pc' = [pc EXCEPT ![t] = "multiply"]
        BY <2>2 DEF BeginBuilt
      <3>3. g_context[ProcessOf[t]] # NoBlock /\ UNCHANGED <<g_context, heap>>
        BY DEF BeginBuilt
      <3>4. DOMAIN call' = Threads /\ \A u \in Threads : call'[u] = NoCall \/ IsCall(call'[u])
        BY <3>1, <3>2, <3>3, SnapshotFacts DEF IInv, TypesOfControl
      <3>5. UNCHANGED <<mutex, path, crashes>> /\ calls' = calls + 1
        BY DEF BeginBuilt, Enters
      <3> QED  BY <3>2, <3>4, <3>5 DEF IInv, TypesOfControl, PC
    <2> QED  BY <2>1, <2>2
  <1>3. TypesOfFiles'
    BY DEF IInv, TypesOfFiles, BeginBuilt, files
  <1>4. Exclusive'
    BY DEF IInv, Exclusive, BuildSteps, TypesOfControl, PC, BeginBuilt, Enters, TakeSnapshot,
           NewCall, Peers, files
  <1>5. Ownership'
    <2>1. CASE ks = <<>>
      BY <2>1 DEF IInv, Ownership, Readers, BeginBuilt, Enters, memory, files
    <2>2. CASE ks # <<>>
      <3>1. ks \in Calls /\ pc[t] # "multiply"
        BY <2>2 DEF BeginBuilt, Enters
      <3>2. TakeSnapshot(t, ks) /\ pc' = [pc EXCEPT ![t] = "multiply"]
        BY <2>2 DEF BeginBuilt
      <3>3. g_context[ProcessOf[t]] # NoBlock /\ UNCHANGED <<g_context, heap>>
        BY DEF BeginBuilt
      <3> QED  BY <3>1, <3>2, <3>3, SnapshotFacts DEF IInv, Ownership
    <2> QED  BY <2>1, <2>2
  <1>6. Multiplying'
    <2>1. CASE ks = <<>>
      BY <2>1 DEF IInv, Multiplying, BeginBuilt
    <2>2. CASE ks # <<>>
      <3>1. ks \in Calls /\ pc[t] # "multiply"
        BY <2>2 DEF BeginBuilt, Enters
      <3>2. TakeSnapshot(t, ks) /\ pc' = [pc EXCEPT ![t] = "multiply"]
        BY <2>2 DEF BeginBuilt
      <3>3. g_context[ProcessOf[t]] # NoBlock /\ UNCHANGED <<g_context, heap>>
        BY DEF BeginBuilt
      <3>4. /\ IsCall(call'[t]) /\ call'[t].block \in Blocks
            /\ \A u \in Threads \ {t} : call'[u] = call[u]
        BY <3>1, <3>2, <3>3, SnapshotFacts
      <3>5. \A u \in Threads \ {t} : pc'[u] = pc[u]
        BY <3>2 DEF IInv, TypesOfControl
      <3> QED  BY <3>4, <3>5 DEF IInv, Multiplying, IsCall
    <2> QED  BY <2>1, <2>2
  <1>7. Building'
    BY DEF IInv, Building, TypesOfMemory, TypesOfControl, Exclusive, BuildSteps, PC, BeginBuilt,
           Enters, TakeSnapshot, NewCall, Peers, files
  <1>8. Writing'
    BY DEF IInv, Writing, Partial, Saved, TypesOfMemory, TypesOfControl, TypesOfFiles,
           Exclusive, BuildSteps, PC, Building, BeginBuilt, Enters, TakeSnapshot, NewCall,
           Peers, files
  <1>9. PublishedWhole'
    BY DEF IInv, PublishedWhole, BeginBuilt, files
  <1>10. ContextFitsConfig'
    BY DEF IInv, ContextFitsConfig, FullTable, BeginBuilt
  <1>11. NoTemporaryLeft'
    BY DEF IInv, NoTemporaryLeft, TypesOfControl, BeginBuilt, Enters, TakeSnapshot, NewCall,
           Peers, files
  <1> QED
    BY <1>1, <1>2, <1>3, <1>4, <1>5, <1>6, <1>7, <1>8, <1>9, <1>10, <1>11 DEF IInv

\* A call that has to build it keeps the invariant.
LEMMA BeginBuildKeeps ==
    ASSUME IInv, NEW t \in Threads, NEW ks \in Calls \cup {<<>>}, BeginBuild(t, ks)
    PROVE  IInv'
  <1>1. TypesOfMemory'
    BY DEF IInv, TypesOfMemory, BeginBuild, memory
  <1>2. TypesOfControl'
    <2>1. /\ DefaultPath(g_config[ProcessOf[t]]) \in Files
          /\ CachePath(g_config[ProcessOf[t]]) \in Files
      BY ThreadsAssumption, DiskAssumption
      DEF IInv, TypesOfMemory, ConfigTypes, DefaultPath, CachePath, Files
    <2>2. ks = <<>> \/ IsCall(NewCall(ks, NoBlock))
      BY NewCallType
    <2>3. \A u \in Threads : call'[u] = NoCall \/ IsCall(call'[u])
      BY <2>2 DEF IInv, TypesOfControl, BeginBuild
    <2>4. mutex' = [mutex EXCEPT ![ProcessOf[t]] = t] /\ calls' = calls + 1 /\ crashes' = crashes
      BY DEF BeginBuild, Enters
    <2>5. path' \in [Threads -> Files \cup {NoFile}] /\ pc' \in [Threads -> PC]
      <3>1. CASE g_config[ProcessOf[t]].cache
        BY <3>1, <2>1 DEF IInv, TypesOfControl, PC, BeginBuild
      <3>2. CASE ~g_config[ProcessOf[t]].cache
        BY <3>2 DEF IInv, TypesOfControl, PC, BeginBuild
      <3> QED  BY <3>1, <3>2
    <2>6. DOMAIN call' = Threads
      BY DEF IInv, TypesOfControl, BeginBuild
    <2>7. mutex' \in [Processes -> Threads \cup {NoThread}]
      BY <2>4, ThreadsAssumption DEF IInv, TypesOfControl
    <2>8. calls' \in Nat /\ crashes' \in Nat
      BY <2>4 DEF IInv, TypesOfControl
    <2> QED  BY <2>3, <2>5, <2>6, <2>7, <2>8 DEF TypesOfControl
  <1>3. TypesOfFiles'
    BY DEF IInv, TypesOfFiles, BeginBuild, files
  <1>4. Exclusive'
    <2>1. \A u \in Threads \ {t} : pc'[u] = pc[u]
      BY DEF IInv, TypesOfControl, BeginBuild
    <2>2. \A u \in Peers(t) : pc[u] \notin BuildSteps
      BY DEF BeginBuild, Enters, BuildSteps
    <2> QED  BY <2>1, <2>2, ExclusiveKept
  <1>5. Ownership'
    BY DEF IInv, Ownership, Readers, TypesOfMemory, TypesOfControl, Multiplying, BeginBuild,
           Enters, CachePath, DefaultPath, NewCall, Peers, memory, files
  <1>6. Multiplying'
    BY DEF IInv, Multiplying, TypesOfControl, IsCall, BeginBuild, Enters, CachePath,
           DefaultPath, NewCall, Peers, memory, files
  <1>7. Building'
    <2>1. CachePath(g_config[ProcessOf[t]]) \in Files
      BY ThreadsAssumption, DiskAssumption
      DEF IInv, TypesOfMemory, ConfigTypes, DefaultPath, CachePath, Files
    <2>2. \A u \in Threads \ {t} : pc'[u] = pc[u] /\ path'[u] = path[u]
      BY DEF IInv, TypesOfControl, BeginBuild
    <2>3. UNCHANGED <<g_context, g_config>>
      BY DEF BeginBuild, memory
    <2>4. \/ pc'[t] = "load" /\ path'[t] \in Files
          \/ pc'[t] = "build" /\ ~g_config[ProcessOf[t]].cache
      <3>1. CASE g_config[ProcessOf[t]].cache
        <4>1. path' = [path EXCEPT ![t] = CachePath(g_config[ProcessOf[t]])]
              /\ pc' = [pc EXCEPT ![t] = "load"]
          BY <3>1 DEF BeginBuild
        <4>2. path'[t] = CachePath(g_config[ProcessOf[t]]) /\ pc'[t] = "load"
          BY <4>1 DEF IInv, TypesOfControl
        <4> QED  BY <4>2, <2>1
      <3>2. CASE ~g_config[ProcessOf[t]].cache
        BY <3>2 DEF IInv, TypesOfControl, BeginBuild
      <3> QED  BY <3>1, <3>2
    <2> QED  BY <2>2, <2>3, <2>4 DEF IInv, Building
  <1>8. Writing'
    BY DEF IInv, Writing, Partial, Saved, TypesOfMemory, TypesOfControl, TypesOfFiles,
           Exclusive, BuildSteps, PC, Building, BeginBuild, Enters, CachePath, DefaultPath,
           NewCall, Peers, memory, files
  <1>9. PublishedWhole'
    BY DEF IInv, PublishedWhole, BeginBuild, files
  <1>10. ContextFitsConfig'
    BY DEF IInv, ContextFitsConfig, FullTable, BeginBuild, memory
  <1>11. NoTemporaryLeft'
    <2>1. \A u \in Threads : pc[u] \in {"write", "rename"} =>
              pc'[u] = pc[u] /\ path'[u] = path[u]
      BY DEF IInv, TypesOfControl, BeginBuild, Enters
    <2>2. UNCHANGED <<tmp, crashes>>
      BY DEF BeginBuild, files, bounds
    <2> QED  BY <2>1, <2>2, TemporaryKept
  <1> QED
    BY <1>1, <1>2, <1>3, <1>4, <1>5, <1>6, <1>7, <1>8, <1>9, <1>10, <1>11 DEF IInv

\* save_precompute_cache keeps the invariant.
LEMMA SavePrecomputeCacheKeeps ==
    ASSUME IInv, NEW t \in Threads, NEW f \in Named, SavePrecomputeCache(t, f)
    PROVE  IInv'
  <1>1. TypesOfMemory'
    BY DEF IInv, TypesOfMemory, SavePrecomputeCache, memory
  <1>2. TypesOfControl'
    <2>1. f \in Files
      BY DiskAssumption DEF Files
    <2> QED  BY <2>1 DEF IInv, TypesOfControl, PC, SavePrecomputeCache, Enters
  <1>3. TypesOfFiles'
    BY DEF IInv, TypesOfFiles, SavePrecomputeCache, files
  <1>4. Exclusive'
    BY DEF IInv, Exclusive, BuildSteps, TypesOfControl, PC, SavePrecomputeCache, Enters, Alone,
           Peers, memory, files
  <1>5. Ownership'
    BY DEF IInv, Ownership, Readers, TypesOfMemory, TypesOfControl, Multiplying,
           SavePrecomputeCache, Enters, Alone, Peers, memory, files
  <1>6. Multiplying'
    BY DEF IInv, Multiplying, SavePrecomputeCache
  <1>7. Building'
    <2>1. f \in Files
      BY DiskAssumption DEF Files
    <2> QED  BY <2>1 DEF IInv, TypesOfControl, Building, SavePrecomputeCache, Enters, memory
  <1>8. Writing'
    BY DEF IInv, Writing, Partial, Saved, TypesOfMemory, TypesOfControl, TypesOfFiles,
           Exclusive, BuildSteps, PC, Building, SavePrecomputeCache, Enters, Alone, Peers,
           memory, files
  <1>9. PublishedWhole'
    BY DEF IInv, PublishedWhole, SavePrecomputeCache, files
  <1>10. ContextFitsConfig'
    BY DEF IInv, ContextFitsConfig, FullTable, SavePrecomputeCache, memory
  <1>11. NoTemporaryLeft'
    <2>1. \A u \in Threads : pc[u] \in {"write", "rename"} =>
              pc'[u] = pc[u] /\ path'[u] = path[u]
      BY DEF IInv, TypesOfControl, SavePrecomputeCache, Enters
    <2>2. UNCHANGED <<tmp, crashes>>
      BY DEF SavePrecomputeCache, files, bounds
    <2> QED  BY <2>1, <2>2, TemporaryKept
  <1> QED
    BY <1>1, <1>2, <1>3, <1>4, <1>5, <1>6, <1>7, <1>8, <1>9, <1>10, <1>11 DEF IInv

\* load_precompute_cache keeps the invariant.
LEMMA LoadPrecomputeCacheKeeps ==
    ASSUME IInv, NEW t \in Threads, NEW f \in Named, LoadPrecomputeCache(t, f)
    PROVE  IInv'
  <1>1. ProcessOf[t] \in Processes /\ f \in Files
    BY ThreadsAssumption, DiskAssumption DEF Files
  <1>2. disk[f] \in Tables
    BY <1>1 DEF IInv, TypesOfFiles, LoadPrecomputeCache, Loadable
  <1>3. Install(ProcessOf[t], disk[f]) /\ UNCHANGED <<pc, call, g_config>>
    BY DEF LoadPrecomputeCache
  <1>4. TypesOfMemory'
    BY <1>1, <1>2, <1>3, InstallFacts DEF IInv, TypesOfMemory
  <1>5. TypesOfControl'
    BY DEF IInv, TypesOfControl, PC, LoadPrecomputeCache, Enters
  <1>6. TypesOfFiles'
    BY DEF IInv, TypesOfFiles, LoadPrecomputeCache, files
  <1>7. Exclusive'
    BY DEF IInv, Exclusive, BuildSteps, LoadPrecomputeCache
  <1>8. Ownership'
    BY <1>1, <1>2, <1>3, InstallFacts
  <1>9. Multiplying'
    BY DEF IInv, Multiplying, LoadPrecomputeCache
  <1>10. \A r \in Processes \ {ProcessOf[t]} : g_context'[r] = g_context[r] /\ heap'[r] = heap[r]
    BY <1>1, <1>2, <1>3, InstallFacts
  <1>11. Building' /\ Writing'
    <2>1. Enters(t) /\ UNCHANGED <<pc, path, tmp, g_config>>
      BY DEF LoadPrecomputeCache, files
    <2> QED  BY <1>10, <2>1, QuietCallKeeps
  <1>12. PublishedWhole'
    BY DEF IInv, PublishedWhole, LoadPrecomputeCache, files
  <1>13. ContextFitsConfig'
    <2>4. disk[f] = FullTable(g_config[ProcessOf[t]])
      BY <1>1, <1>2, LoadableIsFull DEF IInv, TypesOfMemory, LoadPrecomputeCache
    <2> QED  BY <1>1, <1>2, <1>3, <2>4, InstallFits
  <1>14. NoTemporaryLeft'
    BY DEF IInv, NoTemporaryLeft, LoadPrecomputeCache, files
  <1> QED
    BY <1>4, <1>5, <1>6, <1>7, <1>8, <1>9, <1>11, <1>12, <1>13, <1>14 DEF IInv

\* The load of a cache file keeps the invariant.
LEMMA LoadCacheKeeps ==
    ASSUME IInv, NEW t \in Threads, LoadCache(t)
    PROVE  IInv'
  <1>1. TypesOfMemory'
    <2> DEFINE p == ProcessOf[t]
               F == disk[path[t]]
    <2>1. p \in Processes /\ path[t] \in Files
      BY ThreadsAssumption DEF IInv, Building, LoadCache
    <2>2. CASE Loadable(F, g_config[p], g_config[p].maxw)
      <3>1. F \in Tables
        BY <2>1, <2>2 DEF IInv, TypesOfFiles, Loadable
      <3>2. Install(p, F) /\ pc' = [pc EXCEPT ![t] = "snapshot"]
        BY <2>2 DEF LoadCache
      <3>3. UNCHANGED <<call, g_config>>
        BY DEF LoadCache
      <3>4. \A u \in Threads : pc'[u] = "multiply" <=> pc[u] = "multiply"
        BY <3>2 DEF IInv, TypesOfControl, LoadCache
      <3> QED  BY <2>1, <3>1, <3>2, <3>3, <3>4, InstallFacts DEF IInv, TypesOfMemory
    <2>3. CASE ~Loadable(F, g_config[p], g_config[p].maxw)
      <3>1. pc' = [pc EXCEPT ![t] = "build"] /\ UNCHANGED <<g_context, heap, owners>>
        BY <2>3 DEF LoadCache
      <3> QED  BY <3>1 DEF IInv, TypesOfMemory, LoadCache
    <2> QED  BY <2>2, <2>3
  <1>2. TypesOfControl'
    <2> DEFINE p == ProcessOf[t]
               F == disk[path[t]]
    <2>1. p \in Processes /\ path[t] \in Files
      BY ThreadsAssumption DEF IInv, Building, LoadCache
    <2>2. CASE Loadable(F, g_config[p], g_config[p].maxw)
      <3>1. F \in Tables
        BY <2>1, <2>2 DEF IInv, TypesOfFiles, Loadable
      <3>2. Install(p, F) /\ pc' = [pc EXCEPT ![t] = "snapshot"]
        BY <2>2 DEF LoadCache
      <3> QED  BY <3>2 DEF IInv, TypesOfControl, PC, LoadCache, bounds
    <2>3. CASE ~Loadable(F, g_config[p], g_config[p].maxw)
      <3>1. pc' = [pc EXCEPT ![t] = "build"] /\ UNCHANGED <<g_context, heap, owners>>
        BY <2>3 DEF LoadCache
      <3> QED  BY <3>1 DEF IInv, TypesOfControl, PC, LoadCache, bounds
    <2> QED  BY <2>2, <2>3
  <1>3. TypesOfFiles'
    BY DEF IInv, TypesOfFiles, LoadCache, files
  <1>4. Exclusive'
    <2>1. \A u \in Threads \ {t} : pc'[u] = pc[u]
      BY DEF IInv, TypesOfControl, LoadCache
    <2>2. pc[t] \in BuildSteps
      BY DEF LoadCache, PC, BuildSteps
    <2> QED  BY <2>1, <2>2, ExclusiveKept
  <1>5. Ownership'
    <2> DEFINE p == ProcessOf[t]
               F == disk[path[t]]
    <2>1. p \in Processes /\ path[t] \in Files
      BY ThreadsAssumption DEF IInv, Building, LoadCache
    <2>2. CASE Loadable(F, g_config[p], g_config[p].maxw)
      <3>1. F \in Tables
        BY <2>1, <2>2 DEF IInv, TypesOfFiles, Loadable
      <3>2. Install(p, F) /\ pc' = [pc EXCEPT ![t] = "snapshot"]
        BY <2>2 DEF LoadCache
      <3>3. UNCHANGED <<call, g_config>>
        BY DEF LoadCache
      <3>4. \A u \in Threads : pc'[u] = "multiply" <=> pc[u] = "multiply"
        BY <3>2 DEF IInv, TypesOfControl, LoadCache
      <3> QED  BY <2>1, <3>1, <3>2, <3>3, <3>4, InstallFacts
    <2>3. CASE ~Loadable(F, g_config[p], g_config[p].maxw)
      <3>1. pc' = [pc EXCEPT ![t] = "build"] /\ UNCHANGED <<g_context, heap, owners>>
        BY <2>3 DEF LoadCache
      <3>2. UNCHANGED call
        BY DEF LoadCache
      <3>3. \A u \in Threads : pc'[u] = "multiply" <=> pc[u] = "multiply"
        BY <3>1 DEF IInv, TypesOfControl, LoadCache
      <3> QED  BY <3>1, <3>2, <3>3 DEF IInv, Ownership, Readers
    <2> QED  BY <2>2, <2>3
  <1>6. Multiplying'
    BY DEF IInv, Multiplying, TypesOfControl, IsCall, LoadCache, Loadable, Install, files, bounds
  <1>7. Building'
    BY ThreadsAssumption, NullsAssumption
    DEF IInv, Building, TypesOfMemory, TypesOfControl, Exclusive, BuildSteps, PC, LoadCache,
        Loadable, Install, files, bounds
  <1>8. Writing'
    <2> DEFINE p == ProcessOf[t]
               F == disk[path[t]]
    <2>1. p \in Processes /\ path[t] \in Files
      BY ThreadsAssumption DEF IInv, Building, LoadCache
    <2>2. CASE Loadable(F, g_config[p], g_config[p].maxw)
      <3>1. F \in Tables
        BY <2>1, <2>2 DEF IInv, TypesOfFiles, Loadable
      <3>2. Install(p, F) /\ pc' = [pc EXCEPT ![t] = "snapshot"]
        BY <2>2 DEF LoadCache
      <3>3. UNCHANGED <<call, g_config>>
        BY DEF LoadCache
      <3>4. \A u \in Threads : pc'[u] = "multiply" <=> pc[u] = "multiply"
        BY <3>2 DEF IInv, TypesOfControl, LoadCache
      <3>5. ASSUME NEW u \in Threads, pc'[u] \in {"write", "rename"}
            PROVE  pc'[u] = pc[u] /\ path'[u] = path[u] /\ Saved(u)' = Saved(u)
        <4>1. u # t /\ pc'[u] = pc[u] /\ path'[u] = path[u]
          BY <3>5, <3>2 DEF IInv, TypesOfControl, LoadCache
        <4>2. ProcessOf[u] # p
          BY <4>1, <3>5 DEF IInv, Exclusive, BuildSteps, PC, LoadCache
        <4> QED
          BY <4>1, <4>2, <2>1, <3>1, <3>2, <3>3, <3>4, InstallFacts, ThreadsAssumption DEF Saved
      <3>6. UNCHANGED tmp
        BY DEF LoadCache, files
      <3> QED  BY <3>5, <3>6, WritingKept
    <2>3. CASE ~Loadable(F, g_config[p], g_config[p].maxw)
      <3>1. pc' = [pc EXCEPT ![t] = "build"] /\ UNCHANGED <<g_context, heap, owners>>
        BY <2>3 DEF LoadCache
      <3>2. ASSUME NEW u \in Threads, pc'[u] \in {"write", "rename"}
            PROVE  pc'[u] = pc[u] /\ path'[u] = path[u] /\ Saved(u)' = Saved(u)
        <4>1. u # t /\ pc'[u] = pc[u] /\ path'[u] = path[u]
          BY <3>2, <3>1 DEF IInv, TypesOfControl, LoadCache
        <4>2. ProcessOf[u] # p
          BY <4>1, <3>2 DEF IInv, Exclusive, BuildSteps, PC, LoadCache
        <4> QED  BY <4>1, <3>1 DEF Saved
      <3>3. UNCHANGED tmp
        BY DEF LoadCache, files
      <3> QED  BY <3>2, <3>3, WritingKept
    <2> QED  BY <2>2, <2>3
  <1>9. PublishedWhole'
    BY DEF IInv, PublishedWhole, LoadCache, files
  <1>10. ContextFitsConfig'
    <2> DEFINE p == ProcessOf[t]
               F == disk[path[t]]
    <2>1. p \in Processes /\ path[t] \in Files
      BY ThreadsAssumption DEF IInv, Building, LoadCache
    <2>2. CASE Loadable(F, g_config[p], g_config[p].maxw)
      <3>1. F \in Tables
        BY <2>1, <2>2 DEF IInv, TypesOfFiles, Loadable
      <3>2. Install(p, F) /\ pc' = [pc EXCEPT ![t] = "snapshot"]
        BY <2>2 DEF LoadCache
      <3>3. UNCHANGED <<call, g_config>>
        BY DEF LoadCache
      <3>4. \A u \in Threads : pc'[u] = "multiply" <=> pc[u] = "multiply"
        BY <3>2 DEF IInv, TypesOfControl, LoadCache
      <3>5. F = FullTable(g_config[p])
        BY <2>1, <2>2, <3>1, LoadableIsFull DEF IInv, TypesOfMemory
      <3> QED  BY <2>1, <3>1, <3>2, <3>3, <3>4, <3>5, InstallFits
    <2>3. CASE ~Loadable(F, g_config[p], g_config[p].maxw)
      <3>1. pc' = [pc EXCEPT ![t] = "build"] /\ UNCHANGED <<g_context, heap, owners>>
        BY <2>3 DEF LoadCache
      <3>2. UNCHANGED g_config
        BY DEF LoadCache
      <3> QED  BY <3>1, <3>2 DEF IInv, ContextFitsConfig, FullTable
    <2> QED  BY <2>2, <2>3
  <1>11. NoTemporaryLeft'
    BY DEF IInv, NoTemporaryLeft, TypesOfControl, LoadCache, Loadable, Install, files, bounds
  <1> QED
    BY <1>1, <1>2, <1>3, <1>4, <1>5, <1>6, <1>7, <1>8, <1>9, <1>10, <1>11 DEF IInv

\* A build keeps the invariant.
LEMMA BuildContextKeeps ==
    ASSUME IInv, NEW t \in Threads, BuildContext(t)
    PROVE  IInv'
  <1> DEFINE p == ProcessOf[t]
             T == FullTable(g_config[p])
  <1>1. p \in Processes /\ T \in Tables
    BY ThreadsAssumption, TableFacts DEF IInv, TypesOfMemory
  <1>2. Install(p, T) /\ UNCHANGED <<call, g_config, path, tmp>>
    BY DEF BuildContext, files
  <1>3. /\ pc'[t] = IF g_config[p].cache THEN "open" ELSE "snapshot"
        /\ \A u \in Threads \ {t} : pc'[u] = pc[u]
    BY DEF IInv, TypesOfControl, BuildContext
  <1>4. \A u \in Threads : pc'[u] = "multiply" <=> pc[u] = "multiply"
    BY <1>3 DEF BuildContext
  <1>5. TypesOfMemory'
    BY <1>1, <1>2, <1>4, InstallFacts DEF IInv, TypesOfMemory
  <1>6. TypesOfControl'
    BY DEF IInv, TypesOfControl, PC, BuildContext, bounds
  <1>7. TypesOfFiles'
    BY DEF IInv, TypesOfFiles, BuildContext, files
  <1>8. Exclusive'
    BY DEF IInv, Exclusive, BuildSteps, TypesOfControl, PC, BuildContext, Install, files, bounds
  <1>9. Ownership'
    BY <1>1, <1>2, <1>4, InstallFacts
  <1>10. Multiplying'
    BY DEF IInv, Multiplying, BuildContext
  <1>11. Building'
    <2>5. g_context'[p] \in Blocks /\ \A r \in Processes \ {p} : g_context'[r] = g_context[r]
      BY <1>1, <1>2, <1>4, InstallFacts
    <2>6. g_config[p].cache => path[t] \in Files
      BY DEF IInv, Building, BuildContext
    <2> QED  BY <1>2, <1>3, <2>5, <2>6, ThreadsAssumption, NullsAssumption DEF IInv, Building
  <1>12. Writing'
    <2>5. ASSUME NEW u \in Threads, pc'[u] \in {"write", "rename"}
          PROVE  pc'[u] = pc[u] /\ path'[u] = path[u] /\ Saved(u)' = Saved(u)
      <3>1. u # t /\ pc'[u] = pc[u] /\ path'[u] = path[u]
        BY <2>5, <1>2, <1>3
      <3>2. ProcessOf[u] # p
        BY <3>1, <2>5 DEF IInv, Exclusive, BuildSteps, PC, BuildContext
      <3> QED  BY <3>1, <3>2, <1>1, <1>2, <1>4, InstallFacts, ThreadsAssumption DEF Saved
    <2> QED  BY <1>2, <2>5, WritingKept
  <1>13. PublishedWhole'
    BY DEF IInv, PublishedWhole, BuildContext, files
  <1>14. ContextFitsConfig'
    BY <1>1, <1>2, <1>4, InstallFits
  <1>15. NoTemporaryLeft'
    <2>1. \A u \in Threads : pc[u] \in {"write", "rename"} =>
              pc'[u] = pc[u] /\ path'[u] = path[u]
      BY DEF IInv, TypesOfControl, BuildContext
    <2>2. UNCHANGED <<tmp, crashes>>
      BY DEF BuildContext, files, bounds
    <2> QED  BY <2>1, <2>2, TemporaryKept
  <1> QED
    BY <1>5, <1>6, <1>7, <1>8, <1>9, <1>10, <1>11, <1>12, <1>13, <1>14, <1>15 DEF IInv

\* A build that throws keeps the invariant.
LEMMA BuildThrowsKeeps ==
    ASSUME IInv, NEW t \in Threads, BuildThrows(t)
    PROVE  IInv'
  <1>1. TypesOfMemory'
    BY DEF IInv, TypesOfMemory, BuildThrows, memory
  <1>2. TypesOfControl'
    BY DEF IInv, TypesOfControl, PC, BuildThrows, bounds
  <1>3. TypesOfFiles'
    BY DEF IInv, TypesOfFiles, BuildThrows, files
  <1>4. Exclusive'
    BY DEF IInv, Exclusive, BuildSteps, BuildThrows
  <1>5. Ownership'
    BY DEF IInv, Ownership, Readers, BuildThrows, memory
  <1>6. Multiplying'
    BY DEF IInv, Multiplying, BuildThrows
  <1>7. Building'
    BY DEF IInv, Building, TypesOfMemory, TypesOfControl, Exclusive, BuildSteps, PC,
           BuildThrows, memory, files, bounds
  <1>8. Writing'
    BY DEF IInv, Writing, Partial, Saved, BuildThrows, memory, files
  <1>9. PublishedWhole'
    BY DEF IInv, PublishedWhole, BuildThrows, files
  <1>10. ContextFitsConfig'
    BY DEF IInv, ContextFitsConfig, FullTable, BuildThrows, memory
  <1>11. NoTemporaryLeft'
    <2>1. \A u \in Threads : pc[u] \in {"write", "rename"} =>
              pc'[u] = pc[u] /\ path'[u] = path[u]
      BY DEF IInv, TypesOfControl, BuildThrows
    <2>2. UNCHANGED <<tmp, crashes>>
      BY DEF BuildThrows, files, bounds
    <2> QED  BY <2>1, <2>2, TemporaryKept
  <1> QED
    BY <1>1, <1>2, <1>3, <1>4, <1>5, <1>6, <1>7, <1>8, <1>9, <1>10, <1>11 DEF IInv

\* A save that fails keeps the invariant.
LEMMA SaveFailsKeeps ==
    ASSUME IInv, NEW t \in Threads, SaveFails(t)
    PROVE  IInv'
  <1>1. TypesOfMemory'
    BY DEF IInv, TypesOfMemory, SaveFails, memory
  <1>2. TypesOfControl'
    BY DEF IInv, TypesOfControl, PC, SaveFails, bounds, AfterSave
  <1>3. TypesOfFiles'
    <2>1. ProcessOf[t] \in Processes /\ path[t] \in Files
      BY SavedFacts DEF SaveFails
    <2>2. disk' = disk
          /\ tmp' = [tmp EXCEPT ![ProcessOf[t]][path[t]] = IF pc[t] = "open" THEN @ ELSE Missing]
      BY DEF SaveFails
    <2> QED  BY <2>1, <2>2 DEF IInv, TypesOfFiles
  <1>4. Exclusive'
    BY DEF IInv, Exclusive, BuildSteps, TypesOfControl, PC, SaveFails, AfterSave, memory, bounds
  <1>5. Ownership'
    BY DEF IInv, Ownership, Readers, TypesOfMemory, TypesOfControl, Multiplying, SaveFails,
           AfterSave, memory, bounds
  <1>6. Multiplying'
    BY DEF IInv, Multiplying, TypesOfControl, IsCall, SaveFails, AfterSave, memory, bounds
  <1>7. Building'
    BY DEF IInv, Building, TypesOfMemory, TypesOfControl, Exclusive, BuildSteps, PC, SaveFails,
           AfterSave, memory, bounds
  <1>8. Writing'
    <2>1. pc[t] \in BuildSteps
      BY DEF SaveFails, BuildSteps, PC
    <2>2. \A u \in Threads \ {t} : pc'[u] = pc[u] /\ path'[u] = path[u]
      BY DEF IInv, TypesOfControl, SaveFails, AfterSave
    <2>3. pc'[t] \in {"snapshot", "idle"}
      BY DEF IInv, TypesOfControl, SaveFails, AfterSave
    <2>4. PICK F : tmp' = [tmp EXCEPT ![ProcessOf[t]][path[t]] = F]
      BY DEF SaveFails
    <2>5. UNCHANGED <<heap, g_context>>
      BY DEF SaveFails, memory
    <2> QED  BY <2>1, <2>2, <2>3, <2>4, <2>5, OthersWrite
  <1>9. PublishedWhole'
    BY DEF IInv, PublishedWhole, SaveFails
  <1>10. ContextFitsConfig'
    BY DEF IInv, ContextFitsConfig, FullTable, SaveFails, memory
  <1>11. NoTemporaryLeft'
    <2> DEFINE own == ProcessOf[t]
    <2>1. own \in Processes /\ path[t] \in Files
      BY SavedFacts DEF SaveFails
    <2>2. \A u \in Threads \ {t} : pc'[u] = pc[u] /\ path'[u] = path[u]
      BY DEF IInv, TypesOfControl, SaveFails, AfterSave
    <2>3. /\ crashes' = crashes
          /\ \A q \in Processes, f \in Files : tmp'[q][f] # Missing => tmp[q][f] # Missing
      BY <2>1 DEF IInv, TypesOfFiles, SaveFails, bounds
    <2>4. pc[t] \in {"write", "rename"} => tmp'[own][path[t]] = Missing
      BY <2>1 DEF IInv, TypesOfFiles, SaveFails
    <2> SUFFICES ASSUME NEW q \in Processes, NEW f \in Files, tmp'[q][f] # Missing, ~(crashes > 0)
                 PROVE  \E u \in Threads : /\ ProcessOf[u] = q /\ path'[u] = f
                                           /\ pc'[u] \in {"write", "rename"}
      BY <2>3 DEF NoTemporaryLeft
    <2>5. PICK u \in Threads : ProcessOf[u] = q /\ path[u] = f /\ pc[u] \in {"write", "rename"}
      BY <2>3 DEF IInv, NoTemporaryLeft
    <2>6. u # t
      BY <2>4, <2>5
    <2> QED  BY <2>2, <2>5, <2>6
  <1> QED
    BY <1>1, <1>2, <1>3, <1>4, <1>5, <1>6, <1>7, <1>8, <1>9, <1>10, <1>11 DEF IInv

\* The temporary file, opened keeps the invariant.
LEMMA OpenTemporaryKeeps ==
    ASSUME IInv, NEW t \in Threads, OpenTemporary(t)
    PROVE  IInv'
  <1>1. TypesOfMemory'
    BY DEF IInv, TypesOfMemory, OpenTemporary, memory
  <1>2. TypesOfControl'
    BY DEF IInv, TypesOfControl, PC, OpenTemporary, bounds
  <1>3. TypesOfFiles'
    <2>1. /\ ProcessOf[t] \in Processes /\ path[t] \in Files
          /\ Saved(t) \in Tables /\ Complete(Saved(t))
      BY SavedFacts DEF OpenTemporary
    <2>2. Header(Saved(t)) \in Tables
      BY <2>1 DEF Header, Tables, Complete
    <2>3. disk' = disk /\ tmp' = [tmp EXCEPT ![ProcessOf[t]][path[t]] = Header(Saved(t))]
      BY DEF OpenTemporary
    <2> HIDE DEF Header
    <2> QED  BY <2>1, <2>2, <2>3 DEF IInv, TypesOfFiles
  <1>4. Exclusive'
    BY DEF IInv, Exclusive, BuildSteps, TypesOfControl, PC, OpenTemporary, Header, memory, bounds
  <1>5. Ownership'
    BY DEF IInv, Ownership, Readers, OpenTemporary, memory
  <1>6. Multiplying'
    BY DEF IInv, Multiplying, OpenTemporary
  <1>7. Building'
    BY DEF IInv, Building, OpenTemporary, memory
  <1>8. Writing'
    <2> DEFINE p == ProcessOf[t]
               F == Header(Saved(t))
    <2>1. /\ p \in Processes /\ path[t] \in Files
          /\ Saved(t) \in Tables /\ Saved(t).filled > 0 /\ Complete(Saved(t))
      BY SavedFacts DEF OpenTemporary
    <2>2. F \in Tables /\ F.bits = Saved(t).bits /\ F.glv = Saved(t).glv /\ F.filled = 0
      BY <2>1 DEF Header, Tables, Complete
    <2>3. Partial(F, Saved(t))
      BY <2>1, <2>2, NullsAssumption DEF Partial
    <2>4. /\ tmp' = [tmp EXCEPT ![p][path[t]] = F] /\ UNCHANGED <<heap, g_context, path>>
          /\ pc' = [pc EXCEPT ![t] = "write"]
      BY DEF OpenTemporary, memory
    <2>5. tmp'[p][path'[t]] = F
      BY <2>1, <2>4 DEF IInv, TypesOfFiles
    <2>6. pc'[t] = "write" /\ \A u \in Threads \ {t} : pc'[u] = pc[u] /\ path'[u] = path[u]
      BY <2>4 DEF IInv, TypesOfControl
    <2>7. pc[t] \in BuildSteps
      BY DEF OpenTemporary, BuildSteps, PC
    <2> HIDE DEF F
    <2> QED  BY <2>3, <2>4, <2>5, <2>6, <2>7, OthersWrite
  <1>9. PublishedWhole'
    BY DEF IInv, PublishedWhole, OpenTemporary
  <1>10. ContextFitsConfig'
    BY DEF IInv, ContextFitsConfig, FullTable, OpenTemporary, memory
  <1>11. NoTemporaryLeft'
    BY DEF IInv, NoTemporaryLeft, TypesOfControl, OpenTemporary, Header, memory, bounds
  <1> QED
    BY <1>1, <1>2, <1>3, <1>4, <1>5, <1>6, <1>7, <1>8, <1>9, <1>10, <1>11 DEF IInv

\* A window that is written keeps the invariant.
LEMMA WriteWindowKeeps ==
    ASSUME IInv, NEW t \in Threads, WriteWindow(t)
    PROVE  IInv'
  <1> DEFINE p == ProcessOf[t]
             old == tmp[p][path[t]]
             F == [old EXCEPT !.filled = @ + 1]
  <1>1. p \in Processes /\ path[t] \in Files /\ Saved(t) \in Tables /\ Complete(Saved(t))
    BY SavedFacts DEF WriteWindow
  <1>2. Partial(old, Saved(t))
    BY DEF IInv, Writing, WriteWindow
  <1>3. old \in Tables
    BY <1>1, <1>2 DEF IInv, TypesOfFiles, Partial
  <1>4. /\ F.bits = old.bits /\ F.glv = old.glv /\ F.filled = old.filled + 1
        /\ F \in [bits : Widths, glv : BOOLEAN, filled : Nat]
    BY <1>3 DEF Tables
  <1>5. F \in Tables
    BY <1>1, <1>2, <1>3, <1>4 DEF Tables, Partial, Complete
  <1>6. tmp' = [tmp EXCEPT ![p][path[t]] = F]
    BY <1>1 DEF WriteWindow, IInv, TypesOfFiles
  <1>7. TypesOfMemory'
    BY DEF IInv, TypesOfMemory, WriteWindow, memory
  <1>8. TypesOfControl'
    BY DEF IInv, TypesOfControl, PC, WriteWindow, bounds
  <1>9. TypesOfFiles'
    <2>7. disk' = disk
      BY DEF WriteWindow
    <2> HIDE DEF F
    <2> QED  BY <1>1, <1>5, <1>6, <2>7 DEF IInv, TypesOfFiles
  <1>10. Exclusive'
    BY DEF IInv, Exclusive, BuildSteps, TypesOfControl, PC, WriteWindow, memory, bounds
  <1>11. Ownership'
    BY DEF IInv, Ownership, Readers, WriteWindow, memory
  <1>12. Multiplying'
    BY DEF IInv, Multiplying, WriteWindow
  <1>13. Building'
    BY DEF IInv, Building, WriteWindow, memory
  <1>14. Writing'
    <2>7. tmp'[p][path[t]] = F
      BY <1>1, <1>6 DEF IInv, TypesOfFiles
    <2>8. /\ UNCHANGED <<heap, g_context, path>>
          /\ pc' = [pc EXCEPT ![t] = IF old.filled + 1 = Saved(t).filled THEN "rename" ELSE "write"]
      BY DEF WriteWindow, memory
    <2>9. /\ pc'[t] = IF old.filled + 1 = Saved(t).filled THEN "rename" ELSE "write"
          /\ \A u \in Threads \ {t} : pc'[u] = pc[u] /\ path'[u] = path[u]
      BY <2>8 DEF IInv, TypesOfControl
    <2>10. pc'[t] = "write" => Partial(F, Saved(t))
      <3>1. F # Missing
        BY <1>5, NullsAssumption
      <3>2. F.bits = Saved(t).bits /\ F.glv = Saved(t).glv
        BY <1>2, <1>4 DEF Partial
      <3>3. old.filled \in Nat /\ Saved(t).filled \in Nat /\ old.filled < Saved(t).filled
        BY <1>1, <1>2, <1>3 DEF Partial, Tables
      <3>4. old.filled + 1 # Saved(t).filled => F.filled < Saved(t).filled
        BY <1>4, <3>3
      <3> HIDE DEF F
      <3> QED  BY <2>9, <3>1, <3>2, <3>4 DEF Partial
    <2>11. pc'[t] = "rename" => F = Saved(t)
      BY <1>1, <1>2, <1>4, <2>9 DEF Partial, Tables
    <2>12. pc[t] \in BuildSteps
      BY DEF WriteWindow, BuildSteps, PC
    <2> HIDE DEF F
    <2> QED  BY <1>6, <2>7, <2>8, <2>9, <2>10, <2>11, <2>12, OthersWrite
  <1>15. PublishedWhole'
    BY DEF IInv, PublishedWhole, WriteWindow
  <1>16. ContextFitsConfig'
    BY DEF IInv, ContextFitsConfig, FullTable, WriteWindow, memory
  <1>17. NoTemporaryLeft'
    BY DEF IInv, NoTemporaryLeft, WriteWindow, bounds
  <1> QED
    BY <1>7, <1>8, <1>9, <1>10, <1>11, <1>12, <1>13, <1>14, <1>15, <1>16, <1>17 DEF IInv

\* The rename keeps the invariant.
LEMMA RenameTemporaryKeeps ==
    ASSUME IInv, NEW t \in Threads, RenameTemporary(t)
    PROVE  IInv'
  <1> DEFINE p == ProcessOf[t]
             F == tmp[p][path[t]]
  <1>1. p \in Processes /\ path[t] \in Files /\ Saved(t) \in Tables /\ Complete(Saved(t))
    BY SavedFacts DEF RenameTemporary
  <1>2. F = Saved(t)
    BY DEF IInv, Writing, RenameTemporary
  <1>3. disk' = [disk EXCEPT ![path[t]] = F] /\ tmp' = [tmp EXCEPT ![p][path[t]] = Missing]
    BY DEF RenameTemporary
  <1>4. TypesOfMemory'
    BY DEF IInv, TypesOfMemory, RenameTemporary, memory
  <1>5. TypesOfControl'
    BY DEF IInv, TypesOfControl, PC, RenameTemporary, bounds, AfterSave
  <1>6. TypesOfFiles'
    <2> HIDE DEF F
    <2> QED  BY <1>1, <1>2, <1>3 DEF IInv, TypesOfFiles
  <1>7. Exclusive'
    BY DEF IInv, Exclusive, BuildSteps, TypesOfControl, PC, RenameTemporary, AfterSave, memory,
           bounds
  <1>8. Ownership'
    BY DEF IInv, Ownership, Readers, TypesOfMemory, TypesOfControl, Multiplying,
           RenameTemporary, AfterSave, memory, bounds
  <1>9. Multiplying'
    BY DEF IInv, Multiplying, TypesOfControl, IsCall, RenameTemporary, AfterSave, memory, bounds
  <1>10. Building'
    BY DEF IInv, Building, TypesOfMemory, TypesOfControl, Exclusive, BuildSteps, PC,
           RenameTemporary, AfterSave, memory, bounds
  <1>11. Writing'
    <2>1. pc[t] \in BuildSteps
      BY DEF RenameTemporary, BuildSteps, PC
    <2>2. \A u \in Threads \ {t} : pc'[u] = pc[u] /\ path'[u] = path[u]
      BY DEF IInv, TypesOfControl, RenameTemporary, AfterSave
    <2>3. pc'[t] \in {"snapshot", "idle"}
      BY DEF IInv, TypesOfControl, RenameTemporary, AfterSave
    <2>4. PICK X : tmp' = [tmp EXCEPT ![ProcessOf[t]][path[t]] = X]
      BY DEF RenameTemporary
    <2>5. UNCHANGED <<heap, g_context>>
      BY DEF RenameTemporary, memory
    <2> QED  BY <2>1, <2>2, <2>3, <2>4, <2>5, OthersWrite
  <1>12. PublishedWhole'
    <2>4. \A f \in Files : disk'[f] = IF f = path[t] THEN Saved(t) ELSE disk[f]
      BY <1>1, <1>2, <1>3 DEF IInv, TypesOfFiles
    <2> QED  BY <1>1, <2>4 DEF IInv, PublishedWhole
  <1>13. ContextFitsConfig'
    BY DEF IInv, ContextFitsConfig, FullTable, RenameTemporary, memory
  <1>14. NoTemporaryLeft'
    <2> DEFINE own == ProcessOf[t]
    <2>1. own \in Processes /\ path[t] \in Files
      BY SavedFacts DEF RenameTemporary
    <2>2. \A u \in Threads \ {t} : pc'[u] = pc[u] /\ path'[u] = path[u]
      BY DEF IInv, TypesOfControl, RenameTemporary, AfterSave
    <2>3. /\ crashes' = crashes
          /\ \A q \in Processes, f \in Files : tmp'[q][f] # Missing => tmp[q][f] # Missing
      BY <2>1 DEF IInv, TypesOfFiles, RenameTemporary, bounds
    <2>4. pc[t] \in {"write", "rename"} => tmp'[own][path[t]] = Missing
      BY <2>1 DEF IInv, TypesOfFiles, RenameTemporary
    <2> SUFFICES ASSUME NEW q \in Processes, NEW f \in Files, tmp'[q][f] # Missing, ~(crashes > 0)
                 PROVE  \E u \in Threads : /\ ProcessOf[u] = q /\ path'[u] = f
                                           /\ pc'[u] \in {"write", "rename"}
      BY <2>3 DEF NoTemporaryLeft
    <2>5. PICK u \in Threads : ProcessOf[u] = q /\ path[u] = f /\ pc[u] \in {"write", "rename"}
      BY <2>3 DEF IInv, NoTemporaryLeft
    <2>6. u # t
      BY <2>4, <2>5
    <2> QED  BY <2>2, <2>5, <2>6
  <1> QED
    BY <1>4, <1>5, <1>6, <1>7, <1>8, <1>9, <1>10, <1>11, <1>12, <1>13, <1>14 DEF IInv

\* The end of a build keeps the invariant.
LEMMA ProceedKeeps ==
    ASSUME IInv, NEW t \in Threads, Proceed(t)
    PROVE  IInv'
  <1>1. TypesOfMemory'
    <2>1. CASE call[t] = NoCall
      <3>1. pc' = [pc EXCEPT ![t] = "idle"] /\ UNCHANGED <<call, owners, g_context, heap, g_config>>
        BY <2>1 DEF Proceed
      <3> QED  BY <3>1 DEF IInv, TypesOfMemory
    <2>2. CASE call[t] # NoCall
      <3>1. TakeSnapshot(t, call[t].ks) /\ pc' = [pc EXCEPT ![t] = "multiply"]
            /\ UNCHANGED <<g_context, heap, g_config>>
        BY <2>2 DEF Proceed
      <3>2. pc[t] # "multiply" /\ g_context[ProcessOf[t]] # NoBlock /\ call[t].ks \in Calls
        BY <2>2 DEF IInv, TypesOfControl, IsCall, Building, Proceed
      <3> QED  BY <3>1, <3>2, SnapshotFacts DEF IInv, TypesOfMemory
    <2> QED  BY <2>1, <2>2
  <1>2. TypesOfControl'
    <2>1. CASE call[t] = NoCall
      <3>1. pc' = [pc EXCEPT ![t] = "idle"] /\ UNCHANGED <<call, owners, g_context, heap, g_config>>
        BY <2>1 DEF Proceed
      <3>2. /\ path' = [path EXCEPT ![t] = NoFile] /\ UNCHANGED <<calls, crashes>>
            /\ mutex' = [mutex EXCEPT ![ProcessOf[t]] = NoThread]
        BY DEF Proceed, bounds
      <3> QED  BY <3>1, <3>2 DEF IInv, TypesOfControl, PC
    <2>2. CASE call[t] # NoCall
      <3>1. TakeSnapshot(t, call[t].ks) /\ pc' = [pc EXCEPT ![t] = "multiply"]
            /\ UNCHANGED <<g_context, heap, g_config>>
        BY <2>2 DEF Proceed
      <3>2. pc[t] # "multiply" /\ g_context[ProcessOf[t]] # NoBlock /\ call[t].ks \in Calls
        BY <2>2 DEF IInv, TypesOfControl, IsCall, Building, Proceed
      <3>3. /\ path' = [path EXCEPT ![t] = NoFile] /\ UNCHANGED <<calls, crashes>>
            /\ mutex' = [mutex EXCEPT ![ProcessOf[t]] = NoThread]
        BY DEF Proceed, bounds
      <3>4. DOMAIN call' = Threads /\ \A u \in Threads : call'[u] = NoCall \/ IsCall(call'[u])
        BY <3>1, <3>2, SnapshotFacts DEF IInv, TypesOfControl
      <3> QED  BY <3>1, <3>3, <3>4 DEF IInv, TypesOfControl, PC
    <2> QED  BY <2>1, <2>2
  <1>3. TypesOfFiles'
    BY DEF IInv, TypesOfFiles, Proceed, files
  <1>4. Exclusive'
    <2>1. \A u \in Threads \ {t} : pc'[u] = pc[u]
      BY DEF IInv, TypesOfControl, Proceed
    <2>2. pc[t] \in BuildSteps
      BY DEF Proceed, PC, BuildSteps
    <2> QED  BY <2>1, <2>2, ExclusiveKept
  <1>5. Ownership'
    <2>1. CASE call[t] = NoCall
      <3>1. pc' = [pc EXCEPT ![t] = "idle"] /\ UNCHANGED <<call, owners, g_context, heap, g_config>>
        BY <2>1 DEF Proceed
      <3>2. pc[t] # "multiply"
        BY DEF Proceed
      <3> QED  BY <3>1, <3>2 DEF IInv, TypesOfControl, Ownership, Readers
    <2>2. CASE call[t] # NoCall
      <3>1. TakeSnapshot(t, call[t].ks) /\ pc' = [pc EXCEPT ![t] = "multiply"]
            /\ UNCHANGED <<g_context, heap, g_config>>
        BY <2>2 DEF Proceed
      <3>2. pc[t] # "multiply" /\ g_context[ProcessOf[t]] # NoBlock /\ call[t].ks \in Calls
        BY <2>2 DEF IInv, TypesOfControl, IsCall, Building, Proceed
      <3> QED  BY <3>1, <3>2, SnapshotFacts
    <2> QED  BY <2>1, <2>2
  <1>6. Multiplying'
    <2>1. CASE call[t] = NoCall
      <3>1. pc' = [pc EXCEPT ![t] = "idle"] /\ UNCHANGED <<call, owners, g_context, heap, g_config>>
        BY <2>1 DEF Proceed
      <3> QED  BY <3>1 DEF IInv, TypesOfControl, Multiplying
    <2>2. CASE call[t] # NoCall
      <3>1. TakeSnapshot(t, call[t].ks) /\ pc' = [pc EXCEPT ![t] = "multiply"]
            /\ UNCHANGED <<g_context, heap, g_config>>
        BY <2>2 DEF Proceed
      <3>2. pc[t] # "multiply" /\ g_context[ProcessOf[t]] # NoBlock /\ call[t].ks \in Calls
        BY <2>2 DEF IInv, TypesOfControl, IsCall, Building, Proceed
      <3>3. /\ IsCall(call'[t]) /\ call'[t].block \in Blocks
            /\ \A u \in Threads \ {t} : call'[u] = call[u]
        BY <3>1, <3>2, SnapshotFacts
      <3> QED  BY <3>1, <3>3 DEF IInv, TypesOfControl, Multiplying
    <2> QED  BY <2>1, <2>2
  <1>7. Building'
    BY DEF IInv, Building, TypesOfMemory, TypesOfControl, Exclusive, BuildSteps, PC, Proceed,
           TakeSnapshot, NewCall, files, bounds
  <1>8. Writing'
    BY DEF IInv, Writing, Partial, Saved, TypesOfMemory, TypesOfControl, TypesOfFiles,
           Exclusive, BuildSteps, PC, Building, Proceed, TakeSnapshot, NewCall, files, bounds
  <1>9. PublishedWhole'
    BY DEF IInv, PublishedWhole, Proceed, files
  <1>10. ContextFitsConfig'
    BY DEF IInv, ContextFitsConfig, FullTable, Proceed
  <1>11. NoTemporaryLeft'
    <2>1. \A u \in Threads : pc[u] \in {"write", "rename"} =>
              pc'[u] = pc[u] /\ path'[u] = path[u]
      BY DEF IInv, TypesOfControl, Proceed
    <2>2. UNCHANGED <<tmp, crashes>>
      BY DEF Proceed, files, bounds
    <2> QED  BY <2>1, <2>2, TemporaryKept
  <1> QED
    BY <1>1, <1>2, <1>3, <1>4, <1>5, <1>6, <1>7, <1>8, <1>9, <1>10, <1>11 DEF IInv

\* A window that is added keeps the invariant.
LEMMA AddWindowKeeps ==
    ASSUME IInv, NEW t \in Threads, AddWindow(t)
    PROVE  IInv'
  <1> DEFINE c == call[t]
  <1>1. c.ks \in Calls /\ c.block \in Blocks /\ c.win \in Nat
    BY DEF IInv, Multiplying, IsCall, AddWindow
  <1>2. PICK out, win, acc :
            win \in Nat /\ call' = [call EXCEPT ![t] = Call(c.ks, c.block, out, win, acc)]
    <2> DEFINE T == heap[ProcessOf[t]][c.block]
               acc == (c.acc + WindowSum(T, c.ks[Len(c.out) + 1], c.win)) % Order
               out == Append(c.out, acc)
               done == c.win + 1 = WindowCount(T.bits)
    <2>1. call' = [call EXCEPT ![t] = IF done THEN Call(c.ks, c.block, out, 0, 0)
                                      ELSE Call(c.ks, c.block, c.out, c.win + 1, acc)]
      BY DEF AddWindow
    <2> HIDE DEF done, out, acc
    <2>2. CASE done
      BY <2>1, <2>2
    <2>3. CASE ~done
      <3>1. c.win + 1 \in Nat
        BY <1>1
      <3>2. call' = [call EXCEPT ![t] = Call(c.ks, c.block, c.out, c.win + 1, acc)]
        BY <2>1, <2>3
      <3> QED  BY <3>1, <3>2
    <2> QED  BY <2>2, <2>3
  <1>3. /\ IsCall(Call(c.ks, c.block, out, win, acc))
        /\ Call(c.ks, c.block, out, win, acc).block = c.block
    BY <1>1, <1>2, CallType
  <1>4. /\ DOMAIN call' = Threads /\ IsCall(call'[t]) /\ call'[t].block = c.block
        /\ \A u \in Threads \ {t} : call'[u] = call[u]
    BY <1>2, <1>3 DEF IInv, TypesOfControl
  <1>5. TypesOfMemory'
    BY DEF IInv, TypesOfMemory, AddWindow, memory
  <1>6. TypesOfControl'
    <2>5. UNCHANGED <<mutex, pc, path, calls, crashes>>
      BY DEF AddWindow, bounds
    <2> QED  BY <1>4, <2>5 DEF IInv, TypesOfControl
  <1>7. TypesOfFiles'
    BY DEF IInv, TypesOfFiles, AddWindow, files
  <1>8. Exclusive'
    BY DEF IInv, Exclusive, BuildSteps, AddWindow
  <1>9. Ownership'
    <2>5. UNCHANGED <<g_context, owners, heap, pc>>
      BY DEF AddWindow, memory
    <2>6. \A p \in Processes, b \in Blocks : Readers(p, b)' = Readers(p, b)
      BY <1>4, <2>5 DEF Readers
    <2> QED  BY <2>5, <2>6 DEF IInv, Ownership
  <1>10. Multiplying'
    <2>5. pc' = pc
      BY DEF AddWindow
    <2> QED  BY <1>1, <1>4, <2>5 DEF IInv, Multiplying
  <1>11. Building'
    BY DEF IInv, Building, AddWindow, memory
  <1>12. Writing'
    BY DEF IInv, Writing, Partial, Saved, AddWindow, memory, files
  <1>13. PublishedWhole'
    BY DEF IInv, PublishedWhole, AddWindow, files
  <1>14. ContextFitsConfig'
    BY DEF IInv, ContextFitsConfig, FullTable, AddWindow, memory
  <1>15. NoTemporaryLeft'
    BY DEF IInv, NoTemporaryLeft, AddWindow, files, bounds
  <1> QED
    BY <1>5, <1>6, <1>7, <1>8, <1>9, <1>10, <1>11, <1>12, <1>13, <1>14, <1>15 DEF IInv

\* A return keeps the invariant.
LEMMA ReturnKeeps ==
    ASSUME IInv, NEW t \in Threads, Return(t)
    PROVE  IInv'
  <1>1. TypesOfMemory'
    BY ReturnFacts DEF IInv, TypesOfMemory, Return
  <1>2. TypesOfControl'
    BY DEF IInv, TypesOfControl, PC, Return, bounds
  <1>3. TypesOfFiles'
    BY DEF IInv, TypesOfFiles, Return, files
  <1>4. Exclusive'
    BY DEF IInv, Exclusive, BuildSteps, Return
  <1>5. Ownership'
    BY ReturnFacts
  <1>6. Multiplying'
    BY DEF IInv, Multiplying, TypesOfControl, IsCall, Return, Drop, files, bounds
  <1>7. Building'
    BY DEF IInv, Building, Return
  <1>8. Writing'
    <2>1. ASSUME NEW u \in Threads, pc'[u] \in {"write", "rename"}
          PROVE  pc'[u] = pc[u] /\ path'[u] = path[u] /\ Saved(u)' = Saved(u)
      <3>1. pc'[u] = pc[u] /\ path'[u] = path[u] /\ g_context' = g_context
        BY <2>1 DEF IInv, TypesOfControl, Return
      <3>2. g_context[ProcessOf[u]] # NoBlock
        BY <2>1, <3>1 DEF IInv, Building
      <3> QED  BY <3>1, <3>2, ReturnFacts, ThreadsAssumption DEF Saved
    <2>2. UNCHANGED tmp
      BY DEF Return, files
    <2> QED  BY <2>1, <2>2, WritingKept
  <1>9. PublishedWhole'
    BY DEF IInv, PublishedWhole, Return, files
  <1>10. ContextFitsConfig'
    BY ReturnFacts DEF IInv, ContextFitsConfig, FullTable, Return
  <1>11. NoTemporaryLeft'
    <2>1. \A u \in Threads : pc[u] \in {"write", "rename"} =>
              pc'[u] = pc[u] /\ path'[u] = path[u]
      BY DEF IInv, TypesOfControl, Return
    <2>2. UNCHANGED <<tmp, crashes>>
      BY DEF Return, files, bounds
    <2> QED  BY <2>1, <2>2, TemporaryKept
  <1> QED
    BY <1>1, <1>2, <1>3, <1>4, <1>5, <1>6, <1>7, <1>8, <1>9, <1>10, <1>11 DEF IInv

\* A crash keeps the invariant.
LEMMA CrashKeeps ==
    ASSUME IInv, NEW p \in Processes, Crash(p)
    PROVE  IInv'
  <1>1. TypesOfMemory'
    BY ThreadsAssumption, NullsAssumption, ConfigsAssumption, DiskAssumption, TableFacts
    DEF IInv, TypesOfMemory, ConfigTypes, Crash, memory, files, bounds
  <1>2. TypesOfControl'
    BY DEF IInv, TypesOfControl, PC, Crash
  <1>3. TypesOfFiles'
    BY DEF IInv, TypesOfFiles, Crash, files
  <1>4. Exclusive'
    BY DEF IInv, Exclusive, BuildSteps, Crash
  <1>5. Ownership'
    BY ThreadsAssumption, NullsAssumption
    DEF IInv, Ownership, Readers, TypesOfMemory, TypesOfControl, Multiplying, Crash, files
  <1>6. Multiplying'
    BY DEF IInv, Multiplying, Crash
  <1>7. Building'
    BY DEF IInv, Building, Crash
  <1>8. Writing'
    BY DEF IInv, Writing, Partial, Saved, Crash, files
  <1>9. PublishedWhole'
    BY DEF IInv, PublishedWhole, Crash, files
  <1>10. ContextFitsConfig'
    BY DEF IInv, ContextFitsConfig, FullTable, TypesOfMemory, Ownership, Crash, files
  <1>11. NoTemporaryLeft'
    BY DEF IInv, NoTemporaryLeft, TypesOfControl, Crash, files
  <1> QED
    BY <1>1, <1>2, <1>3, <1>4, <1>5, <1>6, <1>7, <1>8, <1>9, <1>10, <1>11 DEF IInv
-----------------------------------------------------------------------------
\* The first state satisfies the invariant.
LEMMA InitEstablishes == Init => IInv
  <1> SUFFICES ASSUME Init
               PROVE  IInv
    OBVIOUS
  <1>1. TypesOfMemory
    BY ConfigsAssumption DEF Init, TypesOfMemory
  <1>2. TypesOfControl
    BY DEF Init, TypesOfControl, PC
  <1>3. TypesOfFiles
    BY DiskAssumption DEF Init, TypesOfFiles
  <1>4. Exclusive
    BY DEF Init, Exclusive, BuildSteps
  <1>5. Ownership
    BY NullsAssumption DEF Init, Ownership, Readers
  <1>6. Multiplying /\ Building /\ Writing
    BY DEF Init, Multiplying, Building, Writing
  <1>7. PublishedWhole
    BY DiskAssumption DEF Init, PublishedWhole
  <1>8. ContextFitsConfig
    BY DEF Init, ContextFitsConfig
  <1>9. NoTemporaryLeft
    BY DEF Init, NoTemporaryLeft
  <1> QED  BY <1>1, <1>2, <1>3, <1>4, <1>5, <1>6, <1>7, <1>8, <1>9 DEF IInv

\* A step that changes nothing keeps it.
LEMMA StutterKeeps == IInv /\ UNCHANGED vars => IInv'
  <1> SUFFICES ASSUME IInv, UNCHANGED vars PROVE IInv'
    OBVIOUS
  <1>1. UNCHANGED <<g_config, g_context, heap, owners, mutex, pc, call, path, disk, tmp, crashes>>
    BY DEF vars, memory, files, bounds
  <1>2. TypesOfMemory' /\ TypesOfFiles'
    BY <1>1 DEF IInv, TypesOfMemory, TypesOfFiles
  <1>3. TypesOfControl'
    BY <1>1 DEF vars, bounds, IInv, TypesOfControl, IsCall
  <1>4. Exclusive' /\ Multiplying' /\ Building'
    BY <1>1 DEF IInv, Exclusive, Multiplying, Building
  <1>5. Ownership'
    BY <1>1 DEF IInv, Ownership, Readers
  <1>6. Writing'
    BY <1>1, WritingKept DEF Saved
  <1>7. PublishedWhole' /\ ContextFitsConfig'
    BY <1>1 DEF IInv, PublishedWhole, ContextFitsConfig, FullTable
  <1>8. NoTemporaryLeft'
    BY <1>1, TemporaryKept
  <1> QED  BY <1>2, <1>3, <1>4, <1>5, <1>6, <1>7, <1>8 DEF IInv

\* Every step keeps it.
LEMMA NextKeeps == IInv /\ [Next]_vars => IInv'
  <1> SUFFICES ASSUME IInv, [Next]_vars
               PROVE  IInv'
    OBVIOUS
  <1>1. CASE UNCHANGED vars
    BY <1>1, StutterKeeps
  <1>2. ASSUME NEW p \in Processes, Crash(p)
        PROVE  IInv'
    BY <1>2, CrashKeeps
  <1>3. ASSUME NEW t \in Threads, Step(t)
        PROVE  IInv'
    BY <1>3, LoadCacheKeeps, BuildContextKeeps, BuildThrowsKeeps, SaveFailsKeeps,
       OpenTemporaryKeeps, WriteWindowKeeps, RenameTemporaryKeeps, ProceedKeeps,
       AddWindowKeeps, ReturnKeeps
    DEF Step
  <1>4. ASSUME NEW t \in Threads, NEW ks \in Calls \cup {<<>>},
               BeginBuilt(t, ks) \/ BeginBuild(t, ks)
        PROVE  IInv'
    BY <1>4, BeginBuiltKeeps, BeginBuildKeeps
  <1>5. ASSUME NEW t \in Threads, NEW f \in Named,
               SavePrecomputeCache(t, f) \/ LoadPrecomputeCache(t, f)
        PROVE  IInv'
    BY <1>5, SavePrecomputeCacheKeeps, LoadPrecomputeCacheKeeps
  <1> QED  BY <1>1, <1>2, <1>3, <1>4, <1>5, ConfigureKeeps, SetCacheDirectoryKeeps DEF Next

\* So it holds in every state.
LEMMA Invariance == Spec => []IInv
  BY InitEstablishes, NextKeeps, PTL DEF Spec

\* The state keeps its types.
THEOREM TypeCorrect == Spec => []TypeOK
  <1>1. IInv => TypeOK
    BY DEF IInv, TypeOK, TypesOfMemory, TypesOfControl, TypesOfFiles
  <1> QED  BY <1>1, Invariance, PTL

\* Nobody frees a table that a thread still reads, for any number of threads
\* that reconfigure and multiply, and what nobody reads is freed.
THEOREM NoUseAfterFree == Spec => []AliveWhileRead
  <1>1. ASSUME IInv
        PROVE  AliveWhileRead
    <2> SUFFICES ASSUME NEW p \in Processes, NEW b \in Blocks
                 PROVE  heap[p][b] # Free <=>
                            g_context[p] = b \/ Readers(p, b) # {}
      BY DEF AliveWhileRead, Readers
    <2> QED  BY <1>1 DEF IInv, Ownership
  <1> QED  BY <1>1, Invariance, PTL

\* A crash at any step of a save, or a save that fails, leaves every file
\* under its published name whole, if it was whole before.
THEOREM PublicationIsAtomic == Spec => []PublishedWhole
  <1>1. IInv => PublishedWhole
    BY DEF IInv
  <1> QED  BY <1>1, Invariance, PTL

\* Built, loaded or reconfigured, the table in use is whole and the one that
\* the configuration in force asks for.
THEOREM ContextIsCurrent == Spec => []ContextFitsConfig
  <1>1. IInv => ContextFitsConfig
    BY DEF IInv
  <1> QED  BY <1>1, Invariance, PTL

\* Only a crash leaves a temporary file behind.
THEOREM SavesAreTidy == Spec => []NoTemporaryLeft
  <1>1. IInv => NoTemporaryLeft
    BY DEF IInv
  <1> QED  BY <1>1, Invariance, PTL
-----------------------------------------------------------------------------
(* Numbers: powers of two and signed digits.                                *)

\* Induction over the natural numbers: what is in Good with 0, and with n + 1
\* when with n, is everything.
LEMMA Counting ==
    ASSUME NEW Good, 0 \in Good, \A n \in Nat : n \in Good => n + 1 \in Good
    PROVE  \A n \in Nat : n \in Good
  <1> DEFINE Bad == {n \in Nat : n \notin Good}
  <1>1. SUFFICES ASSUME Bad # {} PROVE FALSE
    OBVIOUS
  <1>2. Bad \subseteq Nat
    OBVIOUS
  <1> HIDE DEF Bad
  <1>3. \E n \in Bad : \A m \in Bad : ~(<<m, n>> \in OpToRel(<, Nat))
    BY <1>1, <1>2, NatLessThanWellFounded, WFMin
  <1>4. PICK n \in Bad : \A m \in Bad : ~(m < n)
    BY <1>2, <1>3 DEF OpToRel
  <1>5. n \in Nat /\ n # 0
    BY <1>2, <1>4 DEF Bad
  <1>6. n - 1 \in Nat /\ n - 1 < n /\ (n - 1) + 1 = n
    BY <1>5
  <1>7. n - 1 \in Good
    BY <1>4, <1>6 DEF Bad
  <1> QED  BY <1>4, <1>6, <1>7 DEF Bad

\* f begins with a and goes on by g, n times.
Iterates(f, a, g, n) == f[0] = a /\ \A i \in 0 .. (n - 1) : f[i + 1] = g[f[i]]

\* Iterations of the same agree.
LEMMA IteratesAgree ==
    ASSUME NEW a, NEW g, NEW n \in Nat, NEW f, Iterates(f, a, g, n),
           NEW m \in Nat, NEW h, Iterates(h, a, g, m)
    PROVE  \A i \in Nat : i <= n /\ i <= m => f[i] = h[i]
  <1> DEFINE Good == {i \in Nat : i <= n /\ i <= m => f[i] = h[i]}
  <1>1. 0 \in Good
    BY DEF Iterates
  <1>2. ASSUME NEW i \in Nat, i \in Good
        PROVE  i + 1 \in Good
    BY <1>2 DEF Iterates
  <1> HIDE DEF Good
  <1>3. \A i \in Nat : i \in Good
    BY <1>1, <1>2, Counting
  <1> QED  BY <1>3 DEF Good

\* Any number of iterations is possible,
LEMMA IteratesExist ==
    ASSUME NEW a, NEW g
    PROVE  \A n \in Nat : \E f : Iterates(f, a, g, n)
  <1> DEFINE Good == {n \in Nat : \E f : Iterates(f, a, g, n)}
  <1>1. 0 \in Good
    <2> DEFINE f == [i \in 0 .. 0 |-> a]
    <2>1. Iterates(f, a, g, 0)
      BY DEF Iterates
    <2> QED  BY <2>1
  <1>2. ASSUME NEW n \in Nat, n \in Good
        PROVE  n + 1 \in Good
    <2>1. PICK f : Iterates(f, a, g, n)
      BY <1>2
    <2> DEFINE h == [i \in 0 .. (n + 1) |-> IF i = n + 1 THEN g[f[n]] ELSE f[i]]
    <2>2. h[0] = f[0] /\ h[n + 1] = g[f[n]] /\ \A i \in 0 .. n : h[i] = f[i]
      OBVIOUS
    <2> HIDE DEF h
    <2>3. Iterates(h, a, g, n + 1)
      <3> SUFFICES ASSUME NEW i \in 0 .. n
                   PROVE  h[i + 1] = g[h[i]]
        BY <2>1, <2>2 DEF Iterates
      <3>1. CASE i = n
        BY <2>2, <3>1
      <3>2. CASE i # n
        BY <2>1, <2>2, <3>2 DEF Iterates
      <3> QED  BY <3>1, <3>2
    <2> QED  BY <2>3
  <1> HIDE DEF Good
  <1>3. \A n \in Nat : n \in Good
    BY <1>1, <1>2, Counting
  <1> QED  BY <1>3 DEF Good

\* and so is one for ever.
LEMMA Iteration ==
    ASSUME NEW D, NEW a \in D, NEW g \in [D -> D]
    PROVE  \E f \in [Nat -> D] : f[0] = a /\ \A i \in Nat : f[i + 1] = g[f[i]]
  <1> DEFINE part(n) == CHOOSE f : Iterates(f, a, g, n)
             f == [n \in Nat |-> part(n)[n]]
  <1>1. \A n \in Nat : Iterates(part(n), a, g, n)
    BY IteratesExist
  <1> HIDE DEF part
  <1>2. f[0] = a
    BY <1>1 DEF Iterates
  <1>3. ASSUME NEW i \in Nat
        PROVE  f[i + 1] = g[f[i]]
    <2>1. i + 1 \in Nat /\ i \in 0 .. ((i + 1) - 1)
      OBVIOUS
    <2>2. f[i + 1] = part(i + 1)[i + 1] /\ f[i] = part(i)[i]
      BY <2>1
    <2>3. part(i + 1)[i + 1] = g[part(i + 1)[i]]
      BY <1>1, <2>1 DEF Iterates
    <2>4. part(i + 1)[i] = part(i)[i]
      BY <1>1, <2>1, IteratesAgree
    <2> QED  BY <2>2, <2>3, <2>4
  <1>4. f \in [Nat -> D]
    <2> DEFINE Good == {i \in Nat : f[i] \in D}
    <2>1. 0 \in Good
      BY <1>2
    <2>2. ASSUME NEW i \in Nat, i \in Good
          PROVE  i + 1 \in Good
      BY <1>3, <2>2
    <2>3. f = [n \in Nat |-> f[n]]
      OBVIOUS
    <2> HIDE DEF Good, f
    <2>4. \A i \in Nat : i \in Good
      BY <2>1, <2>2, Counting
    <2> QED  BY <2>3, <2>4 DEF Good
  <1> HIDE DEF f
  <1> QED  BY <1>2, <1>3, <1>4

\* f doubles from 1 on.
Doubles(f) == f = [n \in Nat |-> IF n = 0 THEN 1 ELSE 2 * f[n - 1]]

\* Powers of two are what their definition says,
LEMMA Power2Facts ==
    /\ Power2 \in [Nat -> Nat \ {0}]
    /\ Power2[0] = 1
    /\ \A n \in Nat : Power2[n + 1] = 2 * Power2[n]
  <1> DEFINE D == Nat \ {0}
             double == [x \in D |-> 2 * x]
  <1>1. double \in [D -> D]
    OBVIOUS
  <1>2. \A x \in D : double[x] = 2 * x
    OBVIOUS
  <1>3. PICK one \in D : one = 1
    OBVIOUS
  <1> HIDE DEF D, double
  <1>4. PICK f : f \in [Nat -> D] /\ f[0] = one /\ \A i \in Nat : f[i + 1] = double[f[i]]
    BY <1>1, Iteration
  <1>5. f \in [Nat -> D] /\ f[0] = 1 /\ \A i \in Nat : f[i + 1] = double[f[i]]
    BY <1>3, <1>4
  <1>6. Doubles(f)
    <2>1. ASSUME NEW n \in Nat
          PROVE  f[n] = IF n = 0 THEN 1 ELSE 2 * f[n - 1]
      <3>1. CASE n = 0
        BY <1>5, <3>1
      <3>2. CASE n # 0
        <4>1. n - 1 \in Nat /\ (n - 1) + 1 = n
          BY <3>2
        <4>2. f[n] = double[f[n - 1]] /\ f[n - 1] \in D
          BY <1>5, <4>1
        <4> QED  BY <1>2, <3>2, <4>2 DEF D
      <3> QED  BY <3>1, <3>2
    <2> QED  BY <1>5, <2>1 DEF Doubles
  <1>7. Doubles(Power2)
    <2>1. Power2 = CHOOSE p : Doubles(p)
      BY DEF Power2, Doubles
    <2> QED  BY <1>6, <2>1
  <1>8. Power2[0] = 1 /\ \A n \in Nat : Power2[n + 1] = 2 * Power2[n]
    BY <1>7 DEF Doubles
  <1>9. Power2 \in [Nat -> Nat \ {0}]
    <2> DEFINE Good == {n \in Nat : Power2[n] \in Nat \ {0}}
    <2>1. 0 \in Good
      BY <1>8
    <2>2. ASSUME NEW n \in Nat, n \in Good
          PROVE  n + 1 \in Good
      BY <1>8, <2>2
    <2>3. Power2 = [n \in Nat |-> Power2[n]]
      BY <1>7 DEF Doubles
    <2> HIDE DEF Good
    <2>4. \A n \in Nat : n \in Good
      BY <2>1, <2>2, Counting
    <2> QED  BY <2>3, <2>4 DEF Good
  <1> QED  BY <1>8, <1>9

\* and multiply as their exponents add.
LEMMA Pow2Sum ==
    ASSUME NEW a \in Nat, NEW b \in Nat
    PROVE  Pow2(a) \in Nat \ {0} /\ Pow2(a + b) = Pow2(a) * Pow2(b)
  <1> DEFINE Good == {n \in Nat : Power2[a + n] = Power2[a] * Power2[n]}
  <1>1. 0 \in Good
    BY Power2Facts
  <1>2. ASSUME NEW n \in Nat, n \in Good
        PROVE  n + 1 \in Good
    <2>1. a + n \in Nat /\ a + (n + 1) = (a + n) + 1
      OBVIOUS
    <2>2. Power2[a + (n + 1)] = 2 * Power2[a + n] /\ Power2[n + 1] = 2 * Power2[n]
      BY <2>1, Power2Facts
    <2>3. Power2[a] \in Nat /\ Power2[n] \in Nat
      BY Power2Facts
    <2>4. Power2[a] * (2 * Power2[n]) = 2 * (Power2[a] * Power2[n])
      BY <2>3
    <2> QED  BY <1>2, <2>2, <2>4
  <1> HIDE DEF Good
  <1>3. \A n \in Nat : n \in Good
    BY <1>1, <1>2, Counting
  <1> QED  BY <1>3, Power2Facts DEF Good, Pow2

\* Quotient and remainder.
LEMMA DivisionFacts ==
    ASSUME NEW x \in Nat, NEW m \in Nat \ {0}
    PROVE  /\ x \div m \in Nat /\ x % m \in Nat /\ x % m < m
           /\ x = m * (x \div m) + (x % m)
  <1>1. x \div m \in Int /\ x % m \in Int /\ 0 <= x % m /\ x % m < m
        /\ x = m * (x \div m) + (x % m)
    OBVIOUS
  <1> DEFINE d == x \div m
             r == x % m
  <1> HIDE DEF d, r
  <1>2. d \in Int /\ r \in Int /\ 0 <= r /\ r < m /\ x = m * d + r
    BY <1>1 DEF d, r
  <1>3. d >= 0
    <2>1. SUFFICES ASSUME d <= -1 PROVE FALSE
      BY <1>2
    <2>2. m * d <= -m
      BY <1>2, <2>1
    <2> QED  BY <1>2, <2>2
  <1> QED  BY <1>1, <1>2, <1>3 DEF d, r

\* What a digit takes from x, and what it leaves for the next.
Carry(x, w) == IF x % Pow2(w) >= Pow2(w - 1) THEN 1 ELSE 0
Digit(x, w) == IF x % Pow2(w) >= Pow2(w - 1) THEN (x % Pow2(w)) - Pow2(w) ELSE x % Pow2(w)
Shifted(x, w) == (x \div Pow2(w)) + Carry(x, w)

\* A window has an upper and a lower half.
LEMMA HalfFacts ==
    ASSUME NEW w \in Nat \ {0}
    PROVE  /\ Pow2(w) \in Nat \ {0} /\ Pow2(w - 1) \in Nat \ {0}
           /\ Pow2(w) = 2 * Pow2(w - 1)
  <1>1. w - 1 \in Nat /\ (w - 1) + 1 = w
    OBVIOUS
  <1> QED  BY <1>1, Power2Facts DEF Pow2

\* The digit and what is left make up x; a digit is at least minus half the range.
LEMMA DigitFacts ==
    ASSUME NEW x \in Nat, NEW w \in Nat \ {0}
    PROVE  /\ Shifted(x, w) \in Nat /\ Digit(x, w) \in Int
           /\ x = Digit(x, w) + Pow2(w) * Shifted(x, w)
           /\ Digit(x, w) >= -Pow2(w - 1)
  <1> DEFINE P == Pow2(w)
             H == Pow2(w - 1)
             d == x \div P
             r == x % P
  <1>1. P \in Nat \ {0} /\ H \in Nat \ {0} /\ P = 2 * H
    BY HalfFacts
  <1>2. d \in Nat /\ r \in Nat /\ r < P /\ x = P * d + r
    BY <1>1, DivisionFacts
  <1>3. /\ Shifted(x, w) = d + (IF r >= H THEN 1 ELSE 0)
        /\ Digit(x, w) = IF r >= H THEN r - P ELSE r
    BY DEF Shifted, Digit, Carry
  <1> HIDE DEF P, H, d, r
  <1>4. CASE r >= H
    <2>1. Shifted(x, w) = d + 1 /\ Digit(x, w) = r - P
      BY <1>3, <1>4
    <2>2. P * (d + 1) = P * d + P
      BY <1>1, <1>2
    <2>3. P * d \in Int
      BY <1>1, <1>2
    <2> QED  BY <1>1, <1>2, <1>4, <2>1, <2>2, <2>3 DEF P, H
  <1>5. CASE ~(r >= H)
    <2>1. Shifted(x, w) = d /\ Digit(x, w) = r
      BY <1>2, <1>3, <1>5
    <2> QED  BY <1>1, <1>2, <2>1 DEF P, H
  <1> QED  BY <1>4, <1>5

\* What is left of k after each window: digit by digit, k is used up.
LEMMA RestFacts ==
    ASSUME NEW k \in Nat, NEW w \in Nat \ {0}
    PROVE  /\ Rest(k, w)[0] = k
           /\ \A i \in 0 .. WindowCount(w) : Rest(k, w)[i] \in Nat
           /\ \A i \in 0 .. (WindowCount(w) - 1) :
                 /\ Rest(k, w)[i + 1] = Shifted(Rest(k, w)[i], w)
                 /\ WindowDigit(k, w, i) = Digit(Rest(k, w)[i], w)
  <1> DEFINE n == WindowCount(w)
             Eq(f) == f = [i \in 0 .. n |->
                             IF i = 0 THEN k
                             ELSE f[i - 1] \div Pow2(w)
                                  + (IF f[i - 1] % Pow2(w) >= Pow2(w - 1) THEN 1 ELSE 0)]
             rest == CHOOSE f : Eq(f)
             g == [x \in Nat |-> Shifted(x, w)]
  <1>1. n \in Nat
    BY WindowCountFacts
  <1>2. Rest(k, w) = rest
    BY DEF Rest
  <1>3. g \in [Nat -> Nat]
    BY DigitFacts
  <1>4. \A x \in Nat : g[x] = Shifted(x, w)
    OBVIOUS
  <1> HIDE DEF g, n
  <1>5. PICK f : f \in [Nat -> Nat] /\ f[0] = k /\ \A i \in Nat : f[i + 1] = g[f[i]]
    <2>1. PICK D : D = Nat
      OBVIOUS
    <2>2. PICK a \in D : a = k
      BY <2>1
    <2>3. g \in [D -> D]
      BY <1>3, <2>1
    <2>4. PICK f : f \in [Nat -> D] /\ f[0] = a /\ \A i \in Nat : f[i + 1] = g[f[i]]
      BY <2>3, Iteration
    <2> QED  BY <2>1, <2>2, <2>4
  <1> DEFINE h == [i \in 0 .. n |-> f[i]]
  <1>6. Eq(h)
    <2>1. ASSUME NEW i \in 0 .. n
          PROVE  h[i] = IF i = 0 THEN k
                        ELSE h[i - 1] \div Pow2(w)
                             + (IF h[i - 1] % Pow2(w) >= Pow2(w - 1) THEN 1 ELSE 0)
      <3>1. CASE i = 0
        BY <1>1, <1>5, <3>1
      <3>2. CASE i # 0
        <4>1. i - 1 \in Nat /\ (i - 1) + 1 = i /\ i - 1 \in 0 .. n
          BY <1>1, <3>2
        <4>2. h[i] = g[f[i - 1]] /\ f[i - 1] \in Nat /\ h[i - 1] = f[i - 1]
          BY <1>5, <4>1
        <4>3. h[i] = Shifted(h[i - 1], w)
          BY <1>4, <4>2
        <4> HIDE DEF h
        <4> QED  BY <3>2, <4>3 DEF Shifted, Carry
      <3> QED  BY <3>1, <3>2
    <2>2. h = [i \in 0 .. n |-> h[i]]
      OBVIOUS
    <2> HIDE DEF h
    <2> QED  BY <2>1, <2>2
  <1>7. Eq(rest)
    <2> HIDE DEF Eq
    <2> QED  BY <1>6
  <1> HIDE DEF rest
  <1>8. rest[0] = k
    BY <1>1, <1>7
  <1>9. ASSUME NEW i \in 0 .. (n - 1)
        PROVE  rest[i + 1] = Shifted(rest[i], w)
    <2>1. i + 1 \in 0 .. n /\ i + 1 # 0 /\ (i + 1) - 1 = i
      BY <1>1
    <2> QED  BY <1>7, <2>1 DEF Shifted, Carry
  <1>10. \A i \in 0 .. n : rest[i] \in Nat
    <2> DEFINE Good == {i \in Nat : i <= n => rest[i] \in Nat}
    <2>1. 0 \in Good
      BY <1>8
    <2>2. ASSUME NEW i \in Nat, i \in Good
          PROVE  i + 1 \in Good
      <3> SUFFICES ASSUME i + 1 <= n PROVE rest[i + 1] \in Nat
        OBVIOUS
      <3>1. i \in 0 .. (n - 1) /\ rest[i] \in Nat
        BY <1>1, <2>2
      <3> QED  BY <1>9, <3>1, DigitFacts
    <2> HIDE DEF Good
    <2>3. \A i \in Nat : i \in Good
      BY <2>1, <2>2, Counting
    <2> QED  BY <1>1, <2>3 DEF Good
  <1>11. \A i \in 0 .. (n - 1) : WindowDigit(k, w, i) = Digit(rest[i], w)
    BY <1>2 DEF WindowDigit, Digit
  <1> QED  BY <1>2, <1>8, <1>9, <1>10, <1>11 DEF n

\* The weights of two windows.
LEMMA WeightFacts ==
    ASSUME NEW w \in Nat \ {0}, NEW i \in Nat
    PROVE  /\ Pow2(w * 0) = 1
           /\ Pow2(w * i) \in Nat \ {0}
           /\ Pow2(w * (i + 1)) = Pow2(w) * Pow2(w * i)
  <1>1. w * 0 = 0 /\ w * i \in Nat /\ w * (i + 1) = w + w * i
    OBVIOUS
  <1>2. Pow2(0) = 1
    BY Power2Facts DEF Pow2
  <1>3. \A x \in Nat : Pow2(x) \in Nat \ {0} /\ Pow2(w + x) = Pow2(w) * Pow2(x)
    BY Pow2Sum
  <1>4. PICK x \in Nat : x = w * i
    BY <1>1
  <1>5. Pow2(w * 0) = 1
    BY <1>1, <1>2
  <1>6. Pow2(w * i) = Pow2(x) /\ Pow2(w * (i + 1)) = Pow2(w + x)
    BY <1>1, <1>4
  <1> QED  BY <1>3, <1>5, <1>6

\* A product grows with its factors.
LEMMA Growing ==
    ASSUME NEW x \in Int, NEW y \in Int, x <= y, NEW z \in Nat
    PROVE  z * x <= z * y
  <1>1. y - x \in Nat
    OBVIOUS
  <1>2. z * (y - x) >= 0
    BY <1>1
  <1> QED  BY <1>2

\* The carries of the first windows are small beside their weight: with every
\* digit at least minus half its range, k and what the digits can take off bound
\* what is left.
LEMMA LeftBound ==
    ASSUME NEW k \in Nat, NEW w \in Nat \ {0}, NEW i \in 0 .. WindowCount(w)
    PROVE  (Pow2(w) - 1) * (Rest(k, w)[i] * Pow2(w * i))
              <= (Pow2(w) - 1) * k + Pow2(w - 1) * (Pow2(w * i) - 1)
  <1> DEFINE n == WindowCount(w)
             P == Pow2(w)
             H == Pow2(w - 1)
             r == Rest(k, w)
             B(j) == Pow2(w * j)
             Good == {j \in Nat : j <= n => (P - 1) * (r[j] * B(j)) <= (P - 1) * k + H * (B(j) - 1)}
  <1>1. n \in Nat /\ P \in Nat \ {0} /\ H \in Nat \ {0} /\ P = 2 * H
    BY WindowCountFacts, HalfFacts
  <1>2. 0 \in Good
    <2>1. B(0) = 1 /\ r[0] = k
      BY WeightFacts, RestFacts
    <2> HIDE DEF B, P, H, r
    <2> QED  BY <1>1, <2>1
  <1>3. ASSUME NEW j \in Nat, j \in Good
        PROVE  j + 1 \in Good
    <2> SUFFICES ASSUME j + 1 <= n
                 PROVE  (P - 1) * (r[j + 1] * B(j + 1)) <= (P - 1) * k + H * (B(j + 1) - 1)
      OBVIOUS
    <2> DEFINE d == Digit(r[j], w)
               b == B(j)
               c == B(j + 1)
               x == r[j]
               y == r[j + 1]
    <2>1. j \in 0 .. (n - 1) /\ j \in 0 .. n /\ j + 1 \in 0 .. n
      BY <1>1
    <2>2. x \in Nat /\ y \in Nat /\ y = Shifted(x, w)
      BY <2>1, RestFacts
    <2>3. d \in Int /\ x = d + P * y /\ d >= -H
      BY <2>2, DigitFacts
    <2>4. b \in Nat \ {0} /\ c = P * b
      BY WeightFacts
    <2>5. (P - 1) * (x * b) <= (P - 1) * k + H * (b - 1)
      BY <1>3, <2>1
    <2> HIDE DEF n, P, H, r, B, Good, d, b, c, x, y
    <2>6. P * y \in Nat /\ P * y <= x + H
      BY <1>1, <2>2, <2>3
    <2>7. b * (P * y) <= b * (x + H)
      BY <1>1, <2>2, <2>4, <2>6, Growing
    <2>8. y * c = b * (P * y)
      BY <1>1, <2>2, <2>4
    <2>9. b * (x + H) = x * b + H * b
      BY <1>1, <2>2, <2>4
    <2> DEFINE X == x * b
               Y == y * c
               Hb == H * b
    <2>10. X \in Nat /\ Y \in Nat /\ Hb \in Nat
      BY <1>1, <2>2, <2>4
    <2>11. Y <= X + Hb
      BY <2>7, <2>8, <2>9
    <2>12. H * c = P * Hb /\ H * (b - 1) = Hb - H /\ H * (c - 1) = H * c - H
      BY <1>1, <2>4
    <2> HIDE DEF X, Y, Hb
    <2>13. (P - 1) * Y <= (P - 1) * (X + Hb) /\ (P - 1) * (X + Hb) = (P - 1) * X + (P * Hb - Hb)
      BY <1>1, <2>10, <2>11, Growing
    <2>14. (P - 1) * X <= (P - 1) * k + (Hb - H)
      BY <2>5, <2>12 DEF X
    <2>15. (P - 1) * Y <= (P - 1) * k + (P * Hb - H)
      <3>1. (P - 1) * Y \in Int /\ (P - 1) * X \in Int /\ P * Hb \in Int /\ (P - 1) * k \in Int
        BY <1>1, <2>10
      <3> QED  BY <1>1, <2>10, <2>13, <2>14, <3>1
    <2>16. (P - 1) * (y * c) <= (P - 1) * k + H * (c - 1)
      BY <2>12, <2>15 DEF Y
    <2> QED  BY <2>16 DEF y, c
  <1> HIDE DEF Good
  <1>4. \A j \in Nat : j \in Good
    BY <1>2, <1>3, Counting
  <1> QED  BY <1>1, <1>4 DEF Good

\* What they reach they use up: no carry leaves the last window.
LEMMA UsedUp ==
    ASSUME NEW m \in Nat, NEW k \in 0 .. m, NEW w \in Nat \ {0}, Reaches(w, m)
    PROVE  Rest(k, w)[WindowCount(w)] = 0
  <1> DEFINE n == WindowCount(w)
             P == Pow2(w)
             H == Pow2(w - 1)
             B == Pow2(w * n)
             r == Rest(k, w)[n]
  <1>1. n \in Nat /\ P \in Nat \ {0} /\ H \in Nat \ {0} /\ P = 2 * H /\ k \in Nat
    BY WindowCountFacts, HalfFacts
  <1>2. B \in Nat \ {0}
    BY <1>1, WeightFacts
  <1>3. r \in Nat
    BY <1>1, RestFacts
  <1>4. (P - 1) * (r * B) <= (P - 1) * k + H * (B - 1)
    <2>1. n \in 0 .. n
      BY <1>1
    <2>2. \A i \in 0 .. WindowCount(w) :
              (Pow2(w) - 1) * (Rest(k, w)[i] * Pow2(w * i))
                 <= (Pow2(w) - 1) * k + Pow2(w - 1) * (Pow2(w * i) - 1)
      BY <1>1, LeftBound
    <2> QED  BY <2>1, <2>2, Zenon
  <1>5. (P - 1) * m <= (H - 1) * (B - 1)
    BY DEF Reaches
  <1> HIDE DEF n, P, H, B, r
  <1>6. SUFFICES ASSUME r >= 1 PROVE FALSE
    BY <1>3 DEF r, n
  <1>7. B * 1 <= B * r /\ B * r = r * B /\ r * B \in Nat
    BY <1>2, <1>3, <1>6, Growing
  <1>8. (P - 1) * B <= (P - 1) * (r * B)
    BY <1>1, <1>2, <1>7, Growing
  <1>9. (P - 1) * k <= (P - 1) * m
    BY <1>1, Growing
  <1>10. (H - 1) * (B - 1) + H * (B - 1) = (P - 1) * (B - 1)
    BY <1>1, <1>2
  <1>11. (P - 1) * (B - 1) = (P - 1) * B - (P - 1)
    BY <1>1, <1>2
  <1>12. /\ (P - 1) * B \in Int /\ (P - 1) * (r * B) \in Int /\ (P - 1) * k \in Int /\ (P - 1) * m \in Int
         /\ (H - 1) * (B - 1) \in Int /\ H * (B - 1) \in Int
    BY <1>1, <1>2, <1>3
  <1>13. (P - 1) * B <= (P - 1) * B - (P - 1)
    BY <1>4, <1>5, <1>8, <1>9, <1>10, <1>11, <1>12
  <1> QED  BY <1>1, <1>12, <1>13

\* Powers of two grow,
LEMMA Pow2Grows ==
    ASSUME NEW a \in Nat, NEW b \in Nat, a <= b
    PROVE  Pow2(a) <= Pow2(b)
  <1>1. b - a \in Nat /\ b = a + (b - a)
    OBVIOUS
  <1>2. Pow2(a) \in Nat /\ Pow2(b - a) \in Nat \ {0} /\ Pow2(b) = Pow2(a) * Pow2(b - a)
    BY <1>1, Pow2Sum
  <1>3. Pow2(a) * 1 <= Pow2(a) * Pow2(b - a)
    BY <1>2, Growing
  <1> QED  BY <1>2, <1>3

\* so windows of two bits or more that leave two bits to spare reach all
\* numbers of b bits.
LEMMA SpareBits ==
    ASSUME NEW w \in Nat, w >= 2, NEW b \in Nat, b + 2 <= w * WindowCount(w)
    PROVE  Reaches(w, Pow2(b) - 1)
  <1> DEFINE n == WindowCount(w)
             P == Pow2(w)
             H == Pow2(w - 1)
             B == Pow2(w * n)
             M == Pow2(b)
  <1>1. w \in Nat \ {0} /\ n \in Nat /\ w * n \in Nat
    BY WindowCountFacts
  <1>2. P \in Nat \ {0} /\ H \in Nat \ {0} /\ P = 2 * H /\ M \in Nat \ {0} /\ B \in Nat
    BY <1>1, HalfFacts, Pow2Sum
  <1>3. Pow2(b + 2) = 4 * M
    <2>1. b + 2 = (b + 1) + 1
      OBVIOUS
    <2> QED  BY <2>1, Power2Facts DEF Pow2
  <1>4. 4 * M <= B
    BY <1>1, <1>3, Pow2Grows
  <1>5. H >= 2
    <2>1. Pow2(1) = 2
      BY Power2Facts DEF Pow2
    <2> QED  BY <2>1, Pow2Grows
  <1> HIDE DEF n, P, H, B, M
  <1>6. (H - 1) * (4 * M - 1) <= (H - 1) * (B - 1)
    BY <1>2, <1>4, <1>5, Growing
  <1>7. (2 * H - 1) * (M - 1) <= (H - 1) * (4 * M - 1)
    <2> DEFINE HM == H * M
    <2>1. /\ (2 * H - 1) * (M - 1) = 2 * HM - M - 2 * H + 1
          /\ (H - 1) * (4 * M - 1) = 4 * HM - 4 * M - H + 1
      BY <1>2
    <2>2. M * 2 <= M * H /\ M * H = HM
      BY <1>2, <1>5, Growing
    <2>3. HM \in Int
      BY <1>2
    <2> HIDE DEF HM
    <2> QED  BY <1>2, <1>5, <2>1, <2>2, <2>3
  <1>8. (P - 1) * (M - 1) <= (H - 1) * (B - 1)
    <2>1. (2 * H - 1) * (M - 1) \in Int /\ (H - 1) * (4 * M - 1) \in Int /\ (H - 1) * (B - 1) \in Int
      BY <1>2
    <2> QED  BY <1>2, <1>6, <1>7, <2>1
  <1> QED  BY <1>8 DEF Reaches, P, H, B, M, n

\* Quotient and remainder of any integer.
LEMMA RemainderFacts ==
    ASSUME NEW x \in Int, NEW m \in Nat \ {0}
    PROVE  /\ x \div m \in Int /\ x % m \in 0 .. (m - 1)
           /\ x = m * (x \div m) + (x % m)
  OBVIOUS

\* Two numbers are the same modulo the order of the group.
Same(x, y) == x % Order = y % Order

\* The order is a positive number.
LEMMA OrderFacts == Order \in Nat \ {0} /\ Lambda \in Int
  BY ScalarsAssumption

\* Numbers are the same when a multiple of the order is between them,
LEMMA SameFrom ==
    ASSUME NEW x \in Int, NEW y \in Int, NEW q \in Int, x = y + Order * q
    PROVE  Same(x, y)
  <1> DEFINE m == Order
             dx == x \div m
             dy == y \div m
             rx == x % m
             ry == y % m
  <1>1. m \in Nat \ {0}
    BY OrderFacts
  <1>2. dx \in Int /\ rx \in 0 .. (m - 1) /\ x = m * dx + rx
    BY <1>1, RemainderFacts
  <1>3. dy \in Int /\ ry \in 0 .. (m - 1) /\ y = m * dy + ry
    BY <1>1, RemainderFacts
  <1>4. x = y + m * q
    OBVIOUS
  <1> HIDE DEF m, dx, dy, rx, ry
  <1> DEFINE e == dx - dy - q
  <1>5. e \in Int /\ m * e = m * dx - m * dy - m * q
    BY <1>1, <1>2, <1>3
  <1>6. m * dx \in Int /\ m * dy \in Int /\ m * q \in Int
    BY <1>1, <1>2, <1>3
  <1> HIDE DEF e
  <1>7. m * e = ry - rx
    BY <1>2, <1>3, <1>4, <1>5, <1>6
  <1>8. e = 0
    <2>1. CASE e >= 1
      <3>1. m * 1 <= m * e
        BY <1>1, <1>5, <2>1, Growing
      <3> QED  BY <1>1, <1>2, <1>3, <1>7, <3>1
    <2>2. CASE e <= -1
      <3>1. m * e <= m * (-1) /\ m * (-1) = -m
        BY <1>1, <1>5, <2>2, Growing
      <3> QED  BY <1>1, <1>2, <1>3, <1>7, <3>1
    <2> QED  BY <1>5, <2>1, <2>2
  <1>9. rx = ry
    BY <1>1, <1>2, <1>3, <1>7, <1>8
  <1> QED  BY <1>9 DEF Same, rx, ry, m

\* and only then;
LEMMA SameTo ==
    ASSUME NEW x \in Int, NEW y \in Int, Same(x, y)
    PROVE  \E q \in Int : x = y + Order * q
  <1> DEFINE m == Order
             dx == x \div m
             dy == y \div m
             rx == x % m
             ry == y % m
  <1>1. m \in Nat \ {0}
    BY OrderFacts
  <1>2. dx \in Int /\ rx \in Int /\ x = m * dx + rx
    BY <1>1, RemainderFacts
  <1>3. dy \in Int /\ ry \in Int /\ y = m * dy + ry
    BY <1>1, RemainderFacts
  <1>4. rx = ry
    BY DEF Same
  <1> HIDE DEF dx, dy, rx, ry
  <1>5. dx - dy \in Int /\ m * (dx - dy) = m * dx - m * dy
    BY <1>1, <1>2, <1>3
  <1>6. m * dx \in Int /\ m * dy \in Int
    BY <1>1, <1>2, <1>3
  <1>7. x = y + m * (dx - dy)
    BY <1>2, <1>3, <1>4, <1>5, <1>6
  <1> QED  BY <1>5, <1>7

\* they stay the same under a sum,
LEMMA SameSum ==
    ASSUME NEW x \in Int, NEW y \in Int, NEW z \in Int, Same(x, y)
    PROVE  Same(x + z, y + z)
  <1>1. Order \in Int
    BY OrderFacts
  <1>2. PICK q \in Int : x = y + Order * q
    BY SameTo
  <1>3. PICK e \in Int : e = Order * q
    BY <1>1
  <1>4. x + z = (y + z) + Order * q
    BY <1>2, <1>3
  <1>5. x + z \in Int /\ y + z \in Int
    OBVIOUS
  <1> QED  BY <1>4, <1>5, SameFrom

\* and a remainder is the same as what it is the remainder of.
LEMMA SameRemainder ==
    ASSUME NEW x \in Int
    PROVE  /\ x % Order \in 0 .. (Order - 1) /\ Same(x % Order, x)
           /\ (x % Order) % Order = x % Order
  <1> DEFINE m == Order
             d == x \div m
             r == x % m
  <1>1. m \in Nat \ {0}
    BY OrderFacts
  <1>2. d \in Int /\ r \in 0 .. (m - 1) /\ r \in Int /\ x = m * d + r
    BY <1>1, RemainderFacts
  <1> HIDE DEF d, r
  <1>3. x = r + m * d
    <2>1. m * d \in Int
      BY <1>1, <1>2
    <2> QED  BY <1>2, <2>1
  <1>4. Same(x, r)
    BY <1>2, <1>3, SameFrom
  <1> QED  BY <1>2, <1>4 DEF Same, r, m

\* The windows cover the scalar.
LEMMA WindowsCover ==
    ASSUME NEW w \in Nat \ {0}
    PROVE  Bits <= w * WindowCount(w)
  <1> DEFINE n == (Bits + w - 1) \div w
  <1>1. Bits \in Nat /\ Bits + w - 1 \in Nat
    BY WidthsAssumption
  <1>2. n \in Nat /\ Bits + w - 1 < w * (n + 1)
    BY <1>1
  <1>3. w * (n + 1) = w * n + w /\ w * n \in Nat
    BY <1>2
  <1>4. WindowCount(w) = n
    BY DEF WindowCount
  <1> HIDE DEF n
  <1> QED  BY <1>1, <1>2, <1>3, <1>4

\* Every half of a scalar is reached by windows of two bits or more.
LEMMA HalvesReach ==
    ASSUME NEW w \in Nat, w >= 2
    PROVE  Reaches(w, Pow2(Bits \div 2) - 1)
  <1> DEFINE b == Bits \div 2
             n == w * WindowCount(w)
  <1>1. b \in Nat /\ b + 2 <= Bits
    BY WidthsAssumption, ScalarsAssumption
  <1>2. Bits <= n /\ n \in Nat /\ Bits \in Nat
    BY WindowsCover, WindowCountFacts, WidthsAssumption
  <1> HIDE DEF b, n
  <1>3. b + 2 <= n
    BY <1>1, <1>2
  <1> HIDE DEF b
  <1>4. Reaches(w, Pow2(b) - 1)
    BY <1>1, <1>3, SpareBits DEF n
  <1> QED  BY <1>4 DEF b

\* One window of a number x that is added with its sign.
Weighed(x, neg, w, i) == Signed(Rest(x, w)[i], neg) * Pow2(w * i)

\* The digit of a window is what makes up the difference to the next.
LEMMA WeighedFacts ==
    ASSUME NEW x \in Nat, NEW neg \in BOOLEAN, NEW w \in Nat \ {0},
           NEW i \in 0 .. (WindowCount(w) - 1)
    PROVE  /\ Signed(WindowDigit(x, w, i), neg) \in Int
           /\ Weighed(x, neg, w, i) \in Int /\ Weighed(x, neg, w, i + 1) \in Int
           /\ Signed(WindowDigit(x, w, i), neg) * Pow2(w * i) + Weighed(x, neg, w, i + 1)
                = Weighed(x, neg, w, i)
  <1> DEFINE P == Pow2(w)
             b == Pow2(w * i)
             c == Pow2(w * (i + 1))
             r == Rest(x, w)[i]
             s == Rest(x, w)[i + 1]
             d == WindowDigit(x, w, i)
  <1>1. i \in Nat /\ i \in 0 .. WindowCount(w)
    BY WindowCountFacts
  <1>2. P \in Nat /\ b \in Nat /\ c = P * b
    BY <1>1, WeightFacts, HalfFacts
  <1>3. r \in Nat /\ s = Shifted(r, w) /\ d = Digit(r, w)
    BY <1>1, RestFacts
  <1>4. s \in Nat /\ d \in Int /\ r = d + P * s
    BY <1>3, DigitFacts
  <1> HIDE DEF P, b, c, r, s, d
  <1>5. /\ Weighed(x, neg, w, i) = Signed(r, neg) * b
        /\ Weighed(x, neg, w, i + 1) = Signed(s, neg) * c
        /\ Signed(WindowDigit(x, w, i), neg) * Pow2(w * i) = Signed(d, neg) * b
    BY DEF Weighed, b, c, r, s, d
  <1>6. /\ Signed(r, neg) \in Int /\ Signed(s, neg) \in Int /\ Signed(d, neg) \in Int
        /\ Signed(r, neg) = Signed(d, neg) + P * Signed(s, neg)
    BY <1>2, <1>3, <1>4 DEF Signed
  <1>7. Signed(r, neg) * b = Signed(d, neg) * b + Signed(s, neg) * c
    <2> DEFINE R == Signed(r, neg)
               S == Signed(s, neg)
               D == Signed(d, neg)
    <2>1. R = D + P * S /\ S \in Int /\ D \in Int
      BY <1>6
    <2> HIDE DEF R, S, D
    <2>2. (D + P * S) * b = D * b + S * (P * b)
      BY <1>2, <2>1
    <2>3. R * b = D * b + S * c
      BY <1>2, <2>1, <2>2
    <2> QED  BY <2>3 DEF R, S, D
  <1>8. Signed(r, neg) * b \in Int /\ Signed(s, neg) * c \in Int /\ Signed(d, neg) * b \in Int
    BY <1>2, <1>6
  <1> QED  BY <1>5, <1>6, <1>7, <1>8 DEF d

\* An entry of a whole table is the multiple of the generator it stands for.
LEMMA EntryFacts ==
    ASSUME NEW T \in Tables, Complete(T), NEW psi \in BOOLEAN, psi => T.glv,
           NEW i \in 0 .. (WindowCount(T.bits) - 1), NEW d \in Int
    PROVE  /\ Entry(T, psi, i, d) \in Int
           /\ ~psi => Same(Entry(T, psi, i, d), d * Pow2(T.bits * i))
           /\ psi => Same(Entry(T, psi, i, d), d * Pow2(T.bits * i) * Lambda)
  <1> DEFINE n == WindowCount(T.bits)
             b == Pow2(T.bits * i)
             at == IF psi THEN n + i ELSE i
             z == d * b * (IF psi THEN Lambda ELSE 1)
  <1>1. T.bits \in Nat \ {0} /\ T.glv \in BOOLEAN /\ n \in Nat /\ i \in Nat
    <2>1. T.bits \in Nat \ {0} /\ T.glv \in BOOLEAN
      BY WidthsAssumption DEF Tables
    <2>2. n \in Nat
      BY <2>1, WindowCountFacts
    <2> QED  BY <2>1, <2>2
  <1>2. b \in Nat /\ Lambda \in Int
    BY <1>1, WeightFacts, OrderFacts
  <1>3. T.filled = IF T.glv THEN 2 * n ELSE n
    BY DEF Complete, TableCount
  <1>4. Entry(T, psi, i, d) = IF at < T.filled THEN z % Order ELSE 0
    BY DEF Entry
  <1> HIDE DEF n, b
  <1>5. at < T.filled
    <2>1. i < n /\ n + i < 2 * n
      BY <1>1 DEF n
    <2>2. CASE psi
      BY <1>1, <1>3, <2>1, <2>2
    <2>3. CASE ~psi
      BY <1>1, <1>3, <2>1, <2>3
    <2> QED  BY <2>2, <2>3
  <1>6. /\ z \in Int /\ (~psi => z = d * b) /\ (psi => z = d * b * Lambda)
    <2>1. d * b \in Int /\ d * b * Lambda \in Int /\ d * b * 1 = d * b
      BY <1>2
    <2> QED  BY <2>1
  <1> HIDE DEF at, z
  <1>7. Entry(T, psi, i, d) = z % Order
    BY <1>4, <1>5
  <1>8. z % Order \in Int /\ Same(z % Order, z)
    <2>1. z % Order \in 0 .. (Order - 1) /\ Same(z % Order, z)
      BY <1>6, SameRemainder
    <2> QED  BY <2>1
  <1>9. ~psi => Same(Entry(T, psi, i, d), d * b)
    BY <1>6, <1>7, <1>8
  <1>10. psi => Same(Entry(T, psi, i, d), d * b * Lambda)
    BY <1>6, <1>7, <1>8
  <1> QED  BY <1>7, <1>8, <1>9, <1>10 DEF b

\* What the windows of T from i on still add to a multiplication by k.
ToCome(T, k, i) ==
    IF T.glv
    THEN LET s == SplitScalar(k) IN
         Weighed(s.k1, s.neg1, T.bits, i) + Weighed(s.k2, s.neg2, T.bits, i) * Lambda
    ELSE Weighed(k, FALSE, T.bits, i)

\* A scalar that callers multiply: reduced, and with halves.
Multiplied(k) == k \in 0 .. (Order - 1) /\ Splits(k) # {}

\* The halves of such a scalar, and what they make up.
LEMMA SplitFacts ==
    ASSUME NEW k, Multiplied(k)
    PROVE  LET s == SplitScalar(k) IN
           /\ s.k1 \in 0 .. (Pow2(Bits \div 2) - 1) /\ s.k2 \in 0 .. (Pow2(Bits \div 2) - 1)
           /\ s.neg1 \in BOOLEAN /\ s.neg2 \in BOOLEAN
           /\ Same(Signed(s.k1, s.neg1) + Lambda * Signed(s.k2, s.neg2), k)
  <1> DEFINE s == SplitScalar(k)
  <1>1. s \in Splits(k)
    BY DEF Multiplied, SplitScalar
  <1> HIDE DEF s
  <1>2. /\ s \in [k1 : 0 .. Pow2(Bits \div 2) - 1, k2 : 0 .. Pow2(Bits \div 2) - 1,
                  neg1 : BOOLEAN, neg2 : BOOLEAN]
        /\ (Signed(s.k1, s.neg1) + Lambda * Signed(s.k2, s.neg2)) % Order = k % Order
    BY <1>1 DEF Splits
  <1> QED  BY <1>2 DEF Same, s

\* The width of a table, and its halves.
LEMMA TableTypes ==
    ASSUME NEW T \in Tables
    PROVE  T.bits \in Nat \ {0} /\ T.glv \in BOOLEAN /\ WindowCount(T.bits) \in Nat \ {0}
  <1>1. T.bits \in Nat \ {0} /\ T.glv \in BOOLEAN
    BY WidthsAssumption DEF Tables
  <1> QED  BY <1>1, WindowCountFacts

\* Before the first window, everything is to come.
LEMMA ToComeFirst ==
    ASSUME NEW T \in Tables, NEW k, Multiplied(k)
    PROVE  ToCome(T, k, 0) \in Int /\ Same(ToCome(T, k, 0), k)
  <1> DEFINE w == T.bits
  <1>1. w \in Nat \ {0}
    BY TableTypes
  <1>2. ASSUME NEW x \in Nat, NEW neg \in BOOLEAN
        PROVE  Weighed(x, neg, w, 0) = Signed(x, neg) /\ Signed(x, neg) \in Int
    <2>1. Rest(x, w)[0] = x /\ Pow2(w * 0) = 1
      BY <1>1, RestFacts, WeightFacts
    <2>2. Signed(x, neg) \in Int
      BY DEF Signed
    <2>3. Weighed(x, neg, w, 0) = Signed(x, neg) * 1
      BY <2>1 DEF Weighed
    <2> QED  BY <2>2, <2>3
  <1>3. CASE T.glv
    <2> DEFINE s == SplitScalar(k)
               a == Signed(s.k1, s.neg1)
               b == Signed(s.k2, s.neg2)
    <2>1. /\ s.k1 \in 0 .. (Pow2(Bits \div 2) - 1) /\ s.k2 \in 0 .. (Pow2(Bits \div 2) - 1)
          /\ s.neg1 \in BOOLEAN /\ s.neg2 \in BOOLEAN
          /\ Same(a + Lambda * b, k)
      BY SplitFacts
    <2>2. s.k1 \in Nat /\ s.k2 \in Nat
      BY <2>1
    <2>3. ToCome(T, k, 0) = Weighed(s.k1, s.neg1, w, 0) + Weighed(s.k2, s.neg2, w, 0) * Lambda
      BY <1>3 DEF ToCome
    <2> HIDE DEF s, w
    <2>4. Weighed(s.k1, s.neg1, w, 0) = a /\ Weighed(s.k2, s.neg2, w, 0) = b /\ a \in Int /\ b \in Int
      BY <1>2, <2>1, <2>2
    <2>5. ToCome(T, k, 0) = a + b * Lambda
      BY <2>3, <2>4
    <2> HIDE DEF a, b
    <2>6. a + b * Lambda = a + Lambda * b /\ a + b * Lambda \in Int
      BY <2>4, OrderFacts
    <2> QED  BY <2>1, <2>5, <2>6
  <1>4. CASE ~T.glv
    <2>1. k \in Nat
      BY OrderFacts DEF Multiplied
    <2>2. Weighed(k, FALSE, w, 0) = Signed(k, FALSE)
      BY <1>2, <2>1
    <2>3. ToCome(T, k, 0) = k
      BY <1>4, <2>2 DEF ToCome, Signed
    <2> QED  BY <2>1, <2>3 DEF Same
  <1> QED  BY <1>3, <1>4

\* Behind the last window, nothing is.
LEMMA ToComeLast ==
    ASSUME NEW T \in Tables, Reaching(T), NEW k, Multiplied(k)
    PROVE  ToCome(T, k, WindowCount(T.bits)) = 0
  <1> DEFINE w == T.bits
             n == WindowCount(w)
             m == Pow2(Bits \div 2) - 1
  <1>1. w \in Nat \ {0} /\ w >= 2 /\ n \in Nat
    BY TableTypes DEF Reaching
  <1>2. Pow2(w * n) \in Int
    BY <1>1, WeightFacts
  <1>3. ASSUME NEW x, NEW neg \in BOOLEAN, NEW most \in Nat, x \in 0 .. most, Reaches(w, most)
        PROVE  Weighed(x, neg, w, n) = 0
    <2>1. Rest(x, w)[n] = 0
      BY <1>1, <1>3, UsedUp
    <2>2. PICK z \in Int : z = Rest(x, w)[n] /\ z <= 0 /\ z >= 0
      BY <2>1
    <2>3. Signed(z, neg) \in Int /\ Signed(z, neg) <= 0 /\ Signed(z, neg) >= 0
      BY <2>2 DEF Signed
    <2>4. Signed(z, neg) = 0
      BY <2>3
    <2>5. Weighed(x, neg, w, n) = 0 * Pow2(w * n)
      BY <2>2, <2>4 DEF Weighed
    <2> QED  BY <1>2, <2>5
  <1>4. CASE T.glv
    <2> DEFINE s == SplitScalar(k)
    <2>1. s.k1 \in 0 .. m /\ s.k2 \in 0 .. m /\ s.neg1 \in BOOLEAN /\ s.neg2 \in BOOLEAN
      BY SplitFacts
    <2>2. m \in Nat /\ Reaches(w, m)
      <3>1. Bits \div 2 \in Nat
        BY WidthsAssumption
      <3>2. Pow2(Bits \div 2) \in Nat \ {0}
        BY <3>1, Pow2Sum
      <3> QED  BY <1>1, <3>2, HalvesReach
    <2>3. ToCome(T, k, n) = Weighed(s.k1, s.neg1, w, n) + Weighed(s.k2, s.neg2, w, n) * Lambda
      BY <1>4 DEF ToCome
    <2> HIDE DEF s, w, n, m
    <2>4. Weighed(s.k1, s.neg1, w, n) = 0 /\ Weighed(s.k2, s.neg2, w, n) = 0
      BY <1>3, <2>1, <2>2
    <2>5. 0 + 0 * Lambda = 0
      BY OrderFacts
    <2> QED  BY <2>3, <2>4, <2>5 DEF n, w
  <1>5. CASE ~T.glv
    <2>1. Reaches(w, Order - 1) /\ Order - 1 \in Nat /\ k \in 0 .. (Order - 1)
      BY <1>5, OrderFacts DEF Reaching, Multiplied
    <2>2. Weighed(k, FALSE, w, n) = 0
      BY <1>3, <2>1
    <2> QED  BY <1>5, <2>2 DEF ToCome
  <1> QED  BY <1>4, <1>5

\* What the window in between adds is what is no longer to come.
LEMMA WindowFacts ==
    ASSUME NEW T \in Tables, Complete(T), NEW k, Multiplied(k),
           NEW i \in 0 .. (WindowCount(T.bits) - 1)
    PROVE  /\ WindowSum(T, k, i) \in Int
           /\ ToCome(T, k, i) \in Int /\ ToCome(T, k, i + 1) \in Int
           /\ Same(WindowSum(T, k, i) + ToCome(T, k, i + 1), ToCome(T, k, i))
  <1> DEFINE w == T.bits
             b == Pow2(w * i)
  <1>1. w \in Nat \ {0} /\ i \in Nat /\ b \in Int
    <2>1. w \in Nat \ {0} /\ i \in Nat
      BY TableTypes
    <2> QED  BY <2>1, WeightFacts
  <1>2. CASE ~T.glv
    <2> DEFINE d == WindowDigit(k, w, i)
               e == Entry(T, FALSE, i, d)
               x == Weighed(k, FALSE, w, i)
               y == Weighed(k, FALSE, w, i + 1)
    <2>1. k \in Nat
      BY OrderFacts DEF Multiplied
    <2>2. d \in Int /\ x \in Int /\ y \in Int /\ d * b + y = x
      BY <1>1, <2>1, WeighedFacts DEF Signed
    <2>3. e \in Int /\ Same(e, d * b)
      BY <1>2, <2>2, EntryFacts
    <2>4. WindowSum(T, k, i) = e /\ ToCome(T, k, i) = x /\ ToCome(T, k, i + 1) = y
      BY <1>2 DEF WindowSum, ToCome
    <2> HIDE DEF w, b, d, e, x, y
    <2>5. d * b \in Int
      BY <1>1, <2>2
    <2>6. Same(e + y, d * b + y)
      BY <2>2, <2>3, <2>5, SameSum
    <2> QED  BY <2>2, <2>3, <2>4, <2>6
  <1>3. CASE T.glv
    <2> DEFINE s == SplitScalar(k)
               d1 == Signed(WindowDigit(s.k1, w, i), s.neg1)
               d2 == Signed(WindowDigit(s.k2, w, i), s.neg2)
               e1 == Entry(T, FALSE, i, d1)
               e2 == Entry(T, TRUE, i, d2)
               x1 == Weighed(s.k1, s.neg1, w, i)
               x2 == Weighed(s.k2, s.neg2, w, i)
               y1 == Weighed(s.k1, s.neg1, w, i + 1)
               y2 == Weighed(s.k2, s.neg2, w, i + 1)
    <2>1. s.k1 \in Nat /\ s.k2 \in Nat /\ s.neg1 \in BOOLEAN /\ s.neg2 \in BOOLEAN
      BY SplitFacts
    <2>2. d1 \in Int /\ x1 \in Int /\ y1 \in Int /\ d1 * b + y1 = x1
      BY <1>1, <2>1, WeighedFacts
    <2>3. d2 \in Int /\ x2 \in Int /\ y2 \in Int /\ d2 * b + y2 = x2
      BY <1>1, <2>1, WeighedFacts
    <2>4. e1 \in Int /\ Same(e1, d1 * b)
      BY <1>3, <2>2, EntryFacts
    <2>5. e2 \in Int /\ Same(e2, d2 * b * Lambda)
      BY <1>3, <2>3, EntryFacts
    <2>6. /\ WindowSum(T, k, i) = e1 + e2
          /\ ToCome(T, k, i) = x1 + x2 * Lambda /\ ToCome(T, k, i + 1) = y1 + y2 * Lambda
      BY <1>3 DEF WindowSum, ToCome
    <2> HIDE DEF w, b, s, d1, d2, e1, e2, x1, x2, y1, y2
    <2> DEFINE p == d1 * b
               q == d2 * b
               v == y2 * Lambda
               l == q * Lambda
    <2>7. p \in Int /\ q \in Int /\ v \in Int /\ l \in Int /\ x2 * Lambda \in Int
      BY <1>1, <2>2, <2>3, OrderFacts
    <2>8. x1 = p + y1 /\ x2 * Lambda = l + v
      <3>1. q \in Int /\ x2 = q + y2 /\ y2 \in Int /\ Lambda \in Int
        BY <2>3, <2>7, OrderFacts
      <3> HIDE DEF q
      <3>2. (q + y2) * Lambda = q * Lambda + y2 * Lambda
        BY <3>1
      <3> QED  BY <2>2, <3>1, <3>2
    <2>9. Same(e1, p) /\ Same(e2, l)
      BY <2>4, <2>5
    <2> HIDE DEF p, q, v, l
    <2>10. Same(e1 + (e2 + (y1 + v)), p + (e2 + (y1 + v)))
      <3>1. e2 + (y1 + v) \in Int
        BY <2>2, <2>5, <2>7
      <3> QED  BY <2>4, <2>7, <2>9, <3>1, SameSum
    <2>11. Same(e2 + (p + (y1 + v)), l + (p + (y1 + v)))
      <3>1. p + (y1 + v) \in Int
        BY <2>2, <2>7
      <3> QED  BY <2>5, <2>7, <2>9, <3>1, SameSum
    <2>12. /\ e1 + (e2 + (y1 + v)) = (e1 + e2) + (y1 + v)
           /\ p + (e2 + (y1 + v)) = e2 + (p + (y1 + v))
           /\ l + (p + (y1 + v)) = x1 + x2 * Lambda
      BY <2>2, <2>4, <2>5, <2>7, <2>8
    <2>13. Same((e1 + e2) + (y1 + v), x1 + x2 * Lambda)
      BY <2>10, <2>11, <2>12 DEF Same
    <2>14. (e1 + e2) \in Int /\ x1 + x2 * Lambda \in Int /\ y1 + v \in Int
      BY <2>2, <2>4, <2>5, <2>7
    <2> QED  BY <2>6, <2>13, <2>14 DEF v
  <1> QED  BY <1>2, <1>3, TableTypes

\* Tables that are enough for every scalar, whole ones, and configurations
\* that ask for such tables.
ReachingTables == {T \in Tables : Reaching(T)}
WholeTables == {T \in ReachingTables : Complete(T)}
ReachingConfigs == {c \in ConfigTypes : c.bits \in 2 .. 30 => Reaching(c)}

\* One window more: the sum is reduced, and what is to come makes up the rest.
LEMMA StepFacts ==
    ASSUME NEW T \in WholeTables, NEW k, Multiplied(k),
           NEW i \in 0 .. (WindowCount(T.bits) - 1),
           NEW a \in Int, Same(a + ToCome(T, k, i), k),
           NEW b, b = (a + WindowSum(T, k, i)) % Order
    PROVE  /\ b \in Int /\ Same(b + ToCome(T, k, i + 1), k)
           /\ i + 1 = WindowCount(T.bits) => b = k % Order
  <1> DEFINE w == WindowSum(T, k, i)
             x == ToCome(T, k, i)
             y == ToCome(T, k, i + 1)
  <1>1. T \in Tables /\ Complete(T) /\ Reaching(T)
    BY DEF WholeTables, ReachingTables
  <1>2. w \in Int /\ x \in Int /\ y \in Int /\ Same(w + y, x)
    BY <1>1, WindowFacts
  <1>3. i + 1 = WindowCount(T.bits) => y = 0
    BY <1>1, ToComeLast
  <1> HIDE DEF w, x, y
  <1>4. b = (a + w) % Order /\ Same(a + x, k)
    BY DEF w, x
  <1>5. a + w \in Int /\ a + y \in Int /\ w + y \in Int
    BY <1>2
  <1>6. b \in 0 .. (Order - 1) /\ Same(b, a + w) /\ b % Order = b
    BY <1>4, <1>5, SameRemainder
  <1>7. b \in Int
    BY <1>6, OrderFacts
  <1>8. Same(b + y, (a + w) + y)
    BY <1>2, <1>5, <1>6, <1>7, SameSum
  <1>9. Same((w + y) + a, x + a)
    BY <1>2, <1>5, SameSum
  <1>10. (w + y) + a = (a + w) + y /\ x + a = a + x
    BY <1>2
  <1>11. Same(b + y, k)
    BY <1>4, <1>8, <1>9, <1>10 DEF Same
  <1>12. ASSUME i + 1 = WindowCount(T.bits)
         PROVE  b = k % Order
    <2>1. b + y = b
      BY <1>3, <1>7, <1>12
    <2> QED  BY <1>6, <1>11, <2>1 DEF Same
  <1> QED  BY <1>7, <1>11, <1>12 DEF y

\* How far the multiplication c with the table T has come: the points that are
\* finished are right, and what the windows from c.win on add completes the next.
Progress(c, T) ==
    /\ Len(c.out) <= Len(c.ks)
    /\ \A i \in 1 .. Len(c.out) : c.out[i] = c.ks[i] % Order
    /\ c.win < WindowCount(T.bits)
    /\ LET k == c.ks[Len(c.out) + 1] IN
       Len(c.out) < Len(c.ks) => Same(c.acc + ToCome(T, k, c.win), k)

CallTypes == [ks : Calls, block : Blocks \cup {NoBlock}, out : Seq(Int), win : Nat, acc : Int]

\* A multiplication and its table, at a point where all is right so far.
Courses == {x \in CallTypes \X WholeTables : Progress(x[1], x[2])}

\* The scalars of a call are to be multiplied.
LEMMA ScalarFacts ==
    ASSUME NEW ks \in Calls
    PROVE  ks \in Seq(Int) /\ \A i \in 1 .. Len(ks) : Multiplied(ks[i])
  <1>1. ks \in Seq(0 .. (Order - 1)) /\ \A i \in DOMAIN ks : Splits(ks[i]) # {}
    BY ScalarsAssumption
  <1>2. ks \in Seq(Int) /\ DOMAIN ks = 1 .. Len(ks) /\ \A i \in 1 .. Len(ks) : ks[i] \in 0 .. (Order - 1)
    BY <1>1, OrderFacts
  <1> QED  BY <1>1, <1>2 DEF Multiplied

\* The first window of a scalar: nothing is summed, and everything is to come.
LEMMA FreshFacts ==
    ASSUME NEW T \in WholeTables, NEW k, Multiplied(k)
    PROVE  Same(0 + ToCome(T, k, 0), k) /\ 0 < WindowCount(T.bits)
  <1>1. T \in Tables
    BY DEF WholeTables, ReachingTables
  <1>2. ToCome(T, k, 0) \in Int /\ Same(ToCome(T, k, 0), k)
    BY <1>1, ToComeFirst
  <1>3. PICK x \in Int : x = ToCome(T, k, 0)
    BY <1>2
  <1>4. 0 + x = x
    OBVIOUS
  <1>5. WindowCount(T.bits) \in Nat \ {0}
    BY <1>1, TableTypes
  <1> QED  BY <1>2, <1>3, <1>4, <1>5

\* A new call with a whole table is on its course.
LEMMA NewCourse ==
    ASSUME NEW T \in WholeTables, NEW ks \in Calls, NEW b \in Blocks \cup {NoBlock}
    PROVE  <<NewCall(ks, b), T>> \in Courses
  <1> DEFINE c == NewCall(ks, b)
  <1>1. c.ks = ks /\ c.out = <<>> /\ c.win = 0 /\ c.acc = 0 /\ c.block = b
    BY DEF NewCall, Call
  <1>2. c \in CallTypes
    BY DEF NewCall, Call, CallTypes
  <1>3. ks \in Seq(Int) /\ \A i \in 1 .. Len(ks) : Multiplied(ks[i])
    BY ScalarFacts
  <1> HIDE DEF c
  <1>4. Len(c.out) = 0
    BY <1>1
  <1>5. 0 < WindowCount(T.bits)
    <2>1. T \in Tables
      BY DEF WholeTables, ReachingTables
    <2> QED  BY <2>1, TableTypes
  <1>6. ASSUME Len(c.out) < Len(c.ks)
        PROVE  Same(c.acc + ToCome(T, c.ks[Len(c.out) + 1], c.win), c.ks[Len(c.out) + 1])
    <2>1. 1 \in 1 .. Len(ks) /\ Len(c.out) + 1 = 1
      BY <1>1, <1>3, <1>4, <1>6
    <2>2. Multiplied(ks[1])
      BY <1>3, <2>1
    <2>3. Same(0 + ToCome(T, ks[1], 0), ks[1])
      BY <2>2, FreshFacts
    <2> QED  BY <1>1, <2>1, <2>3
  <1>7. Progress(c, T)
    <2>1. Len(c.out) <= Len(c.ks) /\ \A i \in 1 .. Len(c.out) : c.out[i] = c.ks[i] % Order
      BY <1>1, <1>3, <1>4
    <2> QED  BY <1>1, <1>5, <1>6, <2>1 DEF Progress
  <1> QED  BY <1>2, <1>7 DEF Courses, c

\* A window that is added, and a point that is finished, stay on the course.
LEMMA AddCourse ==
    ASSUME NEW c, NEW T, <<c, T>> \in Courses, Len(c.out) < Len(c.ks),
           NEW acc, acc = (c.acc + WindowSum(T, c.ks[Len(c.out) + 1], c.win)) % Order
    PROVE  /\ c.win + 1 = WindowCount(T.bits) =>
                 <<Call(c.ks, c.block, Append(c.out, acc), 0, 0), T>> \in Courses
           /\ c.win + 1 # WindowCount(T.bits) =>
                 <<Call(c.ks, c.block, c.out, c.win + 1, acc), T>> \in Courses
  <1> DEFINE l == Len(c.out)
             n == WindowCount(T.bits)
             k == c.ks[l + 1]
  <1>1. c \in CallTypes /\ T \in WholeTables /\ Progress(c, T)
    BY DEF Courses
  <1>2. /\ c.ks \in Calls /\ c.block \in Blocks \cup {NoBlock} /\ c.out \in Seq(Int)
        /\ c.win \in Nat /\ c.acc \in Int
    BY <1>1 DEF CallTypes
  <1>3. n \in Nat \ {0}
    <2>1. T \in Tables
      BY <1>1 DEF WholeTables, ReachingTables
    <2> QED  BY <2>1, TableTypes
  <1>4. c.ks \in Seq(Int) /\ \A i \in 1 .. Len(c.ks) : Multiplied(c.ks[i])
    BY <1>2, ScalarFacts
  <1>5. l \in Nat /\ l + 1 \in 1 .. Len(c.ks)
    BY <1>2, <1>4
  <1>6. Multiplied(k)
    BY <1>4, <1>5
  <1>7. /\ \A i \in 1 .. l : c.out[i] = c.ks[i] % Order
        /\ c.win < n /\ Same(c.acc + ToCome(T, k, c.win), k)
    BY <1>1 DEF Progress
  <1>8. c.win \in 0 .. (n - 1) /\ c.win + 1 \in Nat
    BY <1>2, <1>3, <1>7
  <1>9. /\ acc \in Int /\ Same(acc + ToCome(T, k, c.win + 1), k)
        /\ c.win + 1 = n => acc = k % Order
    BY <1>1, <1>2, <1>6, <1>7, <1>8, StepFacts
  <1>10. ASSUME c.win + 1 # n
         PROVE  <<Call(c.ks, c.block, c.out, c.win + 1, acc), T>> \in Courses
    <2> DEFINE d == Call(c.ks, c.block, c.out, c.win + 1, acc)
    <2>1. d \in CallTypes /\ d.ks = c.ks /\ d.out = c.out /\ d.win = c.win + 1 /\ d.acc = acc
      BY <1>2, <1>8, <1>9 DEF Call, CallTypes
    <2> HIDE DEF d
    <2>2. d.win < n
      BY <1>2, <1>3, <1>7, <1>10, <2>1
    <2>3. Same(d.acc + ToCome(T, d.ks[Len(d.out) + 1], d.win), d.ks[Len(d.out) + 1])
      BY <1>9, <2>1
    <2>4. Len(d.out) <= Len(d.ks) /\ \A i \in 1 .. Len(d.out) : d.out[i] = d.ks[i] % Order
      BY <1>1, <1>7, <2>1 DEF Progress
    <2>5. Progress(d, T)
      BY <2>2, <2>3, <2>4 DEF Progress
    <2> QED  BY <1>1, <2>1, <2>5 DEF Courses, d
  <1>11. ASSUME c.win + 1 = n
         PROVE  <<Call(c.ks, c.block, Append(c.out, acc), 0, 0), T>> \in Courses
    <2> DEFINE out == Append(c.out, acc)
               d == Call(c.ks, c.block, out, 0, 0)
    <2>1. out \in Seq(Int) /\ Len(out) = l + 1 /\ out[l + 1] = acc
          /\ \A i \in 1 .. l : out[i] = c.out[i]
      BY <1>2, <1>9
    <2> HIDE DEF out
    <2>2. d \in CallTypes /\ d.ks = c.ks /\ d.out = out /\ d.win = 0 /\ d.acc = 0
      BY <1>2, <2>1 DEF Call, CallTypes
    <2> HIDE DEF d
    <2>3. Len(d.out) <= Len(d.ks)
      BY <1>4, <1>5, <2>1, <2>2
    <2>4. ASSUME NEW i \in 1 .. (l + 1)
          PROVE  out[i] = c.ks[i] % Order
      <3>1. CASE i = l + 1
        BY <1>9, <1>11, <2>1, <3>1
      <3>2. CASE i # l + 1
        <4>1. i \in 1 .. l
          BY <1>5, <3>2
        <4> QED  BY <1>7, <2>1, <4>1
      <3> QED  BY <3>1, <3>2
    <2>5. ASSUME Len(d.out) < Len(d.ks)
          PROVE  Same(d.acc + ToCome(T, d.ks[Len(d.out) + 1], d.win), d.ks[Len(d.out) + 1])
      <3> DEFINE next == c.ks[Len(out) + 1]
      <3>1. Len(out) + 1 \in 1 .. Len(c.ks)
        <4>1. Len(out) < Len(c.ks)
          BY <2>2, <2>5
        <4>2. Len(out) \in Nat /\ Len(c.ks) \in Nat
          BY <1>4, <1>5, <2>1
        <4> QED  BY <4>1, <4>2
      <3>2. Multiplied(next)
        BY <1>4, <3>1
      <3> HIDE DEF next
      <3>3. Same(0 + ToCome(T, next, 0), next)
        BY <1>1, <3>2, FreshFacts
      <3> QED  BY <2>2, <3>3 DEF next
    <2>6. Progress(d, T)
      <3>1. d.win < n
        BY <1>3, <2>2
      <3>2. \A i \in 1 .. Len(d.out) : d.out[i] = d.ks[i] % Order
        BY <2>1, <2>2, <2>4
      <3> QED  BY <2>3, <2>5, <3>1, <3>2 DEF Progress
    <2>7. <<d, T>> \in Courses
      BY <1>1, <2>2, <2>6 DEF Courses
    <2> QED  BY <2>7 DEF d, out
  <1> QED  BY <1>10, <1>11

\* Windows of two bits or more that leave two bits to spare reach every scalar.
LEMMA SpareBitsReach ==
    ASSUME NEW w \in Nat, w >= 2, Bits + 2 <= w * WindowCount(w)
    PROVE  Reaches(w, Order - 1)
  <1> DEFINE P == Pow2(w)
             m == Pow2(Bits) - 1
             top == (Pow2(w - 1) - 1) * (Pow2(w * WindowCount(w)) - 1)
  <1>1. Bits \in Nat /\ w \in Nat \ {0}
    BY WidthsAssumption
  <1>2. (P - 1) * m <= top
    BY <1>1, SpareBits DEF Reaches
  <1>3. P \in Nat \ {0} /\ Pow2(w - 1) \in Nat \ {0} /\ Pow2(Bits) \in Nat \ {0}
    BY <1>1, HalfFacts, Pow2Sum
  <1>4. Pow2(w * WindowCount(w)) \in Nat
    BY <1>1, WindowCountFacts, WeightFacts
  <1>5. Order - 1 \in Nat /\ Order - 1 <= m
    BY OrderFacts, ScalarsAssumption, <1>3
  <1>6. m \in Nat /\ P - 1 \in Nat
    BY <1>3
  <1>7. top \in Int
    <2>1. PICK x \in Nat : x = Pow2(w * WindowCount(w))
      BY <1>4
    <2>2. PICK y \in Nat : y = Pow2(w - 1)
      BY <1>3
    <2>3. (y - 1) * (x - 1) \in Int
      OBVIOUS
    <2> QED  BY <2>1, <2>2, <2>3
  <1> HIDE DEF P, m, top
  <1>8. (P - 1) * (Order - 1) <= (P - 1) * m
    BY <1>5, <1>6, Growing
  <1>9. (P - 1) * (Order - 1) \in Int /\ (P - 1) * m \in Int
    BY <1>5, <1>6
  <1>10. (P - 1) * (Order - 1) <= top
    BY <1>2, <1>6, <1>7, <1>8, <1>9
  <1> QED  BY <1>10 DEF Reaches, P, top
-----------------------------------------------------------------------------
(* The state.                                                               *)

\* Every table in memory is whole and reaches every scalar; so do the
\* configurations, and the files that a table is loaded from.
Sound ==
    /\ g_config \in [Processes -> ReachingConfigs]
    /\ heap \in [Processes -> [Blocks -> WholeTables \cup {Free}]]
    /\ disk \in [Files -> ReachingTables \cup {Missing}]
    /\ tmp \in [Processes -> [Files -> ReachingTables \cup {Missing}]]

NewCalls == {NewCall(ks, NoBlock) : ks \in Calls}

\* Who multiplies is on the course; who waits for a table has not begun.
OnCourse ==
    \A t \in Threads :
        /\ pc[t] = "multiply" => <<call[t], heap[ProcessOf[t]][call[t].block]>> \in Courses
        /\ pc[t] # "multiply" => call[t] \in NewCalls \cup {NoCall}

\* The invariant from which the answers are right.
RightInv == IInv /\ Sound /\ OnCourse

\* What a reader reads stays while nothing but the blocks of others is let go.
LEMMA ReadersKeep ==
    ASSUME IInv, NEW u \in Threads, pc[u] = "multiply"
    PROVE  LET p == ProcessOf[u]
               b == call[u].block
           IN  p \in Processes /\ b \in Blocks /\ u \in owners[p][b] /\ heap[p][b] # Free
  <1> DEFINE p == ProcessOf[u]
             b == call[u].block
  <1>1. p \in Processes /\ b \in Blocks
    BY ThreadsAssumption DEF IInv, Multiplying
  <1>2. u \in Readers(p, b)
    BY DEF Readers
  <1> HIDE DEF p, b
  <1>3. u \in owners[p][b] /\ heap[p][b] # Free
    BY <1>1, <1>2 DEF IInv, Ownership
  <1> QED  BY <1>1, <1>3 DEF p, b

\* So a step that goes on with every call as it is keeps them on course.
LEMMA OnCourseKept ==
    ASSUME IInv, OnCourse, UNCHANGED call,
           \A u \in Threads : pc'[u] = "multiply" <=> pc[u] = "multiply",
           \A u \in Threads : pc[u] = "multiply" =>
               heap'[ProcessOf[u]][call[u].block] = heap[ProcessOf[u]][call[u].block]
    PROVE  OnCourse'
  BY DEF OnCourse

\* Install frees no block that is read,
LEMMA InstallKeepsReaders ==
    ASSUME IInv, NEW p \in Processes, NEW T, Install(p, T),
           NEW u \in Threads, pc[u] = "multiply"
    PROVE  heap'[ProcessOf[u]][call[u].block] = heap[ProcessOf[u]][call[u].block]
  <1> DEFINE r == ProcessOf[u]
             x == call[u].block
  <1>1. r \in Processes /\ x \in Blocks /\ u \in owners[r][x] /\ heap[r][x] # Free
    BY ReadersKeep
  <1>2. u # Holder
    BY NullsAssumption
  <1>3. heap \in [Processes -> [Blocks -> Tables \cup {Free}]]
    BY DEF IInv, TypesOfMemory
  <1> HIDE DEF r, x
  <1>4. PICK b \in Blocks :
            /\ heap[p][b] = Free
            /\ heap' = [heap EXCEPT ![p] = [y \in Blocks |->
                            IF y = b THEN T ELSE IF owners[p][y] = {Holder} THEN Free ELSE @[y]]]
    BY DEF Install
  <1>5. heap'[r][x] = heap[r][x]
    <2>1. CASE r # p
      BY <1>1, <1>3, <1>4, <2>1
    <2>2. CASE r = p
      <3>1. x # b /\ owners[p][x] # {Holder}
        BY <1>1, <1>2, <1>4, <2>2
      <3> QED  BY <1>1, <1>3, <1>4, <2>2, <3>1
    <2> QED  BY <2>1, <2>2
  <1> QED  BY <1>5 DEF r, x

\* nor does a reset,
LEMMA ResetKeepsReaders ==
    ASSUME IInv, NEW p \in Processes, Reset(p), NEW u \in Threads, pc[u] = "multiply"
    PROVE  heap'[ProcessOf[u]][call[u].block] = heap[ProcessOf[u]][call[u].block]
  <1> DEFINE r == ProcessOf[u]
             x == call[u].block
  <1>1. r \in Processes /\ x \in Blocks /\ u \in owners[r][x] /\ heap[r][x] # Free
    BY ReadersKeep
  <1>2. u # Holder
    BY NullsAssumption
  <1>3. heap \in [Processes -> [Blocks -> Tables \cup {Free}]]
    BY DEF IInv, TypesOfMemory
  <1> HIDE DEF r, x
  <1>4. CASE g_context[p] = NoBlock
    <2>1. heap' = heap
      BY <1>4 DEF Reset
    <2> QED  BY <2>1
  <1>5. CASE g_context[p] # NoBlock
    <2>1. PICK b : b = g_context[p]
      OBVIOUS
    <2>2. heap' = [heap EXCEPT ![p][b] = IF owners[p][b] = {Holder} THEN Free ELSE @]
      BY <1>5, <2>1 DEF Reset, Drop
    <2>3. CASE r = p /\ x = b
      <3>1. owners[p][b] # {Holder}
        BY <1>1, <1>2, <2>3
      <3>2. heap'[r][x] = heap[r][x]
        BY <1>1, <1>3, <2>2, <2>3, <3>1
      <3> QED  BY <3>2 DEF r, x
    <2>4. CASE ~(r = p /\ x = b)
      <3>1. heap'[r][x] = heap[r][x]
        BY <1>1, <1>3, <2>2, <2>4
      <3> QED  BY <3>1 DEF r, x
    <2> QED  BY <2>3, <2>4
  <1> QED  BY <1>4, <1>5

\* nor the return of another reader.
LEMMA ReturnKeepsReaders ==
    ASSUME IInv, NEW t \in Threads, Return(t), NEW u \in Threads \ {t}, pc[u] = "multiply"
    PROVE  heap'[ProcessOf[u]][call[u].block] = heap[ProcessOf[u]][call[u].block]
  <1> DEFINE r == ProcessOf[u]
             x == call[u].block
             p == ProcessOf[t]
             b == call[t].block
  <1>1. r \in Processes /\ x \in Blocks /\ u \in owners[r][x] /\ heap[r][x] # Free
    BY ReadersKeep
  <1>2. heap \in [Processes -> [Blocks -> Tables \cup {Free}]]
    BY DEF IInv, TypesOfMemory
  <1>3. heap' = [heap EXCEPT ![p][b] = IF owners[p][b] = {t} THEN Free ELSE @]
    BY DEF Return, Drop
  <1> HIDE DEF r, x, p, b
  <1>4. CASE r = p /\ x = b
    <2>1. owners[p][b] # {t}
      BY <1>1, <1>4
    <2>2. heap'[r][x] = heap[r][x]
      BY <1>1, <1>2, <1>3, <1>4, <2>1
    <2> QED  BY <2>2 DEF r, x
  <1>5. CASE ~(r = p /\ x = b)
    <2>1. heap'[r][x] = heap[r][x]
      BY <1>1, <1>2, <1>3, <1>5
    <2> QED  BY <2>1 DEF r, x
  <1> QED  BY <1>4, <1>5

\* A table in memory is whole,
LEMMA HeapSound ==
    ASSUME Sound, NEW p \in Processes, NEW b \in Blocks, heap[p][b] # Free
    PROVE  heap[p][b] \in WholeTables
  BY DEF Sound

\* and so is one that is built
LEMMA BuiltSound ==
    ASSUME NEW c \in ReachingConfigs, c.bits \in 2 .. 30
    PROVE  FullTable(c) \in WholeTables
  <1>1. c \in ConfigTypes /\ Reaching(c)
    BY DEF ReachingConfigs
  <1>2. /\ FullTable(c) \in Tables /\ Complete(FullTable(c))
        /\ FullTable(c).bits = c.bits /\ FullTable(c).glv = c.glv
    BY <1>1, TableFacts
  <1>3. Reaching(FullTable(c))
    BY <1>1, <1>2 DEF Reaching
  <1> QED  BY <1>2, <1>3 DEF WholeTables, ReachingTables

\* or loaded.
LEMMA LoadedSound ==
    ASSUME NEW F \in ReachingTables \cup {Missing}, NEW c \in ConfigTypes, NEW maxw,
           Loadable(F, c, maxw)
    PROVE  F \in WholeTables
  <1>1. F \in ReachingTables /\ F \in Tables
    BY DEF Loadable, ReachingTables
  <1>2. F = FullTable(c)
    BY <1>1, LoadableIsFull
  <1> QED  BY <1>1, <1>2, TableFacts DEF WholeTables

\* A file with more or fewer windows is as wide.
LEMMA FileSound ==
    ASSUME NEW F \in ReachingTables, NEW G \in Tables, G.bits = F.bits, G.glv = F.glv
    PROVE  G \in ReachingTables
  BY DEF ReachingTables, Reaching

\* Install keeps the memory sound.
LEMMA InstallSound ==
    ASSUME IInv, Sound, NEW p \in Processes, NEW T \in WholeTables, Install(p, T)
    PROVE  heap' \in [Processes -> [Blocks -> WholeTables \cup {Free}]]
  <1>1. PICK b \in Blocks :
            heap' = [heap EXCEPT ![p] = [x \in Blocks |->
                         IF x = b THEN T ELSE IF owners[p][x] = {Holder} THEN Free ELSE @[x]]]
    BY DEF Install
  <1> QED  BY <1>1 DEF Sound

\* So does letting a block go.
LEMMA DropSound ==
    ASSUME IInv, Sound, NEW p, NEW b, NEW who, Drop(p, b, who)
    PROVE  heap' \in [Processes -> [Blocks -> WholeTables \cup {Free}]]
  <1>1. heap' = [heap EXCEPT ![p][b] = IF owners[p][b] = {who} THEN Free ELSE @]
    BY DEF Drop
  <1> QED  BY <1>1 DEF Sound

\* What callers configure is sound when its widths reach.
LEMMA ConfigSound ==
    ASSUME WidthsReach
    PROVE  /\ Default \in ReachingConfigs
           /\ \A c \in Configs : Effective(c) \in ReachingConfigs
  <1>1. Default \in ConfigTypes /\ \A c \in Configs : Effective(c) \in ConfigTypes
    BY ConfigsAssumption, EffectiveType
  <1> QED  BY <1>1 DEF WidthsReach, ReachingConfigs

\* So is a configuration with another directory.
LEMMA DirectorySound ==
    ASSUME NEW c \in ReachingConfigs, NEW dir \in Dirs
    PROVE  [c EXCEPT !.dir = dir] \in ReachingConfigs
  <1> DEFINE d == [c EXCEPT !.dir = dir]
  <1>1. c \in ConfigTypes
    BY DEF ReachingConfigs
  <1>2. d \in ConfigTypes /\ d.bits = c.bits /\ d.glv = c.glv
    BY <1>1, DirectoryType DEF ConfigTypes
  <1> HIDE DEF d
  <1>3. d \in ReachingConfigs
    BY <1>2 DEF ReachingConfigs, Reaching
  <1> QED  BY <1>3 DEF d

\* At the start all is sound, and nobody multiplies.
LEMMA RightAtStart ==
    ASSUME WidthsReach, Init
    PROVE  RightInv
  <1>1. IInv
    BY InitEstablishes
  <1>2. \A f \in Files : disk[f] \in ReachingTables \cup {Missing}
    BY DiskAssumption DEF Init, WidthsReach, ReachingTables
  <1>3. disk \in [Files -> ReachingTables \cup {Missing}]
    BY <1>2, DiskAssumption DEF Init
  <1>4. Sound
    BY <1>3, ConfigSound DEF Init, Sound
  <1>5. OnCourse
    BY DEF Init, OnCourse
  <1> QED  BY <1>1, <1>4, <1>5 DEF RightInv

\* A new configuration: the table in use is let go, but no reader's.
LEMMA ConfigureRightly ==
    ASSUME WidthsReach, IInv, Sound, OnCourse, NEW t \in Threads, NEW c \in Configs, Configure(t, c)
    PROVE  Sound' /\ OnCourse'
  <1>1. ProcessOf[t] \in Processes /\ Reset(ProcessOf[t])
    BY ThreadsAssumption DEF Configure
  <1>2. g_config' \in [Processes -> ReachingConfigs]
    <2>1. Effective(c) \in ReachingConfigs /\ g_config' = [g_config EXCEPT ![ProcessOf[t]] = Effective(c)]
      BY ConfigSound DEF Configure
    <2> QED  BY <2>1 DEF Sound
  <1>3. heap' \in [Processes -> [Blocks -> WholeTables \cup {Free}]]
    BY <1>1, DropSound DEF Reset, Sound
  <1>4. UNCHANGED <<pc, call, disk, tmp>>
    BY DEF Configure, files
  <1> QED  BY <1>1, <1>2, <1>3, <1>4, ResetKeepsReaders, OnCourseKept DEF Sound

\* A new directory: likewise.
LEMMA SetCacheDirectoryRightly ==
    ASSUME IInv, Sound, OnCourse, NEW t \in Threads, NEW dir \in Dirs, SetCacheDirectory(t, dir)
    PROVE  Sound' /\ OnCourse'
  <1>1. ProcessOf[t] \in Processes /\ Reset(ProcessOf[t])
    BY ThreadsAssumption DEF SetCacheDirectory
  <1>2. g_config' \in [Processes -> ReachingConfigs]
    <2> DEFINE p == ProcessOf[t]
    <2>1. [g_config[p] EXCEPT !.dir = dir] \in ReachingConfigs
      BY <1>1, DirectorySound DEF Sound
    <2>2. g_config' = [g_config EXCEPT ![p] = [g_config[p] EXCEPT !.dir = dir]]
      BY DEF SetCacheDirectory
    <2> HIDE DEF p
    <2> QED  BY <2>1, <2>2 DEF Sound
  <1>3. heap' \in [Processes -> [Blocks -> WholeTables \cup {Free}]]
    BY <1>1, DropSound DEF Reset, Sound
  <1>4. UNCHANGED <<pc, call, disk, tmp>>
    BY DEF SetCacheDirectory, files
  <1> QED  BY <1>1, <1>2, <1>3, <1>4, ResetKeepsReaders, OnCourseKept DEF Sound

\* A snapshot of the table in use starts a multiplication on its course.
LEMMA SnapshotOnCourse ==
    ASSUME IInv, Sound, OnCourse, NEW t \in Threads, NEW ks \in Calls,
           g_context[ProcessOf[t]] # NoBlock, TakeSnapshot(t, ks),
           pc' = [pc EXCEPT ![t] = "multiply"], UNCHANGED <<g_context, heap>>
    PROVE  OnCourse'
  <1> DEFINE p == ProcessOf[t]
             b == g_context[p]
  <1>1. p \in Processes /\ b \in Blocks
    BY ThreadsAssumption DEF IInv, TypesOfMemory
  <1>2. heap[p][b] # Free
    <2>1. Holder \in owners[p][b]
      BY <1>1 DEF IInv, Ownership
    <2> QED  BY <1>1, <2>1 DEF IInv, Ownership
  <1>3. /\ call'[t] = NewCall(ks, b) /\ \A u \in Threads \ {t} : call'[u] = call[u]
        /\ pc'[t] = "multiply" /\ \A u \in Threads \ {t} : pc'[u] = pc[u]
    BY DEF IInv, TypesOfControl, TakeSnapshot
  <1>4. NewCall(ks, b).block = b
    BY <1>1, NewCallType
  <1>5. <<NewCall(ks, b), heap[p][b]>> \in Courses
    BY <1>1, <1>2, HeapSound, NewCourse
  <1> SUFFICES ASSUME NEW u \in Threads
               PROVE  /\ pc'[u] = "multiply" =>
                             <<call'[u], heap[ProcessOf[u]][call'[u].block]>> \in Courses
                      /\ pc'[u] # "multiply" => call'[u] \in NewCalls \cup {NoCall}
    BY DEF OnCourse
  <1>6. CASE u = t
    BY <1>3, <1>4, <1>5, <1>6
  <1>7. CASE u # t
    BY <1>3, <1>7 DEF OnCourse
  <1> QED  BY <1>6, <1>7

\* A call that finds a table.
LEMMA BeginBuiltRightly ==
    ASSUME IInv, Sound, OnCourse, NEW t \in Threads, NEW ks \in Calls \cup {<<>>}, BeginBuilt(t, ks)
    PROVE  Sound' /\ OnCourse'
  <1>1. Sound'
    BY DEF Sound, BeginBuilt, files
  <1>2. CASE ks = <<>>
    <2>1. UNCHANGED <<call, pc, heap>>
      BY <1>2 DEF BeginBuilt
    <2>2. OnCourse'
      BY <2>1, OnCourseKept
    <2> QED  BY <1>1, <2>2
  <1>3. CASE ks # <<>>
    <2>1. /\ ks \in Calls /\ g_context[ProcessOf[t]] # NoBlock /\ TakeSnapshot(t, ks)
          /\ pc' = [pc EXCEPT ![t] = "multiply"] /\ UNCHANGED <<g_context, heap>>
      BY <1>3 DEF BeginBuilt
    <2> QED  BY <1>1, <2>1, SnapshotOnCourse
  <1> QED  BY <1>1, <1>2, <1>3

\* A call that has to build one.
LEMMA BeginBuildRightly ==
    ASSUME IInv, Sound, OnCourse, NEW t \in Threads, NEW ks \in Calls \cup {<<>>}, BeginBuild(t, ks)
    PROVE  Sound' /\ OnCourse'
  <1>1. Sound'
    BY DEF Sound, BeginBuild, memory, files
  <1>2. call'[t] \in NewCalls \cup {NoCall} /\ \A u \in Threads \ {t} : call'[u] = call[u]
    BY DEF IInv, TypesOfControl, BeginBuild, NewCalls
  <1>3. pc'[t] # "multiply" /\ \A u \in Threads \ {t} : pc'[u] = pc[u]
    BY DEF IInv, TypesOfControl, BeginBuild
  <1>4. heap' = heap
    BY DEF BeginBuild, memory
  <1>5. OnCourse'
    <2> SUFFICES ASSUME NEW u \in Threads
                 PROVE  /\ pc'[u] = "multiply" =>
                               <<call'[u], heap[ProcessOf[u]][call'[u].block]>> \in Courses
                        /\ pc'[u] # "multiply" => call'[u] \in NewCalls \cup {NoCall}
      BY <1>4 DEF OnCourse
    <2>1. CASE u = t
      BY <1>2, <1>3, <2>1
    <2>2. CASE u # t
      BY <1>2, <1>3, <2>2 DEF OnCourse
    <2> QED  BY <2>1, <2>2
  <1> QED  BY <1>1, <1>5

\* A table that is put in its place, from a build or from a file.
LEMMA InstallRightly ==
    ASSUME IInv, Sound, OnCourse, NEW p \in Processes, NEW T \in WholeTables, Install(p, T),
           UNCHANGED <<g_config, call, disk, tmp>>,
           \A u \in Threads : pc'[u] = "multiply" <=> pc[u] = "multiply"
    PROVE  Sound' /\ OnCourse'
  BY InstallSound, InstallKeepsReaders, OnCourseKept DEF Sound

\* A cache file that is read.
LEMMA LoadCacheRightly ==
    ASSUME IInv, Sound, OnCourse, NEW t \in Threads, LoadCache(t)
    PROVE  Sound' /\ OnCourse'
  <1> DEFINE p == ProcessOf[t]
             F == disk[path[t]]
  <1>1. /\ pc[t] = "load" /\ UNCHANGED <<g_config, call, disk, tmp>>
        /\ p \in Processes /\ path[t] \in Files
    BY ThreadsAssumption DEF IInv, Building, LoadCache, files
  <1>2. \A u \in Threads : pc'[u] = "multiply" <=> pc[u] = "multiply"
    BY DEF IInv, TypesOfControl, LoadCache
  <1>3. CASE Loadable(F, g_config[p], g_config[p].maxw)
    <2>1. F \in WholeTables
      <3>1. F \in ReachingTables \cup {Missing} /\ g_config[p] \in ConfigTypes
        BY <1>1 DEF Sound, ReachingConfigs
      <3> QED  BY <1>3, <3>1, LoadedSound
    <2>2. Install(p, F)
      BY <1>3 DEF LoadCache
    <2> QED  BY <1>1, <1>2, <2>1, <2>2, InstallRightly
  <1>4. CASE ~Loadable(F, g_config[p], g_config[p].maxw)
    <2>1. heap' = heap
      BY <1>4 DEF LoadCache
    <2> QED  BY <1>1, <1>2, <2>1, OnCourseKept DEF Sound
  <1> QED  BY <1>3, <1>4

\* A table that is built.
LEMMA BuildContextRightly ==
    ASSUME IInv, Sound, OnCourse, NEW t \in Threads, BuildContext(t)
    PROVE  Sound' /\ OnCourse'
  <1> DEFINE p == ProcessOf[t]
  <1>1. p \in Processes /\ g_config[p].bits \in 2 .. 30 /\ Install(p, FullTable(g_config[p]))
        /\ UNCHANGED <<g_config, call, disk, tmp>>
    BY ThreadsAssumption DEF BuildContext, files
  <1>2. \A u \in Threads : pc'[u] = "multiply" <=> pc[u] = "multiply"
    BY DEF IInv, TypesOfControl, BuildContext
  <1>3. FullTable(g_config[p]) \in WholeTables
    BY <1>1, BuiltSound DEF Sound
  <1> QED  BY <1>1, <1>2, <1>3, InstallRightly

\* A build that throws.
LEMMA BuildThrowsRightly ==
    ASSUME IInv, Sound, OnCourse, NEW t \in Threads, BuildThrows(t)
    PROVE  Sound' /\ OnCourse'
  <1>1. Sound'
    BY DEF Sound, BuildThrows, memory, files
  <1>2. heap' = heap /\ pc'[t] # "multiply" /\ call'[t] = NoCall
        /\ \A u \in Threads \ {t} : pc'[u] = pc[u] /\ call'[u] = call[u]
    BY DEF IInv, TypesOfControl, BuildThrows, memory
  <1> QED  BY <1>1, <1>2 DEF OnCourse

\* Steps of a save leave memory and calls alone.
LEMMA SaveOnCourse ==
    ASSUME IInv, OnCourse, NEW t \in Threads, pc[t] # "multiply", pc'[t] # "multiply",
           \A u \in Threads \ {t} : pc'[u] = pc[u], UNCHANGED <<memory, call>>
    PROVE  OnCourse'
  BY OnCourseKept DEF memory

\* The type of what a save writes to.
LEMMA SaveTypes ==
    ASSUME IInv, Sound, NEW t \in Threads, pc[t] \in {"open", "write", "rename"}
    PROVE  /\ ProcessOf[t] \in Processes /\ path[t] \in Files
           /\ Saved(t) \in WholeTables
  <1> DEFINE p == ProcessOf[t]
  <1>1. p \in Processes /\ path[t] \in Files /\ Saved(t) \in Tables
    BY SavedFacts
  <1>2. g_context[p] \in Blocks
    BY <1>1 DEF IInv, TypesOfMemory, Building
  <1>3. heap[p][g_context[p]] # Free
    BY <1>1, NullsAssumption DEF Saved
  <1> QED  BY <1>1, <1>2, <1>3, HeapSound DEF Saved

\* A save that is given up.
LEMMA SaveFailsRightly ==
    ASSUME IInv, Sound, OnCourse, NEW t \in Threads, SaveFails(t)
    PROVE  Sound' /\ OnCourse'
  <1>1. pc[t] \in {"open", "write", "rename"} /\ AfterSave(t) /\ UNCHANGED <<memory, call, disk>>
    BY DEF SaveFails
  <1>2. tmp' \in [Processes -> [Files -> ReachingTables \cup {Missing}]]
    BY DEF SaveFails, Sound
  <1>3. Sound'
    BY <1>1, <1>2 DEF Sound, memory
  <1>4. pc[t] # "multiply" /\ pc'[t] # "multiply" /\ \A u \in Threads \ {t} : pc'[u] = pc[u]
    BY <1>1 DEF AfterSave, IInv, TypesOfControl
  <1> QED  BY <1>1, <1>3, <1>4, SaveOnCourse

\* A temporary file that is opened is as wide as the table that is saved.
LEMMA OpenTemporaryRightly ==
    ASSUME IInv, Sound, OnCourse, NEW t \in Threads, OpenTemporary(t)
    PROVE  Sound' /\ OnCourse'
  <1>1. pc[t] = "open" /\ pc' = [pc EXCEPT ![t] = "write"] /\ UNCHANGED <<memory, call, disk>>
    BY DEF OpenTemporary
  <1>2. Header(Saved(t)) \in ReachingTables
    <2>1. Saved(t) \in WholeTables
      BY <1>1, SaveTypes
    <2>2. PICK T : T = Saved(t)
      OBVIOUS
    <2>3. T \in ReachingTables /\ T \in Tables
      BY <2>1, <2>2 DEF WholeTables, ReachingTables
    <2>4. Header(T).bits = T.bits /\ Header(T).glv = T.glv /\ Header(T) \in Tables
      <3>1. TableCount(T.bits, T.glv) \in Nat
        BY <2>3, TableTypes DEF TableCount
      <3> QED  BY <2>3, <3>1 DEF Tables, Header
    <2>5. Header(T) \in ReachingTables
      BY <2>3, <2>4, FileSound
    <2> QED  BY <2>2, <2>5 DEF Header
  <1>3. tmp' \in [Processes -> [Files -> ReachingTables \cup {Missing}]]
    <2>1. tmp' = [tmp EXCEPT ![ProcessOf[t]][path[t]] = Header(Saved(t))]
      BY DEF OpenTemporary
    <2> HIDE DEF Header, Saved
    <2> QED  BY <1>2, <2>1 DEF Sound
  <1>4. Sound'
    BY <1>1, <1>3 DEF Sound, memory
  <1>5. pc[t] # "multiply" /\ pc'[t] # "multiply" /\ \A u \in Threads \ {t} : pc'[u] = pc[u]
    BY <1>1 DEF IInv, TypesOfControl
  <1> QED  BY <1>1, <1>4, <1>5, SaveOnCourse

\* A window more does not change the width.
LEMMA WriteWindowRightly ==
    ASSUME IInv, Sound, OnCourse, NEW t \in Threads, WriteWindow(t)
    PROVE  Sound' /\ OnCourse'
  <1> DEFINE p == ProcessOf[t]
             f == path[t]
  <1>1. pc[t] = "write" /\ UNCHANGED <<memory, call, disk>>
        /\ tmp' = [tmp EXCEPT ![p][f].filled = @ + 1]
    BY DEF WriteWindow
  <1>2. IInv'
    BY WriteWindowKeeps
  <1>3. p \in Processes /\ f \in Files
    BY <1>1, SaveTypes
  <1>4. tmp[p][f] # Missing
    BY <1>1 DEF IInv, Writing, Partial
  <1> HIDE DEF p, f
  <1>5. tmp[p][f] \in ReachingTables /\ tmp[p][f] \in Tables
    BY <1>3, <1>4 DEF Sound, ReachingTables
  <1>6. /\ tmp'[p][f].bits = tmp[p][f].bits /\ tmp'[p][f].glv = tmp[p][f].glv
        /\ tmp'[p][f] \in Tables \cup {Missing}
    BY <1>1, <1>2, <1>3, <1>5 DEF Tables, IInv, TypesOfFiles
  <1>7. tmp'[p][f] \in ReachingTables \cup {Missing}
    BY <1>5, <1>6, FileSound
  <1>8. \A r \in Processes, g \in Files : tmp'[r][g] \in ReachingTables \cup {Missing}
    <2> SUFFICES ASSUME NEW r \in Processes, NEW g \in Files
                 PROVE  tmp'[r][g] \in ReachingTables \cup {Missing}
      OBVIOUS
    <2>1. CASE r = p /\ g = f
      BY <1>7, <2>1
    <2>2. CASE ~(r = p /\ g = f)
      BY <1>1, <1>3, <2>2 DEF Sound
    <2> QED  BY <2>1, <2>2
  <1>9. tmp' \in [Processes -> [Files -> ReachingTables \cup {Missing}]]
    <2>1. tmp' \in [Processes -> [Files -> Tables \cup {Missing}]]
      BY <1>2 DEF IInv, TypesOfFiles
    <2> QED  BY <1>8, <2>1
  <1>10. Sound'
    BY <1>1, <1>9 DEF Sound, memory
  <1>11. pc[t] # "multiply" /\ pc'[t] # "multiply" /\ \A u \in Threads \ {t} : pc'[u] = pc[u]
    BY <1>1 DEF WriteWindow, IInv, TypesOfControl
  <1> QED  BY <1>1, <1>10, <1>11, SaveOnCourse

\* A temporary file that is renamed is published as it is.
LEMMA RenameTemporaryRightly ==
    ASSUME IInv, Sound, OnCourse, NEW t \in Threads, RenameTemporary(t)
    PROVE  Sound' /\ OnCourse'
  <1> DEFINE p == ProcessOf[t]
             f == path[t]
  <1>1. /\ pc[t] = "rename" /\ AfterSave(t) /\ UNCHANGED <<memory, call>>
        /\ disk' = [disk EXCEPT ![f] = tmp[p][f]] /\ tmp' = [tmp EXCEPT ![p][f] = Missing]
    BY DEF RenameTemporary
  <1>2. p \in Processes /\ f \in Files
    BY <1>1, SaveTypes
  <1> HIDE DEF p, f
  <1>3. /\ disk' \in [Files -> ReachingTables \cup {Missing}]
        /\ tmp' \in [Processes -> [Files -> ReachingTables \cup {Missing}]]
    BY <1>1, <1>2 DEF Sound
  <1>4. Sound'
    BY <1>1, <1>3 DEF Sound, memory
  <1>5. pc[t] # "multiply" /\ pc'[t] # "multiply" /\ \A u \in Threads \ {t} : pc'[u] = pc[u]
    BY <1>1 DEF AfterSave, IInv, TypesOfControl
  <1> QED  BY <1>1, <1>4, <1>5, SaveOnCourse

\* A save under a name begins.
LEMMA SavePrecomputeCacheRightly ==
    ASSUME IInv, Sound, OnCourse, NEW t \in Threads, NEW f \in Named, SavePrecomputeCache(t, f)
    PROVE  Sound' /\ OnCourse'
  <1>1. Sound'
    BY DEF Sound, SavePrecomputeCache, memory, files
  <1>2. pc[t] # "multiply" /\ pc'[t] # "multiply" /\ \A u \in Threads \ {t} : pc'[u] = pc[u]
    BY DEF SavePrecomputeCache, Enters, IInv, TypesOfControl
  <1>3. UNCHANGED <<memory, call>>
    BY DEF SavePrecomputeCache
  <1> QED  BY <1>1, <1>2, <1>3, SaveOnCourse

\* A file is loaded by its name.
LEMMA LoadPrecomputeCacheRightly ==
    ASSUME IInv, Sound, OnCourse, NEW t \in Threads, NEW f \in Named, LoadPrecomputeCache(t, f)
    PROVE  Sound' /\ OnCourse'
  <1> DEFINE p == ProcessOf[t]
  <1>1. p \in Processes /\ f \in Files
    BY ThreadsAssumption, DiskAssumption DEF Files
  <1>2. /\ Loadable(disk[f], g_config[p], 0) /\ Install(p, disk[f])
        /\ UNCHANGED <<g_config, pc, call, disk, tmp>>
    BY DEF LoadPrecomputeCache, files
  <1> HIDE DEF p
  <1>3. disk[f] \in ReachingTables \cup {Missing} /\ g_config[p] \in ConfigTypes
    BY <1>1 DEF Sound, ReachingConfigs
  <1>4. disk[f] \in WholeTables
    BY <1>2, <1>3, LoadedSound
  <1> QED  BY <1>1, <1>2, <1>4, InstallRightly

\* The table is ready: a call that waited for it begins.
LEMMA ProceedRightly ==
    ASSUME IInv, Sound, OnCourse, NEW t \in Threads, Proceed(t)
    PROVE  Sound' /\ OnCourse'
  <1>1. Sound'
    BY DEF Sound, Proceed, files
  <1>2. pc[t] = "snapshot" /\ UNCHANGED <<g_context, heap>>
    BY DEF Proceed
  <1>3. CASE call[t] = NoCall
    <2>1. pc' = [pc EXCEPT ![t] = "idle"] /\ call' = call
      BY <1>3 DEF Proceed
    <2>2. \A u \in Threads : pc'[u] = "multiply" <=> pc[u] = "multiply"
      BY <1>2, <2>1 DEF IInv, TypesOfControl
    <2>3. OnCourse'
      BY <1>2, <2>1, <2>2, OnCourseKept
    <2> QED  BY <1>1, <2>3
  <1>4. CASE call[t] # NoCall
    <2>1. TakeSnapshot(t, call[t].ks) /\ pc' = [pc EXCEPT ![t] = "multiply"]
      BY <1>4 DEF Proceed
    <2>2. g_context[ProcessOf[t]] # NoBlock /\ call[t].ks \in Calls
      BY <1>2, <1>4 DEF IInv, TypesOfControl, IsCall, Building
    <2> QED  BY <1>1, <1>2, <2>1, <2>2, SnapshotOnCourse
  <1> QED  BY <1>3, <1>4

\* A window is added, from the table the thread holds.
LEMMA AddWindowRightly ==
    ASSUME IInv, Sound, OnCourse, NEW t \in Threads, AddWindow(t)
    PROVE  Sound' /\ OnCourse'
  <1>1. Sound'
    BY DEF Sound, AddWindow, memory, files
  <1> DEFINE c == call[t]
             T == heap[ProcessOf[t]][c.block]
             acc == (c.acc + WindowSum(T, c.ks[Len(c.out) + 1], c.win)) % Order
             done == c.win + 1 = WindowCount(T.bits)
             d == IF done THEN Call(c.ks, c.block, Append(c.out, acc), 0, 0)
                  ELSE Call(c.ks, c.block, c.out, c.win + 1, acc)
  <1>2. /\ pc[t] = "multiply" /\ Len(c.out) < Len(c.ks)
        /\ call' = [call EXCEPT ![t] = d] /\ UNCHANGED <<heap, pc>>
    BY DEF AddWindow, memory
  <1>3. <<c, T>> \in Courses
    BY <1>2 DEF OnCourse
  <1>4. d.block = c.block
    BY DEF Call
  <1>5. <<d, T>> \in Courses
    <2> HIDE DEF c, T
    <2>1. PICK a : a = acc
      OBVIOUS
    <2>2. /\ done => <<Call(c.ks, c.block, Append(c.out, a), 0, 0), T>> \in Courses
          /\ ~done => <<Call(c.ks, c.block, c.out, c.win + 1, a), T>> \in Courses
      BY <1>2, <1>3, <2>1, AddCourse
    <2> HIDE DEF acc, done
    <2> QED  BY <2>1, <2>2
  <1>6. call'[t] = d /\ \A u \in Threads \ {t} : call'[u] = call[u]
    <2> HIDE DEF d
    <2> QED  BY <1>2 DEF IInv, TypesOfControl
  <1>7. heap[ProcessOf[t]][d.block] = T
    BY <1>4
  <1> HIDE DEF c, T, d
  <1>8. ASSUME NEW u \in Threads
        PROVE  /\ pc[u] = "multiply" =>
                      <<call'[u], heap[ProcessOf[u]][call'[u].block]>> \in Courses
               /\ pc[u] # "multiply" => call'[u] \in NewCalls \cup {NoCall}
    <2>1. CASE u = t
      BY <1>2, <1>5, <1>6, <1>7, <2>1
    <2>2. CASE u # t
      BY <1>6, <2>2 DEF OnCourse
    <2> QED  BY <2>1, <2>2
  <1>9. OnCourse'
    BY <1>2, <1>8 DEF OnCourse
  <1> QED  BY <1>1, <1>9

\* A reader returns.
LEMMA ReturnRightly ==
    ASSUME IInv, Sound, OnCourse, NEW t \in Threads, Return(t)
    PROVE  Sound' /\ OnCourse'
  <1>1. heap' \in [Processes -> [Blocks -> WholeTables \cup {Free}]]
    BY DropSound DEF Return
  <1>2. Sound'
    BY <1>1 DEF Sound, Return, files
  <1>3. pc'[t] = "idle" /\ call'[t] = NoCall
        /\ \A u \in Threads \ {t} : pc'[u] = pc[u] /\ call'[u] = call[u]
    BY DEF IInv, TypesOfControl, Return
  <1> SUFFICES ASSUME NEW u \in Threads
               PROVE  /\ pc'[u] = "multiply" =>
                             <<call'[u], heap'[ProcessOf[u]][call'[u].block]>> \in Courses
                      /\ pc'[u] # "multiply" => call'[u] \in NewCalls \cup {NoCall}
    BY <1>2 DEF OnCourse
  <1>4. CASE u = t
    BY <1>3, <1>4
  <1>5. CASE u # t
    <2>1. pc'[u] = pc[u] /\ call'[u] = call[u]
      BY <1>3, <1>5
    <2>2. pc[u] = "multiply" =>
              heap'[ProcessOf[u]][call[u].block] = heap[ProcessOf[u]][call[u].block]
      BY <1>5, ReturnKeepsReaders
    <2> QED  BY <2>1, <2>2 DEF OnCourse
  <1> QED  BY <1>4, <1>5

\* A process starts again.
LEMMA CrashRightly ==
    ASSUME WidthsReach, IInv, Sound, OnCourse, NEW p \in Processes, Crash(p)
    PROVE  Sound' /\ OnCourse'
  <1>1. Sound'
    BY ConfigSound DEF Sound, Crash, files
  <1>2. heap' = [heap EXCEPT ![p] = [b \in Blocks |-> Free]]
    BY DEF Crash
  <1>3. \A u \in Threads : IF ProcessOf[u] = p THEN pc'[u] = "idle" /\ call'[u] = NoCall
                           ELSE pc'[u] = pc[u] /\ call'[u] = call[u]
    BY DEF Crash
  <1>4. \A u \in Threads : ProcessOf[u] # p => heap'[ProcessOf[u]] = heap[ProcessOf[u]]
    BY <1>2, ThreadsAssumption DEF IInv, TypesOfMemory
  <1> SUFFICES ASSUME NEW u \in Threads
               PROVE  /\ pc'[u] = "multiply" =>
                             <<call'[u], heap'[ProcessOf[u]][call'[u].block]>> \in Courses
                      /\ pc'[u] # "multiply" => call'[u] \in NewCalls \cup {NoCall}
    BY <1>1 DEF OnCourse
  <1>5. CASE ProcessOf[u] = p
    BY <1>3, <1>5
  <1>6. CASE ProcessOf[u] # p
    BY <1>3, <1>4, <1>6 DEF OnCourse
  <1> QED  BY <1>5, <1>6

\* A step that changes nothing.
LEMMA StutterRightly ==
    ASSUME Sound, OnCourse, UNCHANGED vars
    PROVE  Sound' /\ OnCourse'
  <1>1. UNCHANGED <<g_config, heap, disk, tmp, pc, call>>
    BY DEF vars, memory, files
  <1> QED  BY <1>1 DEF Sound, OnCourse

\* Every step keeps the answers right.
LEMMA NextRightly ==
    ASSUME WidthsReach
    PROVE  RightInv /\ [Next]_vars => RightInv'
  <1> SUFFICES ASSUME IInv, Sound, OnCourse, [Next]_vars
               PROVE  IInv' /\ Sound' /\ OnCourse'
    BY DEF RightInv
  <1>1. IInv'
    BY NextKeeps
  <1>2. CASE UNCHANGED vars
    BY <1>1, <1>2, StutterRightly
  <1>3. ASSUME NEW p \in Processes, Crash(p)
        PROVE  Sound' /\ OnCourse'
    BY <1>3, CrashRightly
  <1>4. ASSUME NEW t \in Threads, Step(t)
        PROVE  Sound' /\ OnCourse'
    BY <1>4, LoadCacheRightly, BuildContextRightly, BuildThrowsRightly, SaveFailsRightly,
       OpenTemporaryRightly, WriteWindowRightly, RenameTemporaryRightly, ProceedRightly,
       AddWindowRightly, ReturnRightly
    DEF Step
  <1>5. ASSUME NEW t \in Threads, NEW ks \in Calls \cup {<<>>},
               BeginBuilt(t, ks) \/ BeginBuild(t, ks)
        PROVE  Sound' /\ OnCourse'
    BY <1>5, BeginBuiltRightly, BeginBuildRightly
  <1>6. ASSUME NEW t \in Threads, NEW f \in Named,
               SavePrecomputeCache(t, f) \/ LoadPrecomputeCache(t, f)
        PROVE  Sound' /\ OnCourse'
    BY <1>6, SavePrecomputeCacheRightly, LoadPrecomputeCacheRightly
  <1>7. ASSUME NEW t \in Threads, NEW c \in Configs, Configure(t, c)
        PROVE  Sound' /\ OnCourse'
    BY <1>7, ConfigureRightly
  <1>8. ASSUME NEW t \in Threads, NEW dir \in Dirs, SetCacheDirectory(t, dir)
        PROVE  Sound' /\ OnCourse'
    BY <1>8, SetCacheDirectoryRightly
  <1> QED  BY <1>1, <1>2, <1>3, <1>4, <1>5, <1>6, <1>7, <1>8 DEF Next

\* On its course, a call has returned nothing but right answers.
LEMMA RightIsRight == RightInv => AnswersRight
  <1> SUFFICES ASSUME RightInv, NEW t \in Threads, call[t] # NoCall
               PROVE  \A i \in 1 .. Len(call[t].out) : call[t].out[i] = call[t].ks[i] % Order
    BY DEF AnswersRight
  <1>1. CASE pc[t] = "multiply"
    <2>1. <<call[t], heap[ProcessOf[t]][call[t].block]>> \in Courses
      BY <1>1 DEF RightInv, OnCourse
    <2>2. Progress(call[t], heap[ProcessOf[t]][call[t].block])
      BY <2>1 DEF Courses
    <2> QED  BY <2>2 DEF Progress
  <1>2. CASE pc[t] # "multiply"
    <2>1. call[t] \in NewCalls
      BY <1>2 DEF RightInv, OnCourse
    <2>2. call[t].out = <<>>
      BY <2>1 DEF NewCalls, NewCall, Call
    <2> QED  BY <2>2
  <1> QED  BY <1>1, <1>2

\* For every number of threads and processes, every order of the group, every
\* set of scalars and every interleaving of multiplications with
\* reconfigurations, builds, loads, saves and crashes, a multiplication returns
\* the multiples it was asked for, as long as the signed digits of the widths
\* in use reach every scalar.  They do not reach for the widths that divide the
\* width of a scalar; those are the ones the run FixedBaseWidth is about.
THEOREM AnswersAreRight ==
    ASSUME WidthsReach
    PROVE  Spec => []AnswersRight
  <1>1. Init => RightInv
    BY RightAtStart
  <1>2. RightInv /\ [Next]_vars => RightInv'
    BY NextRightly
  <1> QED  BY <1>1, <1>2, RightIsRight, PTL DEF Spec

\* The tables of this code leave two bits to spare with every width from 2 to
\* 30 that does not divide the 256 bits of a scalar, and with psi tables for
\* every width: a program that configures, and finds on its disk, only those
\* gets right answers.
THEOREM SpareBitsSuffice ==
    ASSUME \A c \in {Default} \cup {Effective(c) : c \in Configs} :
               c.bits \in 2 .. 30 /\ ~c.glv => Bits + 2 <= c.bits * WindowCount(c.bits),
           \A old \in OldFiles, f \in Files : old[f] # Missing =>
               old[f].bits >= 2 /\ (old[f].glv \/ Bits + 2 <= old[f].bits * WindowCount(old[f].bits))
    PROVE  Spec => []AnswersRight
  <1>1. ASSUME NEW c \in {Default} \cup {Effective(c) : c \in Configs}, c.bits \in 2 .. 30
        PROVE  Reaching(c)
    BY <1>1, SpareBitsReach DEF Reaching
  <1>2. ASSUME NEW old \in OldFiles, NEW f \in Files, old[f] # Missing
        PROVE  Reaching(old[f])
    <2>1. old[f] \in Tables
      BY <1>2, DiskAssumption
    <2>2. old[f].bits \in Nat
      BY <2>1, TableTypes
    <2> QED  BY <1>2, <2>2, SpareBitsReach DEF Reaching
  <1>3. WidthsReach
    BY <1>1, <1>2 DEF WidthsReach
  <1> QED  BY <1>3, AnswersAreRight

=============================================================================
