# UltrafastSecp256k1: a TLA+ verification project

This directory holds TLA+ models of the parts of UltrafastSecp256k1 that have
state, order and concurrency; TLC configurations that check the models on small
instances; and proofs, checked by the TLA+ proof system (TLAPS), of the most
important properties for every value of the constants. Paths below are relative
to the repository's root.

Most of the repository is arithmetic on 256-bit numbers and is a function of its
arguments. That part is tested with vectors, fuzzers and SMT proofs under
`audit/` and is not repeated here. What follows is about the rest: a worker pool
shared by all batch verifications and the bridge that feeds batches to devices or
to it, the process-wide generator table with its cache files, multi-step signing
protocols whose context lives behind small C structs, and an encrypted transport
with per-direction counters.

## 1. Inventory

| Component | Source | State | Operations | What makes it hard | Here |
|---|---|---|---|---|---|
| Batch worker pool | `src/cpu/include/secp256k1/detail/batch_pool.hpp` | job fields under a mutex, three atomics, two condition variables | `run`, `drain`, `worker_loop` | every interleaving of callers and workers; sleeping workers that skip generations; chunk boundaries; exceptions | `BatchJob`, `BatchPool`, `BatchPoolThrow` |
| libsecp256k1 shim, MuSig2 | `compat/libsecp256k1_shim/src/shim_musig.cpp` | process-wide registry, token counter, tokens inside caller-owned structs, nonces | `pubkey_agg`, tweaks, `nonce_gen`, `nonce_process`, `partial_sign`, `partial_sig_agg`, `cache_clear` | structs reused and shared by threads; a context released while a session still names it; a full registry | `ShimMusig` |
| MuSig2 engine and signing call | `src/cpu/src/musig2.cpp`, `src/cpu/src/impl/ufsecp_musig2.cpp` | key aggregation context, session, nonces | key aggregation, nonces, sessions, partial signatures, aggregation | four signs that must agree; repeated keys; refused calls; consumed nonces | `PrimeGroup`, `Musig2` |
| BIP-324 transport | `src/cpu/src/bip324.cpp`, `src/cpu/src/impl/ufsecp_coins.cpp` | two sessions: ephemeral key, two ciphers with packet counters | create, handshake, encrypt, decrypt, destroy | lost, repeated, reordered, reflected, damaged packets; confused roles | `SecureChannel`, `Bip324` |
| Column verification, GPU hook | `src/cpu/src/batch_verify.cpp`, `src/gpu/src/gpu_engine_hook.cpp` | atomic hook, probed backend and its mutex, results array | `*_columns`, `*_rows`, the hook, `install_...` | a device that fails half way, a decline, a second pass on the CPU | `BatchVerdict`, `ColumnVerify` |
| libbitcoin bridge | `compat/libbitcoin_bridge/src/ufsecp_libbitcoin.cpp` | controller with a CPU context and perhaps a device, results or key cells of the caller | create, destroy, batch calls by rows, by columns, collecting, commitments and keys | a device that fails at any chunk, cancellation between chunks, exhausted memory, stale buffers | `LbtcBridge` |
| FROST | `src/cpu/src/frost.cpp`, `src/cpu/src/impl/ufsecp_musig2.cpp` | polynomials, shares, key packages, nonces | key generation, nonces, signing, verification of partial signatures, aggregation | thresholds, wrong shares, repeated and overlapping sessions, duplicate identifiers, signs | `PrimeGroup`, `Frost` |
| Fixed-base tables | `src/cpu/src/precompute.cpp` | configuration, table, mutex, cache files shared by processes | configure, build, load, save, multiply | reconfiguration under use, crashes and failures while saving, files of other processes, window boundaries | `FixedBase` |
| BIP-32/39, HD wallets | `src/cpu/src/bip32.cpp`, `bip39.cpp`, `coin_hd.cpp`, `wallet.cpp` | extended keys | derive, neuter, parse | public and private derivation must agree | not modelled |
| C interface contexts, shim contexts | `src/cpu/src/ufsecp_impl.cpp`, `compat/.../shim_context.cpp` | last error, self-test gate, flags, callbacks | create, clone, randomize, destroy | error slots across calls | not modelled |
| ECDSA, Schnorr, recovery, adaptor, ECIES, Pedersen, ZK, Taproot, addresses | `src/cpu/src/*.cpp` | none | single calls | arithmetic and encodings | not modelled |
| Field, scalar, point, constant-time layer | `src/cpu/src/{field,scalar,point,ct_*}*.cpp` | none | arithmetic | timing, limbs | not modelled |
| GPU kernels, bindings, examples, tools, tests | `src/{cuda,opencl,metal}`, `bindings`, ... | device memory | kernels | | not modelled |

The components meet in few places. Every batch verification of the C interface
and of the shims goes through the one worker pool; `ColumnVerify` uses it by the
promise that `BatchPool` is shown to keep. The shim's MuSig2 functions
keep state in `ShimMusig`'s registry and call the engine of `Musig2`; the models
split along that line, the registry abstracting arithmetic to "what went into a
signature", the algebra abstracting the registry away. `Musig2` and `Frost` share the small group
of `PrimeGroup`. The bridge sits on top of the verifiers of `ColumnVerify` and takes
from them that a row gets the verdict it deserves unless memory runs out. The transport
and the fixed-base table use no other stateful component.

The correctness of each component, in words:

* **Pool.** `run` answers for its own rows: `true` only when each row was examined
  once and none was bad, `false` only when a bad one was. No thread touches the
  job after `run` has returned. `pending_` counts the participants that still owe
  a decrement. No wake-up is lost.
* **Column verification.** A call returns what verifying each row alone would, in its
  answer and in its marks, whichever of device, pool and second pass produced them.
* **Shim MuSig2.** A secret nonce is in at most one partial signature. A session
  of an undisturbed aggregation ends with contexts, keys and tweaks that belong
  together, whatever happens to other caches, structs and threads. The registry
  stays at its cap and never gives a released token a new meaning.
* **MuSig2 algebra.** After any series of tweaks the accumulators describe the
  tweaked key, partial signatures made of nonces not yet consumed verify, the C
  interface makes no others, and the sum of such is a valid signature.
* **FROST.** Whoever finishes the key generation holds a share of one key that any
  quorum can use; honest partial signatures verify, an aggregate built from verified
  ones is a valid signature, and no nonce makes two of them.
* **Fixed-base tables.** Products are right whatever is reconfigured, loaded, saved,
  lost or crashed meanwhile. A table lives as long as its last reader and no longer, is
  whole, and is one for the configuration in force. A published file is whole. A save
  that fails leaves nothing behind.
* **Bridge.** No row that should be refused is ever accepted, at any time in a call and
  whatever fails. A call that completes with enough memory is exact; a cancelled one has
  done a prefix. Contexts are neither lost nor destroyed twice.
* **Transport.** What an end accepts is a beginning of what the other end sealed;
  no key and nonce seal two packets; refused packets never wedge a direction.

## 2. Plan

Done, in this order: `BatchPool`, `ShimMusig`, `Musig2`, `Bip324`, `ColumnVerify`
(composed with `BatchJob`), `FixedBase`, `Frost`, `LbtcBridge`, each with its run, and
proofs of every safety property and refinement that the runs check.

Next, most important first:

1. BIP-32 derivation, depth, public against private derivation.
2. Contexts of the C interface and of the shim; the device registry.

## 3. Modules

### BatchJob, BatchPool, BatchPoolThrow

`BatchPool` follows `batch_pool.hpp` line by line. One action is one critical
section of `m_` or one access to an atomic: `LockJob`, `Publish`, `NotifyStart`
(lines 69-81), `EnterDrain`, `CheckOk`, `TakeChunk`, `CallFn`, `StoreFalse` (the
loop of `drain`), `LockDone`, `CheckDone`, `BlockDone`, `ClearFn`, `ReturnOk`
(82-92), and for a worker `WorkerCheck`, `Decrement`, `LockSignal`, `SignalDone`
(109-128). `job_m_` and `done_m_` are explicit locks, because one is held across
a whole job and `pending_` changes outside the other. Waiting on a condition
variable is a place of `pc`; `SpuriousWake` is a disjunct. Sequential consistency
is assumed for the atomics: `next_` and `pending_` are read-modify-write, and the
final read of `ok_` is ordered after every store by the acquire/release pair on
`pending_`. The pool is leaked on purpose, so the destructor is not modelled.

`BatchJob` is the promise of `run` with neither threads nor locks; the refinement
maps the rows already handed to `fn` (`hits`) to `examined`.

`BatchPoolThrow` adds one action: an exception of `fn` leaves `run` in the calling
thread (its lambdas allocate, and the C interface turns the exception into an
error code).

### BatchVerdict, ColumnVerify

`ColumnVerify` is one call after another of `{ecdsa,schnorr}_batch_verify_*_{rows,columns}`
by several threads. `Entry` is the checks at the top and the atomic load of the hook
(`batch_verify.cpp:820-876`). `LockGpu`, `Probe`, `DeviceStart`, `DeviceChunk`,
`DeviceFails` and `DeviceAnswer` are the provider in `gpu_engine_hook.cpp` and the loop of
a backend behind it (taken from the CUDA one), with a chunk of any size. `Submit`,
`Examine` and `PoolReturn` are the call of the worker pool: they are the actions of
`BatchJob`, by INSTANCE, so that the pool is composed by what it promises.
`SecondPass` and `SecondReturn` are the row-by-row loop of `verify_opaque_bounded`.
`InstallHook` is the application, which may clear and restore the hook at any time. A
row is bad when it does not parse or does not verify, and a batch equation is taken to
hold exactly for good rows. The buffer starts with a value that is neither mark.

`BatchVerdict` is the comment of `batch_verify.hpp:118-121` as a specification of two
actions. The refinement hides the buffer while a call is running.

### ShimMusig

State: `g_ka` as a function from tokens to contexts, `g_token_counter`, the token
inside each cache and session struct, the secret nonces, the partial signatures
given out, and the calls of `partial_sig_agg` in progress. Every call is one step
except `partial_sig_agg`, which takes the mutex twice (`AggLookup`, then
`AggRelease` or `AggRefuse`). A context is its key set and the number of tweaks; a
challenge is what `musig2_start_sign_session` hashes. Ghost variables number the
aggregations and record which were disturbed (cleared, or tweaked under a session)
or finished.

### Musig2

The group is Z_q, a point is its discrete logarithm, so that x-only equality is
equality up to sign. Hashes take any value of a given set. The signs are kept as
the code keeps them (`R_negated`, `Q_negated`, `gacc`, `tacc`). Actions are the
functions of `musig2.cpp` and the two tweak functions of the shim. Signing has two
actions. `PartialSign` is the engine called directly: it erases the nonce it is given, but
does not ask whether that nonce was erased before. `PartialSignV2` is
`ufsecp_musig2_partial_sign_v2` around it, which erases on every way out and refuses a zero
half (`Unspent`); the shim's own refusal is `Usable` in `ShimMusig`. A signer may call both,
in any order and again. The history variable `stale` names the signers for whom the engine
was called with a consumed nonce: their answers do not verify in general, and
`PartialsVerify` and `AggregateVerifies` claim nothing of them, but everything of the rest. The
model has one session, so that the tweak functions come before it. The group itself is
`PrimeGroup`: addition, multiplication, inverses and which points have even Y. Keys,
nonces, tweaks and hashes are scalars (`InputsAssumption`), as the code's types make them.

### Frost

The same group, for `frost.cpp` and what its C wrapper adds (`impl/ufsecp_musig2.cpp`).
Each participant has its polynomial, the shares it has received, its key package and its
nonce. `KeygenBegin` deals shares and broadcasts commitments, `Misdeal` lets a share
arrive wrong (the code verifies each, `ShareFits`, with the powers of the receiver's number
carried from coefficient to coefficient, `Powers`), `KeygenFinalize` checks the shares,
sums them and refuses a key at infinity. `NonceGen` may be called again at any time;
`OpenSession` is the coordinator, who puts together a list of commitments, also one with
a participant twice or too few of them. `Sign` is the wrapper: quorum, membership, the
engine, and the nonce erased on every way out. `VerifyPartial` and `Aggregate` follow the
engine, with the wrapper's check of the result. Binding factors and challenges are values
of given sets. Commitments reach everybody alike; packages come before nonces, and a
session is aggregated once: choices of the model that lose no interleaving of interest.

### FixedBase

One `PrecomputeContext` per process behind a `shared_ptr`, kept as a heap of blocks with
the set of owners of each, so that freeing a table under a reader would show. A critical
section of `g_mutex` that only writes memory is one action (`Configure`,
`SetCacheDirectory`, `BeginBuilt`); the build, which holds the mutex across file
operations that other processes see, is one step per operation: `LoadCache`,
`BuildContext` or `BuildThrows`, `OpenTemporary`, `WriteWindow`, `RenameTemporary`,
`SaveFails`, `Proceed`. `disk` is shared by all processes, `tmp` has a file per process,
as the name ends in the process number. `Crash` empties a process's memory and leaves its
files. A multiplication takes its snapshot (`TakeSnapshot`) and then works through the
windows without the mutex, a window at a time (`AddWindow`), with the signed digits, the
tables and the endomorphism split of the code over scalars of a few bits. Of the split
only what it promises is used, two halves of half the width, by `CHOOSE`; that every scalar
that is multiplied has such halves, and that scalars are reduced, is `ScalarsAssumption`.
Powers of two are the recursive function `Power2`, so that the module can be proved about.
`Reaches` says which scalars windows of a given width can represent; `WidthsReach` that
every configured width, and every file found on the disk, reaches all scalars below the order.

### LbtcBridge

The controller (`Create`, one `TryDevice` per backend, `CreateEnd`, `Destroy`) and one
batch call at a time, as the header demands of a controller. `EnterRows`, `EnterColumns`
and `EnterKeys` are the argument checks and what each entry clears; `Poll`,
`DeviceCollect`, `Device`, `CpuChunk` are the chunk loops, which are the same for packed
rows and for columns; `DeviceKeys`, `Generator`, `Worker`, `Join` the calls that share rows
out among threads. `accepted` is the set of rows marked valid, in a results buffer or by a
zeroed key cell. A device may fail before or in the middle of a chunk; with columns it
works on the caller's buffer and may leave marks there, of rows that deserve them, and for
commitment rows it may also accept a row that the host refuses afterwards (`loose`).
Memory may run out wherever something is allocated; `oom` remembers that it did.

### SecureChannel, Bip324

A session object has the fields of `Bip324Session` and its two `Bip324Cipher`s.
ECDH, HKDF and the AEAD are symbolic: a shared secret is the ordered pair of
encodings, a key is a secret and a label, a packet opens under the key and nonce
that sealed it. The network is the set of all packets ever sealed, each of which
may be given to any session at any time, so that loss, duplication, reordering and
reflection need no actions of their own. Handshakes may deliver any announced
encoding, the session's own included, or a foreign one. `Open` is the whole of
`ufsecp_bip324_decrypt`; whether the caller's buffer is long enough, which is looked at
afterwards, changes nothing in the session. Destroyed objects keep their last values in the model, which nothing
reads. Private keys are fresh; two sessions built from the same given key (a
constructor kept for tests) are not modelled.

`SecureChannel` says what such a transport promises. The refinement maps `sealed`
to `said`, `opened` to `heard`, and the owner of a session's receiving key, once it
has opened something, to `partner`.

## 4. Runs

| Run | Instance | Shows |
|---|---|---|
| `BatchPool` | 2 callers, 2 background workers, 2 pool jobs, 4 kinds of call, fair threads | `TypeOK`, `BlocksUntilComplete`, `PendingExact`, `ThreadBudget`, `EachRowOnce`; the pool implements `BatchJob`; `RunCompletes`: a call holding the pool returns |
| `BatchPoolThrow` | 1 caller, 1 background worker | **violated**: `BlocksUntilComplete` when `fn` throws |
| `ColumnVerify` | 2 callers, 6 kinds of call of up to 3 rows, 1 backend | `TypeOK`; calls implement `BatchVerdict` |
| `ShimMusig` | 2 signers, 2 caches, 1 session struct, 2 threads, 2 aggregations, 1 tweak | `TypeOK`, `NonceOnce`, `SessionsIndependent`, `NoRevival` |
| `ShimMusigRetry` | as `ShimMusig` | **violated**: `RetryKeepsTweak` |
| `Musig2` | group of order 5, 3 signers, 2 tweaks of either kind | `TypeOK`, `AccumulatorsExact`, `AggregateVerifies`, `PartialsVerify` |
| `Frost` | group of order 5, 3 participants, threshold 2, 2 sessions, 1 fault | `TypeOK`, `SharesReconstruct`, `PartialsVerify`, `AggregateVerifies`, `NonceUsedOnce` |
| `FixedBase` | 2 processes, 3 threads, 4 configurations, 4 calls, 1 crash | `TypeOK`, `AliveWhileRead`, `AnswersRight`, `ContextFitsConfig`, `NoTemporaryLeft`, `PublishedWhole` |
| `FixedBaseWidth` | 1 process, 2 threads, widths that divide the scalar's | **violated**: `AnswersRight` |
| `LbtcBridge` | 2 backends, batches of 2 to 4 rows in chunks of 1 to 3, 3 threads | `TypeOK`, `FailClosed`, `ExactWhenComplete`, `VerdictsInOrder`, `ContextsOwned` |
| `Bip324` | 3 sessions, 2 packets each way | `TypeOK`, `NonceOnce`, `SameIdMirrored`, `OpenedIsPrefix`; the sessions implement `SecureChannel` |
| `Bip324Live` | 2 sessions, 3 packets each way, fair delivery | `EventuallyOpened` |

Bounds, and why they are enough:

* `BatchPool`: three workers are the least for which one can take part, one can be
  surplus (`want` below `NWorkers`) and one can oversleep a generation; the second pool
  job meets workers that are late for the first; two callers contend for `job_m_`;
  three rows in chunks of two give a short last chunk, in chunks of one more chunks
  than threads. `MaxJobs` bounds `gen_`.
* `ColumnVerify`: two callers contend for the provider's mutex; three rows with a bad one
  at each end let a device fail before, between and after them, and let the pool stop
  early; requests of no rows, refused arguments, rows and columns, with and without a
  buffer take each branch of the entry. Calls are unbounded in number.
* `ShimMusig`: two caches and one session struct let a struct be reused while
  another aggregation is open; two threads can stand between the two critical
  sections of `partial_sig_agg`. `MaxToken` bounds the counter, `MaxTweaks` the
  tweaks. The cap of the registry is not reached with so few; that it holds is proved for
  every cap (`RegistryCap`).
* `Musig2`: order 5 is the least with two x coordinates, so that signs and keys are
  independent; three signers give repeated keys and the second distinct key at each
  place; two tweaks give each order of plain and x-only; the second-key coefficient
  is 1 beside hashes that are not; challenges take 0, and nonces can cancel. Signing calls are
  unbounded in number.
* `Frost`: three participants give a quorum that leaves one out and one that does not, so
  that Lagrange coefficients depend on the list; the two polynomials cancel in a key or in
  a share and give keys and nonce sums of either sign; the lists have two, three and one
  members and one twice. `MaxNonces` lets a signer draw a new nonce after it was listed,
  `MaxSessions` lets two lists name one nonce, and `MaxFaults` gives a wrong share or a
  wrong partial signature.
* `FixedBase`: two threads of one process give a reader and a reconfigurer, a second
  process shares the files; widths 2, 3 and 5 of four bits, with and without halves, give
  short last windows, and the width that is refused gives a build that throws; the disk
  begins with a whole or a cut file. `MaxCalls` (4) is a build, its use, and two calls in
  between; `MaxCrashes` lets one process stop between any two file operations. The scalars
  12 and 6 carry through every window. `MCFixedBaseReach` has TLC evaluate `WidthsReach`, and,
  for widths 1 to 6 and all numbers of four bits, that `Reaches` is exact: a number is in
  reach just when no carry leaves the last window.
* `LbtcBridge`: chunks smaller than the batch, equal to it and larger, a last chunk shorter
  than the others, more threads than a share for each; bad rows first, last, all, none and
  between; each kind of row through each entry. Batches follow one another without bound,
  so that every one may find the buffer another left.
* `Bip324`: three sessions give an intruding old connection, and every mixture of
  roles and announcements; two packets each way already tell the expected packet
  from a repeated or an early one, and `Bip324Live` has three, for a packet before,
  at and after the expected one. `MaxPackets` bounds `packet_counter_`, which in the
  code has 64 bits.

Deadlock is checked for the pool runs and for `ColumnVerify`. In the others the application may stop
calling, and the bounds stop it: they say `CHECK_DEADLOCK FALSE`. The symmetry sets
permute model values that neither a specification nor its refinement mapping
distinguishes, and no run with fairness uses them.

Fairness. `BatchPool` assumes (`FairSpec`) that a thread that can take a step takes it, as an
operating system's scheduler provides, and strong fairness for acquiring `done_m_`
in a worker (`LockSignal`), since that mutex is released and taken again by others.
It assumes nothing of callers outside `run`, nor that `job_m_` is granted fairly:
`RunCompletes` speaks of a call that holds the pool. `Bip324Live` assumes that the
byte stream under the transport delivers each packet in the end and that the
application reads with a large enough buffer; it assumes nothing else of the
application, and refused packets may come in any number before.

Every property has a mutant in `PROJECT.json`: a change of a modelled definition, as
a plausible bug would make it, under which TLC finds the property violated.

## 5. Where the code and what is said of it disagree

* `run()` waits for the background participants on the normal path only; an
  exception in the calling thread releases `job_m_` with workers inside `fn`
  (`BatchPoolThrow`; `batch_pool.hpp:58` says "Blocks until complete.").
* Aggregating a MuSig2 session a second time through the shim finds no context,
  leaves the tweak correction out and reports success (`ShimMusigRetry`).
* With a window width that divides 256 (2, 4, 8 or 16) and no endomorphism, the carry out
  of the last window is dropped, and `scalar_mul_generator` is wrong for scalars whose top
  digit is negative, such as n - 1 (`FixedBaseWidth`; `precompute.cpp:1048`). The test that
  compares the two (`audit/test_exploit_ctx_lifecycle_hostile.cpp:304-307`) computes both
  sides with the same function.

`PROJECT.json` quotes the lines.

Disagreements met in reading, which no run checks:

* `pubkey_agg` on a cache that already names a context leaves the old one in the registry
  for ever; `shim_musig.cpp:84-85` and `docs/SHIM_KNOWN_DIVERGENCES.md:464-466` say that it
  is overwritten (`PubkeyAgg`).
* `ufsecp_bip324_decrypt` consumes a packet before it finds the caller's buffer too short
  (`ufsecp_coins.cpp:569`), where `docs/BINDINGS_ERROR_MODEL.md:31` says "Caller should fix
  the input and retry" (`Open`).
* `frost_sign`'s comment (`frost.cpp:495-498`) says that aggregation rejects a zero partial
  signature; the engine does not, only the C wrapper looks. The engine signs with an erased
  nonce; the wrapper refuses it (`MaySign`).
* `musig2_partial_sign` zeroes the nonce "to enforce single-use" (`musig2.hpp:133-134`), but
  does not refuse a zeroed one: called again it returns the key's term alone, e * a * g * gacc * d,
  which does not verify in general and from which the key can be computed. The refusal is
  only in the wrappers (`ufsecp_musig2.cpp:177-182`, `Unspent`; `shim_musig.cpp:210-216`,
  `Usable`). A direct caller of the engine has to keep to one call per nonce (`stale`).
* `verify_rows_impl` says that "a NULL/degenerate call or an unprocessed row reads as
  invalid" (`ufsecp_libbitcoin.cpp:760`); a refused call, or one cancelled at its entry,
  leaves results untouched and sets `invalid_count` to 0, which the same comment reads as
  all valid. It and the device path of the keys allocate outside `try`, so that an
  exception can leave an `extern "C"` function against the comment at line 609
  (`EnterRows`, `DeviceKeys`: status `exception`). The comment at line 714 says "result
  bytes remain untouched"; after a device failure they may hold the device's marks
  (`Leftovers`). The header says that a degenerate `verify_commitment` leaves results as
  they were; the code clears them (`EnterKeys`).
* When memory runs out, a batch call returns OK with good rows reported as invalid.
  `ExactWhenComplete` leaves such calls out (`oom`); `FailClosed` does not.
* `save_precompute_cache` and `load_precompute_cache` call functions named `_locked`
  without the mutex (`precompute.cpp:3828-3834`; `Alone`). The configured cache directory
  is used only if the file is already there, else the working directory is read and
  written (`DefaultPath`). A temporary file left by a crash stays until a process of the
  same number saves again (`NoTemporaryLeft` excepts it).

Three more observations are modelled and not claimed as disagreements. The shim finds
a signer by `0x02 || X`, so a member whose plain key has odd Y is never found: its
nonce is spent and it gets no partial signature (`FindIndex`, `PartialSign`).
`musig2_partial_verify` accepts a partial signature under the signer's key or its
negation, which `docs/SECURITY_CLAIMS.md` calls deliberate (`PartialVerify`).
`musig2_partial_sign` keeps the nonce when it refuses the key or the index, before
anything was computed from it, where `musig2.hpp:134` says that it is consumed
(`PartialSign`).

## 6. Proofs

Each proof follows one scheme: a strengthening `IInv`, a lemma that `Init` implies
it, one lemma per action that preserves it, and `Spec => []IInv`; the theorems are
consequences.

* **`BatchPoolProofs`**: `TypeCorrect`, `Blocks`, `PendingCounts`, `Budget`, `RowsOnce`,
  `Implements`. None of the properties is inductive. `Holds` ties the two mutexes to the
  places of the threads, `PoolJobs` and `Published` tie the shared fields to the call of
  the holder of `job_m_`, `SeenPast` bounds what a worker has seen of `gen_`, `AtWork`
  says that whoever is inside `drain` belongs to the open job, `References` that the
  function it uses is that job's, and `Counted` that `pending_` is the number of
  participants still owing a decrement. Counting needs the finite-set theorems.
  A second invariant, `Work`, says what has become of the rows: those behind the cursor
  `next_` were handed to `fn` or are in the chunk of one thread (`Claims`, `Disjoint`,
  `Covered`), `ok_` is false only after a bad row, and after one stays true no longer than
  until the thread that met it has stored (`Blamed`); the holder leaves `drain` when `ok_`
  is false or the cursor is past the end (`Left`). With `Counted`, which says that nobody
  else is still inside by the time `run` returns, it follows that each row is examined at
  most once (`RowsOnce`), and that each step is one of `BatchJob` or a stutter, so that
  `run` answers `true` only after all rows (`Implements`). Assumed: the named assumptions on the
  constants.
* **`ColumnVerifyProofs`**: `TypeCorrect`, `Implements`. What the buffer holds means
  something only at some places of a call: `Marked` says that the rows a device or the
  second pass has been through are marked right, `Summed` that `ok_all` counts just
  those, `Fresh` that a failed device leaves no count behind, `InPool` that the pool
  works on the rows of the request, `Accepted` what the entry let through. `Frame` is
  the lemma that one call does not disturb another's. The refinement to `BatchVerdict`
  follows: returns are promised returns, all else is a stutter. Assumed: rows that are
  bad exist, the markers for "no thread" and "no backend" are neither.
* **`ShimMusigProofs`**: `TypeCorrect`, `RegistryCap`, `SingleUse`, `Independence`,
  `Released`. The key fact is `Tied`: a token is the number of the aggregation it was
  handed out for, so that no struct can reach another's context; `Accounted` says an
  aggregation without a context was cleared or completed; the `Match` parts say that
  contexts, sessions, partial signatures and calls in progress of an undisturbed
  aggregation agree.
* **`Bip324Proofs`**: `TypeCorrect`, `NonceUnique`, `Mirrored`, `PrefixOpened`,
  `Implements`. `Derived` puts a session's own encoding at its role's place in its
  secret, so a sending key names its owner (`SenderOfKey`, `OneSender`) and a receiving
  key names the other end (`Crossed`); `WireSealed` says each packet was sealed by its
  key's owner at the number it carries; `OpenedFrom` is the prefix property with its
  witness. `Implements` proves the refinement to `SecureChannel` step by step.
  Assumed: foreign encodings belong to no session, `Blank` is one of them, `Nobody` is
  no session.

* **`FixedBaseProofs`**: `TypeCorrect`, `NoUseAfterFree`, `PublicationIsAtomic`,
  `ContextIsCurrent`, `SavesAreTidy`. `Exclusive` says that one thread of a process at most
  is between the steps of a build or a save, `Building` what holds at each of these steps
  (which table the context has, how far the temporary file has come), and that the owners
  of a block are `g_context` and the readers, no one else. Assumed: the markers for "no
  block", "no file" and "free" are none of the things they stand beside.

  `AnswersAreRight` and `SpareBitsSuffice` are about the products. `Counting` is induction
  over the natural numbers for a set (from `WFMin`, like the inductions of the other
  modules), `Iteration` that a function can be iterated for ever; from them follows that
  the recursive functions `Power2` and `Rest` are what their definitions say
  (`Power2Facts`, `RestFacts`). A digit and what is left make up the number (`DigitFacts`),
  so a window's entries are the difference of what was to come before it and after it,
  modulo the order (`WindowFacts`, with both halves of the split). No digit is below minus
  half its range, which bounds what is left after i windows (`LeftBound`); a number in
  reach therefore leaves nothing behind the last one (`UsedUp`), and halves are in reach of
  every width from 2 on (`HalvesReach`). The second invariant, `RightInv`, adds two parts to
  `IInv`: `Sound`, that tables in memory are whole and that configurations, tables and
  files, temporary ones included, have widths that reach; and `OnCourse`, that a
  multiplication has finished only right points and that its sum and what is to come from
  its table make up the next (`Progress`). That a step of another thread does not take the
  table away is `InstallKeepsReaders`, `ResetKeepsReaders` and `ReturnKeepsReaders`, from
  the ownership in `IInv`. Hypothesis: `WidthsReach`. Without it the statement is false, as
  `FixedBaseWidth` shows; `SpareBitsSuffice` has a simpler one in its place, that the
  windows of every width used without the split leave two bits to spare. With 256 bits
  those are the widths that do not divide 256.
* **`LbtcBridgeProofs`**: `TypeCorrect`, `NeverFalselyAccepted`, `VerdictsExact`,
  `ChunksInOrder`, `ContextsAccounted`. The strengthening says, for each place of a call,
  which rows are already marked and which cannot be yet; that the ranges of the threads
  cover the batch is the lemma `Covered`, on a share rounded up. Assumed: bad rows are rows
  of the batch, and a device accepts too much only of commitment rows.
* **`Musig2Proofs`**: `Types`, `AccumulatorsHold`, `SignatureVerifies`,
  `PartialsAccepted`, for every number of signers, every series of tweaks and every odd
  order. That remainders mod q are a ring is proved from the integers, law by law. `SumOf`
  is a fold in an order that `CHOOSE` fixes; its recursion is unfolded once and shown to
  have one solution, and type and linearity of sums follow by induction over subsets
  (`WFMin`, the least counterexample, since a set can be passed to a lemma where an
  operator cannot). The invariant keeps next to the properties which records the variables
  hold (`Records`), that the session was made from the context and the nonces
  (`Started`), that a partial signature is what its signer's key and nonce give
  (`Honest`, for signers not in `stale`), and what may exist at each phase (`Phases`). The identity behind it is that
  the four signs `R_negated`, `Q_negated`, `gacc` and `tacc` cancel in the sum. Assumed: q
  is odd and above 2, there is a signer, inputs are scalars. That q is prime is not needed. `PartialsAccepted` holds
  because the C interface's refusal keeps a signer's answer as it was (`PartialSignV2Keeps`);
  answers of the engine to consumed nonces are outside it and outside `SignatureVerifies`.
* **`FrostProofs`**: `SoundAlways`, `TypesHold`, `SecretShared`, `PartialsJudged`,
  `SignatureVerifies`, `NoNonceReuse`, for every number of participants, threshold and
  prime order. On the ring come reciprocals, by the Euclidean argument: the least positive
  remainder among the multiples of x divides q, so it is 1 (`Reciprocals`). Sums and
  products over sets do not depend on the order (`FoldAnyFirst`), and a double sum can be
  exchanged (`SumSwap`). Lagrange's coefficients are handled without polynomials: taking
  a participant out of a set multiplies the coefficients of the others in a known way
  (`OneMore`, `Peel`), hence they sum up to 1 and interpolate k-th powers to 0 for
  0 < k < |S|, and so a polynomial whose degree is below the size of the quorum is
  interpolated to its constant term (`PolyInterpolates`). That Horner's rule of
  `poly_eval` and the powers of `frost_keygen_finalize` compute the same value is not
  needed: what counts is that the receiver checked the latter. The invariant `Sound` has
  four parts: a package holds the sums of what everybody should have dealt (`Keys`),
  commitments and lists (`Rounds`), a partial signature is what its signer made of list,
  package and nonce (`Signed`), an aggregate is a sum over a list of signers, each named
  once, of whom there are enough (`Finished`). Nonces are numbered as they are drawn, and
  a number in a partial signature is no longer in a signer's hand: that is the invariant
  `IInv` of `NoNonceReuse`, which needs no algebra. Assumed: q is an odd prime above N
  (`PrimeAssumption`, `QuorumAssumption`), the threshold is from 2 to N, as
  `frost_keygen_begin`'s wrapper demands, and coefficients, nonces and hashes are scalars,
  the first two not zero.

Only model-checked:

* Liveness, `RunCompletes` and `EventuallyOpened`: it rests on fairness and `ENABLED`,
  which the prover does not handle.

Every other property of a passing run is proved.

## 7. Not modelled

Arithmetic, constant-time behaviour, hash functions and encodings: they are functions
of their arguments, at a size where a model would either be the code again or not be
the code. Weak memory orders beyond the argument above. Destruction of structs while
another thread uses them. Of batch verification: an exception of the pool's lambda
(`BatchPoolThrow` has it; the C interface's twins of the verifiers turn it into an error
code), hooks other than the provider's, and the hooks for public single operations. Of the
fixed base: the compiled-in table, the joint sparse form, builds for embedded systems, the
configuration file and its autotuning, the progress callback, and two unlocked saves at
once, which are a data race. Of the bridge: stateless calls, aggregate checks with random
weights, columns without a results buffer (nothing to report to), failure to start a
thread (the process ends). Of FROST: inconsistent broadcast, which the code leaves to its
transport. BIP-32 and HD wallets, adaptor signatures, contexts of the C interface: each call
is a function of its arguments but for an error slot. GPU
kernels. Bindings, examples, tools, benchmarks and the
repository's own tests.

## 8. Running

    tlc -config BatchPool.cfg MCBatchPool.tla
    tlapm BatchPoolProofs.tla

`PROJECT.json` names the module and configuration of every run.
