------------------------------ MODULE ShimMusig ------------------------------
(***************************************************************************)
(* The session side of the libsecp256k1-compatible MuSig2 interface        *)
(* (compat/libsecp256k1_shim/src/shim_musig.cpp).  The opaque structs of   *)
(* that interface are too small for a key aggregation context, so contexts *)
(* live in a process-wide registry g_ka under a 64-bit token; a cache and  *)
(* a session carry only the token.                                         *)
(*                                                                         *)
(* Every call takes the registry's mutex at most once, and is one step,    *)
(* except secp256k1_musig_partial_sig_agg, which takes it twice: the       *)
(* lookup and the removal are two steps, so that two threads may aggregate *)
(* at once.  A call that returns 0 and changes nothing is a stutter.       *)
(*                                                                         *)
(* The arithmetic is in Musig2.tla.  Here a challenge stands for all that  *)
(* musig2_start_sign_session hashes, the number of tweaks stands for the   *)
(* accumulators (gacc, tacc), and a partial signature is the record of     *)
(* what went into it.                                                      *)
(***************************************************************************)
EXTENDS Integers, FiniteSets

CONSTANTS
    Signers,    \* key pairs
    OddY,       \* signers whose key was aggregated with an odd Y (0x03)
    Caches,     \* secp256k1_musig_keyagg_cache structs of the application
    Sessions,   \* secp256k1_musig_session structs
    Threads,    \* threads that call partial_sig_agg
    KeyLists,   \* the sets of keys that are aggregated
    Rounds,     \* nonce generations of each signer
    MaxKa,      \* kMaxKaEntries
    MaxToken,   \* bound on g_token_counter
    MaxTweaks   \* bound on the tweaks added to one aggregate

ASSUME BoundsAssumption ==
    MaxKa \in Nat \ {0} /\ MaxToken \in Nat \ {0} /\ MaxTweaks \in Nat
ASSUME KeysAssumption == OddY \subseteq Signers /\ KeyLists \subseteq SUBSET Signers \ {{}}

VARIABLES
    ka,        \* g_ka: token -> [keys, tweaks]
    counter,   \* g_token_counter
    cache,     \* cache[c]: the token in data[0..7], 0 if never written
    session,   \* session[s]: token and challenge written by nonce_process
    secnonce,  \* secnonce[p][r]: "none", "live", or "zero" once consumed
    psigs,     \* partial signatures handed out
    call,      \* call[t]: the partial_sig_agg in progress in thread t
    owner,     \* ghost: owner[c], the number of the aggregation in cache c
    aggs,      \* ghost: successful pubkey_agg calls so far
    disturbed, \* ghost: aggregations cleared, or tweaked under a session
    finished   \* ghost: aggregations whose partial_sig_agg has completed

vars == <<ka, counter, cache, session, secnonce, psigs, call,
          owner, aggs, disturbed, finished>>

Tokens == 0 .. MaxToken
Entries == [keys : SUBSET Signers, tweaks : 0 .. MaxTweaks]
Challenges == [agg : Tokens, keys : SUBSET Signers, tweaks : 0 .. MaxTweaks, round : Rounds]

NoSession == [tok |-> 0]
NoCall == [tok |-> 0]

\* Mutants: the counter starts at zero; the token is taken from the registry's
\* size.
ZeroBasedToken == counter - 1
SizeToken == Cardinality(DOMAIN ka) + 1

\* The DoS cap of ka_put, and the token it hands out.
HasRoom == Cardinality(DOMAIN ka) < MaxKa
FreshToken == counter

\* Mutant: parse_bytes_strict, which takes the zeroed struct for a nonce.
UsableStrict(p, r) == secnonce[p][r] # "none"

\* sn_unpack: both halves parse and neither is zero.
Usable(p, r) == secnonce[p][r] = "live"

\* KAEntry::find_index looks for 0x02 || X: an odd-Y key is never found.
FindIndex(entry, p) == p \in entry.keys \ OddY

\* Mutant: the entry is released when partial_sig_agg looks it up.
LookupAndErase(tok) == [t \in DOMAIN ka \ {tok} |-> ka[t]]

\* ka_get_by_token takes a snapshot and leaves the registry alone.
AfterLookup(tok) == ka

Put(tok, entry) == [t \in DOMAIN ka \cup {tok} |-> IF t = tok THEN entry ELSE ka[t]]
Erase(tok) == [t \in DOMAIN ka \ {tok} |-> ka[t]]
-----------------------------------------------------------------------------
Init ==
    /\ ka = [t \in {} |-> 0]
    /\ counter = 1
    /\ cache = [c \in Caches |-> 0]
    /\ session = [s \in Sessions |-> NoSession]
    /\ secnonce = [p \in Signers |-> [r \in Rounds |-> "none"]]
    /\ psigs = {}
    /\ call = [t \in Threads |-> NoCall]
    /\ owner = [c \in Caches |-> 0]
    /\ aggs = 0
    /\ disturbed = {}
    /\ finished = {}

\* secp256k1_musig_pubkey_agg.  At the cap it returns 0 and writes no token.
PubkeyAgg(c, keys) ==
    /\ HasRoom
    /\ counter < MaxToken
    /\ ka' = Put(FreshToken, [keys |-> keys, tweaks |-> 0])
    /\ cache' = [cache EXCEPT ![c] = FreshToken]
    /\ counter' = counter + 1
    /\ aggs' = aggs + 1
    /\ owner' = [owner EXCEPT ![c] = aggs + 1]
    /\ UNCHANGED <<session, secnonce, psigs, call, disturbed, finished>>

\* A session of aggregation a has been started.
Started(a) == \E s \in Sessions : session[s] # NoSession /\ session[s].chal.agg = a

\* secp256k1_musig_pubkey_ec_tweak_add and _xonly_tweak_add: the shared entry
\* itself is changed.
TweakAdd(c) ==
    /\ cache[c] \in DOMAIN ka
    /\ ka[cache[c]].tweaks < MaxTweaks
    /\ ka' = [ka EXCEPT ![cache[c]].tweaks = @ + 1]
    /\ disturbed' = disturbed \cup {a \in {owner[c]} : Started(a)}
    /\ UNCHANGED <<counter, cache, session, secnonce, psigs, call, owner, aggs, finished>>

\* secp256k1_musig_nonce_gen.
NonceGen(p, r) ==
    /\ secnonce[p][r] = "none"
    /\ secnonce' = [secnonce EXCEPT ![p][r] = "live"]
    /\ UNCHANGED <<ka, counter, cache, session, psigs, call, owner, aggs, disturbed, finished>>

\* secp256k1_musig_nonce_agg over the keys of the cache's entry, and
\* secp256k1_musig_nonce_process.
NonceProcess(s, c, r) ==
    /\ cache[c] \in DOMAIN ka
    /\ \A p \in ka[cache[c]].keys : secnonce[p][r] # "none"
    /\ session' = [session EXCEPT ![s] =
          [tok |-> cache[c],
           chal |-> [agg |-> owner[c], keys |-> ka[cache[c]].keys,
                     tweaks |-> ka[cache[c]].tweaks, round |-> r]]]
    /\ UNCHANGED <<ka, counter, cache, secnonce, psigs, call, owner, aggs, disturbed, finished>>

\* secp256k1_musig_partial_sign.  The nonce is zeroed before the key is looked
\* up: a signer that is not found has spent it for nothing (and so has one
\* whose keypair does not parse or whose result is zero).
PartialSign(p, r, c, s) ==
    /\ cache[c] \in DOMAIN ka
    /\ session[s] # NoSession
    /\ Usable(p, r)
    /\ secnonce' = [secnonce EXCEPT ![p][r] = "zero"]
    /\ psigs' = psigs \cup
          {sig \in {[by |-> p, round |-> r, entry |-> ka[cache[c]],
                     chal |-> session[s].chal, agg |-> owner[c],
                     fresh |-> secnonce[p][r] = "live"]} : FindIndex(sig.entry, p)}
    /\ UNCHANGED <<ka, counter, cache, session, call, owner, aggs, disturbed, finished>>

\* secp256k1_musig_partial_sig_agg, to the point where tweak_s is known.
AggLookup(t, s) ==
    /\ call[t] = NoCall
    /\ session[s] # NoSession
    /\ call' = [call EXCEPT ![t] =
          [tok |-> session[s].tok, chal |-> session[s].chal,
           late |-> session[s].chal.agg \in finished,
           tweaks |-> IF session[s].tok \in DOMAIN ka THEN ka[session[s].tok].tweaks ELSE 0]]
    /\ ka' = AfterLookup(session[s].tok)
    /\ UNCHANGED <<counter, cache, session, secnonce, psigs, owner, aggs, disturbed, finished>>

\* ... and from there to its end, whether the sum was zero (0) or not (1).
AggRelease(t) ==
    /\ call[t] # NoCall
    /\ ka' = Erase(call[t].tok)
    /\ finished' = finished \cup {call[t].chal.agg}
    /\ call' = [call EXCEPT ![t] = NoCall]
    /\ UNCHANGED <<counter, cache, session, secnonce, psigs, owner, aggs, disturbed>>

\* A partial signature that is null or does not parse: 0, and nothing released.
AggRefuse(t) ==
    /\ call[t] # NoCall
    /\ call' = [call EXCEPT ![t] = NoCall]
    /\ UNCHANGED <<ka, counter, cache, session, secnonce, psigs, owner, aggs, disturbed, finished>>

\* secp256k1_musig_keyagg_cache_clear.
CacheClear(c) ==
    /\ cache[c] # 0
    /\ ka' = Erase(cache[c])
    /\ disturbed' = disturbed \cup {owner[c]}
    /\ UNCHANGED <<counter, cache, session, secnonce, psigs, call, owner, aggs, finished>>

Next ==
    \/ \E c \in Caches : \/ \E keys \in KeyLists : PubkeyAgg(c, keys)
                         \/ TweakAdd(c)
                         \/ CacheClear(c)
    \/ \E p \in Signers, r \in Rounds :
          \/ NonceGen(p, r)
          \/ \E c \in Caches, s \in Sessions : PartialSign(p, r, c, s)
    \/ \E s \in Sessions, c \in Caches, r \in Rounds : NonceProcess(s, c, r)
    \/ \E t \in Threads : \/ \E s \in Sessions : AggLookup(t, s)
                          \/ AggRelease(t)
                          \/ AggRefuse(t)

Spec == Init /\ [][Next]_vars
-----------------------------------------------------------------------------
\* The invariant of types; every token in use came from the counter.
TypeOK ==
    /\ DOMAIN ka \subseteq 1 .. (counter - 1)
    /\ ka \in [DOMAIN ka -> Entries]
    /\ counter \in 1 .. MaxToken
    /\ cache \in [Caches -> 0 .. (counter - 1)]
    /\ \A s \in Sessions : session[s] # NoSession =>
          session[s].tok \in 1 .. (counter - 1) /\ session[s].chal \in Challenges
    /\ secnonce \in [Signers -> [Rounds -> {"none", "live", "zero"}]]
    /\ \A sig \in psigs : sig.by \in Signers /\ sig.round \in Rounds
    /\ owner \in [Caches -> 0 .. aggs]
    /\ aggs \in Tokens
    /\ disturbed \subseteq 1 .. aggs
    /\ finished \subseteq 1 .. aggs

\* "Hard cap prevents DoS from abandoned sessions" (shim_musig.cpp:163): the
\* registry never holds more than kMaxKaEntries contexts, whatever is abandoned.
RegistryBounded == Cardinality(DOMAIN ka) <= MaxKa

\* "zeroize (single-use)" (line 686) and the warning at lines 211-213: no
\* nonce is in two partial signatures, and none is made from a zeroed struct.
NonceOnce ==
    /\ \A sig \in psigs : sig.fresh
    /\ \A x, y \in psigs : x.by = y.by /\ x.round = y.round => x = y

\* The partial signatures sigs are what the session of call k asks for: one of
\* each signer, made through the cache that the session was started from.
Complete(k, sigs) ==
    /\ \A sig \in sigs : sig.agg = k.chal.agg /\ sig.chal = k.chal /\ sig.round = k.chal.round
    /\ {sig.by : sig \in sigs} = k.chal.keys

\* The aggregate signature verifies: the key coefficients, the key signs and
\* tweak_s all belong to the key that the challenge was made for.
Verifies(k, sigs) ==
    /\ \A sig \in sigs : sig.entry.keys = k.chal.keys /\ sig.entry.tweaks = k.chal.tweaks
    /\ k.tweaks = k.chal.tweaks

\* "Concurrent signing sessions with distinct secp256k1_musig_keyagg_cache
\* objects are fully independent" (lines 77-78), and SHIM-010 (lines 128-141):
\* the first aggregation of a session comes out right whatever is done with
\* other caches, with reused structs, and in other threads.
SessionsIndependent ==
    \A t \in Threads : call[t] # NoCall /\ ~call[t].late /\ call[t].chal.agg \notin disturbed =>
        \A sigs \in SUBSET psigs : Complete(call[t], sigs) => Verifies(call[t], sigs)

\* A released context is never seen again: no later aggregation gets its token
\* (SHIM-010), so an old cache or session cannot reach somebody else's context.
NoRevival == [][\A t \in 1 .. (counter - 1) : t \in DOMAIN ka' => t \in DOMAIN ka]_vars

\* "recompute it from the still-live keyagg cache (released only at the end of
\* this function)" (lines 776-778): partial_sig_agg never returns 1 with the
\* tweak correction left out.
RetryKeepsTweak ==
    \A t \in Threads : call[t] # NoCall /\ call[t].chal.agg \notin disturbed =>
        \A sigs \in SUBSET psigs : Complete(call[t], sigs) => Verifies(call[t], sigs)
=============================================================================
