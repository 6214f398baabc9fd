-------------------------------- MODULE Musig2 --------------------------------
(***************************************************************************)
(* The arithmetic of MuSig2 signing (src/cpu/src/musig2.cpp) together with *)
(* the two tweak functions of the shim that act on its context             *)
(* (shim_musig.cpp), for one signing session.  Signers call the engine     *)
(* directly or through the C interface (impl/ufsecp_musig2.cpp).           *)
(*                                                                         *)
(* Hashes may take any value of a given set.  All signs (R_negated,        *)
(* Q_negated, gacc) are kept as the code keeps them: that they fit         *)
(* together is what is checked.                                            *)
(***************************************************************************)
EXTENDS PrimeGroup

CONSTANTS
    N,           \* signers; a signer is its position in the key list
    KeyHashes,   \* values of the key coefficient hash
    NonceHashes, \* values of the nonce coefficient hash, b
    Challenges,  \* values of the challenge hash, e
    Tweaks,      \* tweaks that are added
    MaxTweaks,   \* bound on how many
    Nonces       \* secret nonces [k1, k2] that nonce_gen may return

ASSUME SignersAssumption == N \in Nat \ {0}
ASSUME InputsAssumption ==
    /\ KeyHashes \cup NonceHashes \cup Challenges \cup Tweaks \subseteq Scalars
    /\ Nonces \subseteq [k1 : Scalars, k2 : Scalars]

Positions == 1 .. N

VARIABLES
    d,        \* d[i]: signer i's secret key; P_i is d[i] * G
    ctx,      \* MuSig2KeyAggCtx, with a count of its tweaks
    nonce,    \* nonce[i]: MuSig2SecNonce
    pubnonce, \* pubnonce[i]: MuSig2PubNonce
    session,  \* MuSig2Session
    psig,     \* psig[i]: the latest partial signature given out, 0 while there is none
    sig,      \* the aggregate signature
    stale     \* history: signers whose nonce the engine was called with when it was
              \* consumed already

vars == <<d, ctx, nonce, pubnonce, session, psig, sig, stale>>

NoCtx == [Q |-> 0]
NoSession == [R |-> 0]
NoSig == [s |-> 0]
Erased == [k1 |-> 0, k2 |-> 0]

\* Mutant: the aggregate is kept with the parity it has.
WithRawActual(c, A) == [c EXCEPT !.Q = A, !.Q_negated = ~EvenY(A)]

\* The context for an aggregate whose point with its real parity is A.
WithActual(c, A) == [c EXCEPT !.Q = SignedBy(~EvenY(A), A), !.Q_negated = ~EvenY(A)]
Actual(c) == SignedBy(c.Q_negated, c.Q)

\* The second key that occurs in the list, if there are two, has coefficient 1.
SecondKey(keys) == {keys[i] : i \in {j \in Positions :
                       keys[j] # keys[1] /\ \A k \in 1 .. (j - 1) : keys[k] = keys[1]}}
Coefficients(keys, hash) == [i \in Positions |-> IF keys[i] \in SecondKey(keys) THEN 1 ELSE hash[i]]

\* Mutant: an x-only tweak leaves gacc alone.
GaccUnflipped(c) == c.gacc

\* gacc after an x-only tweak: g * gacc.
GaccAfterXonly(c) == SignedBy(c.Q_negated, c.gacc)

\* Mutant: the tweak total is not turned when the aggregate is.
TweakUnsigned(c, e) == Times(e, c.tacc)

\* e * g * tacc.
TweakTerm(c, e) == Times(e, SignedBy(c.Q_negated, c.tacc))

\* Mutant: the secret key's own sign is dropped.
KeyTermUnsigned(c, s, i, x) == Times(Times(s.e, c.coef[i]), Times(x, c.gacc))

\* e * a_i * g * gacc * x, for a secret key or a public key x.
KeyTerm(c, s, i, x) == Times(Times(s.e, c.coef[i]), Times(SignedBy(c.Q_negated, x), c.gacc))

\* k1 + b * k2, turned with R; for secret and for public nonces.
NonceTerm(s, k) == SignedBy(s.R_negated, Plus(k.k1, Times(s.b, k.k2)))

\* musig2_partial_verify.  Both parities of the key are accepted.
PartialVerify(i, s) ==
    LET eaP == KeyTerm(ctx, session, i, d[i])
        Reff == NonceTerm(session, pubnonce[i])
    IN  s \in {Plus(Reff, eaP), Plus(Reff, Neg(eaP))}

\* Mutant: any secret key is taken for the signer's.
AnyKey(i, sk) == sk = sk

\* The constant-time comparison with individual_pubkeys[signer_index].
OwnKey(i, sk) == sk = d[i]

\* What musig2_partial_sign makes of a secret nonce k and the signer's key; a zero
\* challenge gives 0.  It does not ask whether k is a nonce that was consumed.
Signature(i, sk, k) ==
    IF session.e = 0 THEN 0 ELSE Plus(NonceTerm(session, k), KeyTerm(ctx, session, i, sk))

\* Mutant: the halves are parsed by scalar_parse_strict, which takes a zero.
AnyNonce(k) == k = k

\* scalar_parse_strict_nonzero of both halves.
Unspent(k) == k.k1 # 0 /\ k.k2 # 0
-----------------------------------------------------------------------------
Init ==
    /\ d \in [Positions -> 1 .. (q - 1)]
    /\ ctx = NoCtx
    /\ nonce = [i \in Positions |-> Erased]
    /\ pubnonce = [i \in Positions |-> Erased]
    /\ session = NoSession
    /\ psig = [i \in Positions |-> 0]
    /\ sig = NoSig
    /\ stale = {}

\* musig2_key_agg.  Equal keys have equal hashes; an infinite sum is refused.
KeyAgg(hash) ==
    /\ ctx = NoCtx
    /\ \A i, j \in Positions : d[i] = d[j] => hash[i] = hash[j]
    /\ LET coef == Coefficients(d, hash)
           Q == SumOf([i \in Positions |-> Times(coef[i], d[i])])
       IN  /\ Q # 0
           /\ ctx' = WithActual([Q |-> Q, Q_negated |-> FALSE, coef |-> coef,
                                 gacc |-> 1, tacc |-> 0, tweaks |-> 0], Q)
    /\ UNCHANGED <<d, nonce, pubnonce, session, psig, sig, stale>>

Tweakable == ctx # NoCtx /\ session = NoSession /\ ctx.tweaks < MaxTweaks

\* secp256k1_musig_pubkey_ec_tweak_add: t * G is added to the actual key.
EcTweak(t) ==
    /\ Tweakable
    /\ LET A == Plus(Actual(ctx), t)
       IN  /\ A # 0
           /\ ctx' = WithActual([ctx EXCEPT !.tacc = Plus(@, t), !.tweaks = @ + 1], A)
    /\ UNCHANGED <<d, nonce, pubnonce, session, psig, sig, stale>>

\* secp256k1_musig_pubkey_xonly_tweak_add: t * G is added to the even-Y key.
XonlyTweak(t) ==
    /\ Tweakable
    /\ LET A == Plus(ctx.Q, t)
       IN  /\ A # 0
           /\ ctx' = WithActual([ctx EXCEPT !.gacc = GaccAfterXonly(ctx),
                                            !.tacc = Plus(SignedBy(ctx.Q_negated, @), t),
                                            !.tweaks = @ + 1], A)
    /\ UNCHANGED <<d, nonce, pubnonce, session, psig, sig, stale>>

\* musig2_nonce_gen, signer after signer.
NonceGen(i, k) ==
    /\ ctx # NoCtx
    /\ pubnonce[i] = Erased /\ \A j \in 1 .. (i - 1) : pubnonce[j] # Erased
    /\ nonce' = [nonce EXCEPT ![i] = k]
    /\ pubnonce' = [pubnonce EXCEPT ![i] = k]
    /\ UNCHANGED <<d, ctx, session, psig, sig, stale>>

\* musig2_nonce_agg and musig2_start_sign_session.
StartSession(b, e) ==
    /\ session = NoSession
    /\ \A i \in Positions : pubnonce[i] # Erased
    /\ LET R1 == SumOf([i \in Positions |-> pubnonce[i].k1])
           R2 == SumOf([i \in Positions |-> pubnonce[i].k2])
           sum == Plus(R1, Times(b, R2))
           R == IF sum = 0 THEN 1 ELSE sum
       IN  session' = [R |-> SignedBy(~EvenY(R), R), R_negated |-> ~EvenY(R), b |-> b, e |-> e,
                       tweak_s |-> TweakTerm(ctx, e), substituted |-> sum = 0]
    /\ UNCHANGED <<d, ctx, nonce, pubnonce, psig, sig, stale>>

\* musig2_partial_sign, called directly.  A key that is not the signer's is
\* refused before the nonce is touched; else the nonce is erased, and whatever it
\* was before, an answer is computed.
PartialSign(i, sk) ==
    /\ session # NoSession
    /\ \/ ~OwnKey(i, sk) /\ UNCHANGED <<nonce, psig, stale>>
       \/ /\ OwnKey(i, sk)
          /\ nonce' = [nonce EXCEPT ![i] = Erased]
          /\ psig' = [psig EXCEPT ![i] = Signature(i, sk, nonce[i])]
          /\ stale' = stale \cup (IF nonce[i] = Erased THEN {i} ELSE {})
    /\ UNCHANGED <<d, ctx, pubnonce, session, sig>>

\* ufsecp_musig2_partial_sign_v2 with musig2_partial_sign_core, given the list of
\* keys that was aggregated.  The nonce is erased on every way out, and a zero
\* half is refused.  A context parsed from the interface's bytes has no tweaks.
PartialSignV2(i, sk) ==
    /\ session # NoSession
    /\ ctx.tweaks = 0
    /\ nonce' = [nonce EXCEPT ![i] = Erased]
    /\ IF OwnKey(i, sk) /\ Unspent(nonce[i])
       THEN psig' = [psig EXCEPT ![i] = Signature(i, sk, nonce[i])]
       ELSE UNCHANGED psig
    /\ UNCHANGED <<d, ctx, pubnonce, session, sig, stale>>

\* musig2_partial_sig_agg; a zero sum is refused.
Aggregate ==
    /\ session # NoSession /\ sig = NoSig
    /\ \A i \in Positions : psig[i] # 0
    /\ LET s == Plus(SumOf(psig), session.tweak_s)
       IN  s # 0 /\ sig' = [s |-> s, R |-> session.R]
    /\ UNCHANGED <<d, ctx, nonce, pubnonce, session, psig, stale>>

Next ==
    \/ \E hash \in [Positions -> KeyHashes] : KeyAgg(hash)
    \/ \E t \in Tweaks : EcTweak(t) \/ XonlyTweak(t)
    \/ \E i \in Positions, k \in Nonces : NonceGen(i, k)
    \/ \E b \in NonceHashes, e \in Challenges : StartSession(b, e)
    \/ \E i \in Positions, sk \in 1 .. (q - 1) : PartialSign(i, sk) \/ PartialSignV2(i, sk)
    \/ Aggregate

Spec == Init /\ [][Next]_vars
-----------------------------------------------------------------------------
\* The invariant of types; an aggregate key and an effective nonce always have
\* even Y.
TypeOK ==
    /\ d \in [Positions -> Scalars]
    /\ ctx # NoCtx => EvenY(ctx.Q) /\ ctx.gacc \in {1, q - 1} /\ ctx.tacc \in Scalars
    /\ nonce \in [Positions -> Nonces \cup {Erased}]
    /\ session # NoSession => EvenY(session.R) /\ session.tweak_s \in Scalars
    /\ psig \in [Positions -> Scalars]
    /\ sig.s \in Scalars
    /\ stale \subseteq Positions

\* BIP-327's invariant of the tweak accumulators: after any series of plain and
\* x-only tweaks the actual aggregate is gacc * (sum of a_i * P_i) + tacc * G
\* (shim_musig.cpp:425-437 and 465-477).
AccumulatorsExact ==
    ctx # NoCtx =>
        Actual(ctx) = Plus(Times(ctx.gacc, SumOf([i \in Positions |-> Times(ctx.coef[i], d[i])])),
                           ctx.tacc)

\* "Aggregated signature verifies as standard BIP-340 Schnorr" (INVARIANTS.md,
\* M1), for every list of keys (repeated ones too) and every series of tweaks:
\* s * G - e * Q is R, which has even Y.  Not so when the nonces cancel: R is
\* then the generator, as BIP-327 wants it; nor when someone has called the engine
\* with a nonce that was consumed.
AggregateVerifies ==
    sig # NoSig /\ ~session.substituted /\ stale = {} =>
        Plus(sig.s, Neg(Times(session.e, ctx.Q))) = sig.R /\ EvenY(sig.R)

\* A partial signature that ufsecp_musig2_partial_sign_v2 returns passes
\* musig2_partial_verify, whatever was signed, refused and asked again before, and
\* so does one that musig2_partial_sign makes of a nonce it has not consumed, whatever
\* key the caller passed for whatever index (a caller may not "sign as any
\* signer_index", musig2.cpp:446-455).  The engine also answers to a consumed nonce
\* (stale), and of that answer nothing is said.
PartialsVerify ==
    \A i \in Positions : psig[i] # 0 /\ i \notin stale => PartialVerify(i, psig[i])
===============================================================================
