-------------------------------- MODULE Frost --------------------------------
(***************************************************************************)
(* FROST threshold signatures: src/cpu/src/frost.cpp behind the C calls of *)
(* impl/ufsecp_musig2.cpp.  A key generation without a dealer among N      *)
(* participants, then signing sessions over lists of commitments that a    *)
(* coordinator puts together; sessions may overlap, list consumed or       *)
(* repeated commitments, or be too short.                                  *)
(*                                                                         *)
(* Commitments reach everybody alike.  Shares and partial signatures may   *)
(* arrive wrong, MaxFaults times.  Hashes may take any value of a given    *)
(* set.  A nonce has a number of its own that the code does not have.      *)
(***************************************************************************)
EXTENDS PrimeGroup, Sequences, FiniteSets

CONSTANTS
    N, Threshold,
    Polys,       \* polynomials that a seed may expand to: coefficients 0 .. Threshold - 1
    Nonces,      \* [h, b]: hiding and binding nonces that a seed may expand to
    Bindings,    \* binding factors of a session, by participant
    Challenges,  \* values of the challenge hash
    Lists,       \* participants a coordinator lists
    MaxNonces, MaxSessions, MaxFaults  \* bounds

Participants == 1 .. N
Degrees == 0 .. (Threshold - 1)

ASSUME QuorumAssumption == N \in Nat /\ Threshold \in 2 .. N /\ N < q
ASSUME PolysAssumption == Polys \subseteq [Degrees -> 1 .. (q - 1)]
ASSUME NoncesAssumption == Nonces \subseteq [h : 1 .. (q - 1), b : 1 .. (q - 1)]
ASSUME HashesAssumption ==
    Bindings \subseteq [Participants -> Scalars] /\ Challenges \subseteq Scalars
ASSUME PrimeAssumption == \A m \in 2 .. (q - 1) : q % m # 0
ASSUME ListsAssumption == Lists \subseteq Seq(Participants)

VARIABLES
    poly,      \* poly[i]: what i dealt; the commitments to it are public
    share,     \* share[i][j]: the share of i's polynomial that reached j
    pkg,       \* pkg[j]: FrostKeyPackage
    nonce,     \* nonce[i]: the secret nonce, with its number, or Erased
    commit,    \* commit[i]: the last commitment i has published
    sessions,  \* the lists that are signed, with their hashes
    partials,  \* partial signatures that were returned, with the nonce used
    sigs,      \* aggregate signatures, with the partial signatures given
    made, faults

keys == <<poly, share, pkg>>
vars == <<keys, nonce, commit, sessions, partials, sigs, made, faults>>

NoPoly == <<>>
NoPkg == [key |-> 0]
Erased == [h |-> 0, b |-> 0, number |-> 0]

Init ==
    /\ poly = [i \in Participants |-> NoPoly]
    /\ share = [i \in Participants |-> [j \in Participants |-> 0]]
    /\ pkg = [j \in Participants |-> NoPkg]
    /\ nonce = [i \in Participants |-> Erased]
    /\ commit = [i \in Participants |-> Erased]
    /\ sessions = <<>>
    /\ partials = {}
    /\ sigs = {}
    /\ made = 0 /\ faults = 0
-----------------------------------------------------------------------------
(* Key generation.                                                          *)

\* poly_eval: Horner's rule.
PolyEval(f, x) ==
    LET h[j \in 0 .. Threshold] ==
            IF j = Threshold THEN 0 ELSE Plus(Times(h[j + 1], x), f[j])
    IN  h[0]

KeygenBegin(i, f) ==
    /\ poly[i] = NoPoly
    /\ poly' = [poly EXCEPT ![i] = f]
    /\ share' = [share EXCEPT ![i] = [j \in Participants |-> PolyEval(f, j)]]
    /\ UNCHANGED <<pkg, nonce, commit, sessions, partials, sigs, made, faults>>

\* The share of i for j arrives wrong.
Misdeal(i, j, err) ==
    /\ faults < MaxFaults
    /\ poly[i] # NoPoly /\ pkg[j] = NoPkg
    /\ share' = [share EXCEPT ![i][j] = Plus(@, err)]
    /\ faults' = faults + 1
    /\ UNCHANGED <<poly, pkg, nonce, commit, sessions, partials, sigs, made>>

\* Mutant: shares are taken as they come.
ShareTrusted(i, j) == poly[i] # NoPoly

\* x_pow, as it is carried from one coefficient to the next.
Powers(x) == LET p[k \in Degrees] == IF k = 0 THEN 1 ELSE Times(p[k - 1], x) IN p

\* share * G is the sum of the commitments with the powers of j.
ShareFits(i, j) == share[i][j] = SumOf([k \in Degrees |-> Times(poly[i][k], Powers(j)[k])])

\* Mutant: shares that cancel are accepted.
GroupKeyUnchecked(key) == key = key

GroupKeyValid(key) == key # 0

KeygenFinalize(j) ==
    LET secret == SumOf([i \in Participants |-> share[i][j]])
        key == SumOf([i \in Participants |-> poly[i][0]])
    IN  /\ pkg[j] = NoPkg
        /\ \A i \in Participants : poly[i] # NoPoly
        /\ \A i \in Participants : ShareFits(i, j)
        /\ GroupKeyValid(key)
        /\ pkg' = [pkg EXCEPT ![j] = [share |-> secret, vshare |-> secret, key |-> key]]
        /\ UNCHANGED <<poly, share, nonce, commit, sessions, partials, sigs, made, faults>>
-----------------------------------------------------------------------------
(* Signing.                                                                 *)

\* frost_sign_nonce_gen; a nonce that was not used is overwritten.
NonceGen(i, k) ==
    LET new == [h |-> k.h, b |-> k.b, number |-> made + 1] IN
    /\ made < MaxNonces
    /\ pkg[i] # NoPkg
    /\ nonce' = [nonce EXCEPT ![i] = new]
    /\ commit' = [commit EXCEPT ![i] = new]
    /\ made' = made + 1
    /\ UNCHANGED <<keys, sessions, partials, sigs, faults>>

\* The coordinator's list and message, and with them the binding factors and
\* the challenge, are the same for all who take part.
OpenSession(ids, rho, e) ==
    /\ Len(sessions) < MaxSessions
    /\ \A n \in DOMAIN ids : commit[ids[n]] # Erased
    /\ sessions' = Append(sessions,
           [ids |-> ids, commits |-> [n \in DOMAIN ids |-> commit[ids[n]]], rho |-> rho, e |-> e])
    /\ UNCHANGED <<keys, nonce, commit, partials, sigs, made, faults>>

\* valid_unique_nonce_commitment_ids.
Unique(ids) == ids # <<>> /\ \A m, n \in DOMAIN ids : ids[m] = ids[n] => m = n

\* compute_group_commitment_inline_binding.
GroupCommitment(s) ==
    SumOf([n \in DOMAIN s.ids |-> Plus(s.commits[n].h, Times(s.rho[s.ids[n]], s.commits[n].b))])

\* The product of x_j / (x_j - x_i) over the others in S.
Lagrange(i, S) ==
    Times(ProductOf([j \in S \ {i} |-> j]),
          Reciprocal(ProductOf([j \in S \ {i} |-> Plus(j, Neg(i))])))

\* The hiding and the binding nonce k, turned with R.
NonceTerm(s, i, k) ==
    SignedBy(OddY(GroupCommitment(s)), Plus(k.h, Times(s.rho[i], k.b)))

\* lambda_i * e times a signing or a verification share, turned with the key.
ShareTerm(s, i, x, key) == Times(Times(Lagrange(i, Range(s.ids)), SignedBy(OddY(key), x)), s.e)

\* Mutant: the share is not turned with the key.
PartialUnturned(s, i, k, p) ==
    Plus(NonceTerm(s, i, k), Times(Times(Lagrange(i, Range(s.ids)), p.share), s.e))

Partial(s, i, k, p) == Plus(NonceTerm(s, i, k), ShareTerm(s, i, p.share, p.key))

\* Mutant: any number of signers may sign.
Crowd(ids) == Len(ids) <= N

Quorum(ids) == Len(ids) \in Threshold .. N

MaySign(i, s) ==
    /\ nonce[i] # Erased
    /\ Quorum(s.ids) /\ Unique(s.ids) /\ i \in Range(s.ids)
    /\ pkg[i].share # 0

\* Mutant: the caller's nonce is left in place.
SignKeepsNonce(i, k) ==
    LET s == sessions[k]
        z == Partial(s, i, nonce[i], pkg[i])
    IN  /\ pkg[i] # NoPkg
        /\ MaySign(i, s) /\ z # 0
        /\ partials' = partials \cup {[session |-> k, signer |-> i, z |-> z, used |-> nonce[i]]}
        /\ UNCHANGED <<keys, nonce, commit, sessions, sigs, made, faults>>

\* ufsecp_frost_sign: the nonce is gone whatever the outcome.
Sign(i, k) ==
    LET s == sessions[k]
        z == Partial(s, i, nonce[i], pkg[i])
    IN  /\ pkg[i] # NoPkg
        /\ nonce' = [nonce EXCEPT ![i] = Erased]
        /\ \/ /\ MaySign(i, s) /\ z # 0
              /\ partials' = partials \cup
                     {[session |-> k, signer |-> i, z |-> z, used |-> nonce[i]]}
           \/ ~(MaySign(i, s) /\ z # 0) /\ UNCHANGED partials
        /\ UNCHANGED <<keys, commit, sessions, sigs, made, faults>>

\* frost_verify_partial: z * G is what i's commitment and share make of it.
VerifyPartial(s, i, z) ==
    /\ Unique(s.ids)
    /\ \E n \in DOMAIN s.ids :
          /\ s.ids[n] = i
          /\ z = Plus(NonceTerm(s, i, s.commits[n]), ShareTerm(s, i, pkg[i].vshare, pkg[i].key))

\* ufsecp_frost_aggregate for one partial signature per listed signer, of
\* which the n-th may have changed on its way.
Aggregate(k, given, n, err) ==
    LET s == sessions[k]
        zs == [m \in DOMAIN s.ids |-> IF m = n THEN Plus(given[m].z, err) ELSE given[m].z]
        R == GroupCommitment(s)
    IN  /\ \A m \in DOMAIN s.ids : given[m].session = k /\ given[m].signer = s.ids[m]
        /\ \A g \in sigs : g.session # k
        /\ err # 0 => faults < MaxFaults
        /\ Unique(s.ids)
        /\ \A m \in DOMAIN s.ids : zs[m] # 0
        /\ R # 0 /\ SumOf(zs) # 0
        /\ sigs' = sigs \cup {[session |-> k, R |-> SignedBy(OddY(R), R), s |-> SumOf(zs), zs |-> zs]}
        /\ faults' = IF err = 0 THEN faults ELSE faults + 1
        /\ UNCHANGED <<keys, nonce, commit, sessions, partials, made>>

Next ==
    \/ \E i \in Participants :
          \/ \E f \in Polys : KeygenBegin(i, f)
          \/ \E j \in Participants, err \in 1 .. (q - 1) : Misdeal(i, j, err)
          \/ KeygenFinalize(i)
          \/ \E k \in Nonces : NonceGen(i, k)
          \/ \E k \in DOMAIN sessions : Sign(i, k)
    \/ \E ids \in Lists, rho \in Bindings, e \in Challenges : OpenSession(ids, rho, e)
    \/ \E k \in DOMAIN sessions :
          \E given \in [DOMAIN sessions[k].ids -> partials], n \in DOMAIN sessions[k].ids,
             err \in Scalars :
                Aggregate(k, given, n, err)

Spec == Init /\ [][Next]_vars
-----------------------------------------------------------------------------
\* The types; nobody has a package for the key at infinity, and no partial
\* signature is zero.
TypeOK ==
    /\ poly \in [Participants -> Polys \cup {NoPoly}]
    /\ share \in [Participants -> [Participants -> Scalars]]
    /\ pkg \in [Participants ->
                   [share : Scalars, vshare : Scalars, key : 1 .. (q - 1)] \cup {NoPkg}]
    /\ \A i \in Participants : nonce[i] \in {Erased, commit[i]}
    /\ \A p \in partials : p.signer \in Participants /\ p.z \in 1 .. (q - 1)
    /\ \A g \in sigs : EvenY(g.R) /\ g.s \in 1 .. (q - 1)

\* "t-of-n DKG produces consistent group public key" and "SUM lambda_i * s_i
\* == s" (INVARIANTS.md, FR1, FR2, FR6): any quorum of those who finished the
\* key generation holds the secret of the key that each of them has, whatever
\* was dealt to whom (FR7).
SharesReconstruct ==
    \A S \in SUBSET {j \in Participants : pkg[j] # NoPkg} :
        Cardinality(S) >= Threshold =>
            \A j \in S :
                SumOf([i \in S |-> Times(Lagrange(i, S), pkg[i].share)]) = pkg[j].key

\* A partial signature passes frost_verify_partial just if it was made with
\* the nonce that the list commits to: one made with a later nonce of the same
\* signer, which frost_sign does not notice, is found out.
PartialsVerify ==
    \A p \in partials :
        LET s == sessions[p.session] IN
        VerifyPartial(s, p.signer, p.z) <=>
            \E n \in DOMAIN s.ids :
                /\ s.ids[n] = p.signer
                /\ NonceTerm(s, p.signer, s.commits[n]) = NonceTerm(s, p.signer, p.used)

\* "Aggregated signature verifies as BIP-340 Schnorr" (FR3, FR4) when every
\* partial signature in it verifies, for whatever quorum and overlap of
\* sessions; so no list below the threshold yields one (FR9), and one that
\* does not verify has a partial signature to blame (FR8).
AggregateVerifies ==
    \A g \in sigs :
        LET s == sessions[g.session]
            key == pkg[s.ids[1]].key
        IN  (\A n \in DOMAIN s.ids : VerifyPartial(s, s.ids[n], g.zs[n])) =>
                g.s = Plus(g.R, Times(s.e, SignedBy(OddY(key), key)))

\* A nonce makes one partial signature at most, whatever sessions the signer
\* is asked into, twice or at the same time.
NonceUsedOnce ==
    \A a, b \in partials :
        a.signer = b.signer /\ a.used.number = b.used.number => a = b
===============================================================================
