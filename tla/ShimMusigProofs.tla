--------------------------- MODULE ShimMusigProofs ---------------------------
(***************************************************************************)
(* Proofs about ShimMusig, for any signers, structs, threads and bounds.   *)
(*                                                                         *)
(* None of the properties is inductive.  What makes them so is that a      *)
(* token, as long as it comes from the counter, is the number of the       *)
(* aggregation it was handed out for (Tied), that an aggregation whose     *)
(* context is gone was cleared or completed (Accounted), and that contexts,*)
(* sessions, partial signatures and calls in progress of an undisturbed    *)
(* aggregation agree on its keys and its tweaks (the Match parts).         *)
(***************************************************************************)
EXTENDS ShimMusig, FiniteSetTheorems, TLAPS

\* Tokens name aggregations.
Tied ==
    /\ aggs = counter - 1
    /\ owner = cache
    /\ \A s \in Sessions : session[s] # NoSession => session[s].chal.agg = session[s].tok
    /\ \A t \in Threads : call[t] # NoCall =>
          call[t].tok \in 1 .. aggs /\ call[t].chal.agg = call[t].tok

Accounted == \A a \in 1 .. aggs : a \in DOMAIN ka \/ a \in disturbed \/ a \in finished

SessionsMatch ==
    \A s \in Sessions :
        session[s] # NoSession /\ session[s].tok \in DOMAIN ka /\ session[s].tok \notin disturbed =>
            /\ ka[session[s].tok].keys = session[s].chal.keys
            /\ ka[session[s].tok].tweaks = session[s].chal.tweaks

SigsMatch ==
    \A sig \in psigs : sig.agg = sig.chal.agg /\ sig.agg \notin disturbed =>
        sig.entry.keys = sig.chal.keys /\ sig.entry.tweaks = sig.chal.tweaks

CallsMatch ==
    \A t \in Threads : call[t] # NoCall /\ ~call[t].late /\ call[t].chal.agg \notin disturbed =>
        call[t].tweaks = call[t].chal.tweaks

Capped == IsFiniteSet(DOMAIN ka) /\ RegistryBounded

NoncesSpent == \A sig \in psigs : secnonce[sig.by][sig.round] = "zero"

IInv == /\ TypeOK /\ Tied /\ Accounted /\ SessionsMatch /\ SigsMatch /\ CallsMatch
        /\ Capped /\ NoncesSpent /\ NonceOnce

-----------------------------------------------------------------------------
(* One lemma per action. *)

LEMMA InitEstablishes == Init => IInv
<1> SUFFICES ASSUME Init PROVE IInv
  OBVIOUS
<1> USE DEF Init
<1>1. DOMAIN ka = {}
  OBVIOUS
<1>2. TypeOK
  BY <1>1, BoundsAssumption DEF TypeOK, Entries, Tokens
<1>3. Tied /\ Accounted /\ SessionsMatch /\ CallsMatch
  BY <1>1 DEF Tied, Accounted, SessionsMatch, CallsMatch
<1>4. SigsMatch /\ NoncesSpent /\ NonceOnce
  BY DEF SigsMatch, NoncesSpent, NonceOnce
<1>5. Capped
  BY <1>1, FS_EmptySet, BoundsAssumption DEF Capped, RegistryBounded
<1> QED
  BY <1>2, <1>3, <1>4, <1>5 DEF IInv

LEMMA PubkeyAggStep ==
  ASSUME IInv, NEW c \in Caches, NEW keys \in KeyLists, PubkeyAgg(c, keys)
  PROVE  IInv'
<1> USE DEF IInv
<1>1. counter \in 1 .. (MaxToken - 1) /\ counter' = counter + 1 /\ aggs' = counter
  BY BoundsAssumption DEF PubkeyAgg, TypeOK, Tied
<1>2. counter \notin DOMAIN ka
  BY <1>1, BoundsAssumption DEF TypeOK
<1>3. /\ DOMAIN ka' = DOMAIN ka \cup {counter}
      /\ ka'[counter] = [keys |-> keys, tweaks |-> 0]
      /\ \A t \in DOMAIN ka : ka'[t] = ka[t]
  BY <1>2 DEF PubkeyAgg, FreshToken, Put
<1>4. TypeOK'
  <2>1. [keys |-> keys, tweaks |-> 0] \in Entries
    BY KeysAssumption, BoundsAssumption DEF Entries
  <2>2. ka' \in [DOMAIN ka' -> Entries]
    BY <2>1, <1>2 DEF PubkeyAgg, FreshToken, Put, TypeOK
  <2> QED
    BY <1>1, <1>3, <2>2, BoundsAssumption DEF PubkeyAgg, FreshToken, TypeOK, Tied, Tokens
<1>5. Tied'
  <2>1. aggs' = aggs + 1 /\ aggs + 1 = counter /\ aggs \in Nat /\ aggs' = counter' - 1
    BY <1>1, BoundsAssumption DEF Tied
  <2>2. owner' = cache'
    BY <2>1 DEF PubkeyAgg, FreshToken, Tied
  <2>3. \A t \in Threads : call'[t] # NoCall =>
            call'[t].tok \in 1 .. aggs' /\ call'[t].chal.agg = call'[t].tok
    BY <2>1 DEF PubkeyAgg, Tied
  <2>4. \A s \in Sessions : session'[s] # NoSession => session'[s].chal.agg = session'[s].tok
    BY DEF PubkeyAgg, Tied
  <2> QED
    BY <2>1, <2>2, <2>3, <2>4 DEF Tied, NoCall, NoSession
<1>6. Accounted'
  BY <1>1, <1>3, BoundsAssumption DEF PubkeyAgg, Accounted, Tied
<1>7. SessionsMatch'
  BY <1>1, <1>2, <1>3, BoundsAssumption DEF PubkeyAgg, SessionsMatch, TypeOK
<1>8. SigsMatch' /\ CallsMatch' /\ NoncesSpent' /\ NonceOnce'
  BY DEF PubkeyAgg, SigsMatch, CallsMatch, NoncesSpent, NonceOnce
<1>9. Capped'
  <2>1. /\ IsFiniteSet(DOMAIN ka \cup {counter})
        /\ Cardinality(DOMAIN ka \cup {counter}) = Cardinality(DOMAIN ka) + 1
    BY <1>2, FS_AddElement DEF Capped
  <2>2. Cardinality(DOMAIN ka) \in Nat /\ Cardinality(DOMAIN ka) < MaxKa
    BY FS_CardinalityType DEF PubkeyAgg, HasRoom, Capped
  <2>3. Cardinality(DOMAIN ka') = Cardinality(DOMAIN ka) + 1
    BY <1>3, <2>1
  <2>4. IsFiniteSet(DOMAIN ka')
    BY <1>3, <2>1
  <2> QED
    BY <2>2, <2>3, <2>4, BoundsAssumption DEF Capped, RegistryBounded
<1> QED
  BY <1>4, <1>5, <1>6, <1>7, <1>8, <1>9

LEMMA TweakAddStep ==
  ASSUME IInv, NEW c \in Caches, TweakAdd(c)
  PROVE  IInv'
<1> USE DEF IInv
<1> DEFINE tok == cache[c]
<1>1. /\ tok \in DOMAIN ka /\ DOMAIN ka' = DOMAIN ka
      /\ tok \in 1 .. aggs /\ owner[c] = tok
  BY DEF TweakAdd, TypeOK, Tied
<1>2. ka[tok] \in Entries /\ ka[tok].tweaks < MaxTweaks
  BY <1>1 DEF TweakAdd, TypeOK
<1>3. /\ ka'[tok] \in Entries
      /\ \A t \in DOMAIN ka \ {tok} : ka'[t] = ka[t]
  BY <1>1, <1>2, BoundsAssumption DEF TweakAdd, TypeOK, Entries
<1>4. ka' \in [DOMAIN ka' -> Entries]
  BY <1>1, <1>2, <1>3, BoundsAssumption DEF TweakAdd, TypeOK, Entries
<1>5. TypeOK'
  BY <1>1, <1>4 DEF TweakAdd, TypeOK
<1>6. Tied' /\ Accounted'
  BY <1>1 DEF TweakAdd, Tied, Accounted
<1>7. SessionsMatch'
  <2> SUFFICES ASSUME NEW s \in Sessions, session[s] # NoSession,
                      session[s].tok \in DOMAIN ka, session[s].tok \notin disturbed'
               PROVE  session[s].tok # tok
    BY <1>1, <1>3 DEF TweakAdd, SessionsMatch
  <2>1. session[s].tok = tok => Started(owner[c])
    BY <1>1 DEF Started, Tied
  <2> QED
    BY <1>1, <2>1 DEF TweakAdd
<1>8. SigsMatch' /\ CallsMatch'
  BY DEF TweakAdd, SigsMatch, CallsMatch
<1>9. Capped' /\ NoncesSpent' /\ NonceOnce'
  BY <1>1 DEF TweakAdd, Capped, RegistryBounded, NoncesSpent, NonceOnce
<1> QED
  BY <1>5, <1>6, <1>7, <1>8, <1>9

LEMMA NonceGenStep ==
  ASSUME IInv, NEW p \in Signers, NEW r \in Rounds, NonceGen(p, r)
  PROVE  IInv'
<1> USE DEF IInv
<1>1. TypeOK'
  BY DEF NonceGen, TypeOK
<1>2. Tied' /\ Accounted' /\ SessionsMatch' /\ SigsMatch' /\ CallsMatch' /\ Capped' /\ NonceOnce'
  BY DEF NonceGen, Tied, Accounted, SessionsMatch, SigsMatch, CallsMatch, Capped,
         RegistryBounded, NonceOnce
<1>3. NoncesSpent'
  BY DEF NonceGen, NoncesSpent, TypeOK
<1> QED
  BY <1>1, <1>2, <1>3

LEMMA NonceProcessStep ==
  ASSUME IInv, NEW s \in Sessions, NEW c \in Caches, NEW r \in Rounds, NonceProcess(s, c, r)
  PROVE  IInv'
<1> USE DEF IInv
<1> DEFINE tok == cache[c]
           chal == [agg |-> owner[c], keys |-> ka[tok].keys, tweaks |-> ka[tok].tweaks, round |-> r]
<1>1. tok \in DOMAIN ka /\ tok \in 1 .. (counter - 1) /\ owner[c] = tok /\ ka[tok] \in Entries
  BY DEF NonceProcess, TypeOK, Tied
<1>2. chal \in Challenges
  BY <1>1, BoundsAssumption DEF Challenges, Entries, Tokens, TypeOK
<1>3. \A x \in Sessions : session'[x] = session[x] \/ session'[x] = [tok |-> tok, chal |-> chal]
  BY DEF NonceProcess
<1>4. TypeOK'
  BY <1>1, <1>2, <1>3 DEF NonceProcess, TypeOK
<1>5. Tied'
  BY <1>1, <1>3 DEF NonceProcess, Tied
<1>6. SessionsMatch'
  BY <1>1, <1>3 DEF NonceProcess, SessionsMatch
<1>7. Accounted' /\ SigsMatch' /\ CallsMatch' /\ Capped' /\ NoncesSpent' /\ NonceOnce'
  BY DEF NonceProcess, Accounted, SigsMatch, CallsMatch, Capped, RegistryBounded,
         NoncesSpent, NonceOnce
<1> QED
  BY <1>4, <1>5, <1>6, <1>7

LEMMA PartialSignStep ==
  ASSUME IInv, NEW p \in Signers, NEW r \in Rounds, NEW c \in Caches, NEW s \in Sessions,
         PartialSign(p, r, c, s)
  PROVE  IInv'
<1> USE DEF IInv
<1> DEFINE new == [by |-> p, round |-> r, entry |-> ka[cache[c]], chal |-> session[s].chal,
                   agg |-> owner[c], fresh |-> secnonce[p][r] = "live"]
<1>1. /\ cache[c] \in DOMAIN ka /\ session[s] # NoSession
      /\ secnonce[p][r] = "live" /\ owner[c] = cache[c]
  BY DEF PartialSign, Usable, Tied
<1>2. \A sig \in psigs' : sig \in psigs \/ sig = new
  BY DEF PartialSign
<1>3. psigs \subseteq psigs'
  BY DEF PartialSign
<1>4. TypeOK'
  BY <1>2 DEF PartialSign, TypeOK
<1>5. Tied' /\ Accounted' /\ SessionsMatch' /\ CallsMatch' /\ Capped'
  BY DEF PartialSign, Tied, Accounted, SessionsMatch, CallsMatch, Capped, RegistryBounded
<1>6. SigsMatch'
  <2>1. new.agg = new.chal.agg /\ new.agg \notin disturbed =>
            new.entry.keys = new.chal.keys /\ new.entry.tweaks = new.chal.tweaks
    BY <1>1 DEF SessionsMatch, Tied
  <2> QED
    BY <1>2, <2>1 DEF PartialSign, SigsMatch
<1>7. NoncesSpent'
  BY <1>2 DEF PartialSign, NoncesSpent, TypeOK
<1>8. NonceOnce'
  <2>1. \A sig \in psigs : ~(sig.by = p /\ sig.round = r)
    BY <1>1 DEF NoncesSpent
  <2>2. new.fresh
    BY <1>1, Zenon
  <2>3. \A sig \in psigs' : sig.fresh
    BY <1>2, <2>2, Zenon DEF NonceOnce
  <2>4. new.by = p /\ new.round = r
    OBVIOUS
  <2>5. ASSUME NEW x \in psigs', NEW y \in psigs', x.by = y.by, x.round = y.round
        PROVE  x = y
    <3> HIDE DEF new
    <3> QED
      BY <1>2, <2>1, <2>4, <2>5 DEF NonceOnce
  <2> QED
    BY <2>3, <2>5 DEF NonceOnce
<1> QED
  BY <1>4, <1>5, <1>6, <1>7, <1>8

LEMMA AggLookupStep ==
  ASSUME IInv, NEW t \in Threads, NEW s \in Sessions, AggLookup(t, s)
  PROVE  IInv'
<1> USE DEF IInv
<1> DEFINE tok == session[s].tok
           new == [tok |-> tok, chal |-> session[s].chal,
                   late |-> session[s].chal.agg \in finished,
                   tweaks |-> IF tok \in DOMAIN ka THEN ka[tok].tweaks ELSE 0]
<1>1. /\ session[s] # NoSession /\ tok \in 1 .. aggs /\ session[s].chal.agg = tok
      /\ ka' = ka
  BY DEF AggLookup, AfterLookup, TypeOK, Tied
<1>2. \A x \in Threads : call'[x] = call[x] \/ call'[x] = new
  BY DEF AggLookup
<1>3. TypeOK' /\ Accounted' /\ SessionsMatch' /\ SigsMatch' /\ Capped' /\ NoncesSpent' /\ NonceOnce'
  BY <1>1 DEF AggLookup, TypeOK, Accounted, SessionsMatch, SigsMatch, Capped,
              RegistryBounded, NoncesSpent, NonceOnce
<1>4. Tied'
  BY <1>1, <1>2 DEF AggLookup, Tied
<1>5. CallsMatch'
  <2>1. ~new.late /\ new.chal.agg \notin disturbed => new.tweaks = new.chal.tweaks
    BY <1>1 DEF Accounted, SessionsMatch
  <2> QED
    BY <1>2, <2>1 DEF AggLookup, CallsMatch
<1> QED
  BY <1>3, <1>4, <1>5

\* Releasing a context keeps the registry typed and within its cap.
LEMMA EraseShrinks ==
  ASSUME NEW tok, ka' = Erase(tok), IInv
  PROVE  /\ DOMAIN ka' = DOMAIN ka \ {tok}
         /\ \A t \in DOMAIN ka' : ka'[t] = ka[t]
         /\ ka' \in [DOMAIN ka' -> Entries]
         /\ Capped'
<1>1. /\ DOMAIN ka' = DOMAIN ka \ {tok}
      /\ \A t \in DOMAIN ka' : ka'[t] = ka[t]
      /\ ka' \in [DOMAIN ka' -> Entries]
  BY DEF Erase, IInv, TypeOK
<1>2. IsFiniteSet(DOMAIN ka') /\ Cardinality(DOMAIN ka') <= Cardinality(DOMAIN ka)
  BY <1>1, FS_Subset DEF IInv, Capped
<1>3. Cardinality(DOMAIN ka) \in Nat /\ Cardinality(DOMAIN ka') \in Nat
  BY <1>2, FS_CardinalityType DEF IInv, Capped
<1> QED
  BY <1>1, <1>2, <1>3, BoundsAssumption DEF IInv, Capped, RegistryBounded

LEMMA AggReleaseStep ==
  ASSUME IInv, NEW t \in Threads, AggRelease(t)
  PROVE  IInv'
<1> USE DEF IInv
<1> DEFINE tok == call[t].tok
<1>1. call[t] # NoCall /\ tok \in 1 .. aggs /\ call[t].chal.agg = tok /\ finished' = finished \cup {tok}
  BY DEF AggRelease, Tied
<1>2. /\ DOMAIN ka' = DOMAIN ka \ {tok}
      /\ \A x \in DOMAIN ka' : ka'[x] = ka[x]
      /\ ka' \in [DOMAIN ka' -> Entries]
      /\ Capped'
  BY EraseShrinks DEF AggRelease
<1>3. \A x \in Threads : call'[x] = call[x] \/ call'[x] = NoCall
  BY DEF AggRelease
<1>4. TypeOK'
  BY <1>1, <1>2 DEF AggRelease, TypeOK
<1>5. Tied' /\ CallsMatch'
  BY <1>3 DEF AggRelease, Tied, CallsMatch
<1>6. Accounted' /\ SessionsMatch'
  BY <1>1, <1>2 DEF AggRelease, Accounted, SessionsMatch
<1>7. SigsMatch' /\ NoncesSpent' /\ NonceOnce'
  BY DEF AggRelease, SigsMatch, NoncesSpent, NonceOnce
<1> QED
  BY <1>2, <1>4, <1>5, <1>6, <1>7

LEMMA AggRefuseStep ==
  ASSUME IInv, NEW t \in Threads, AggRefuse(t)
  PROVE  IInv'
<1> USE DEF IInv
<1>1. \A x \in Threads : call'[x] = call[x] \/ call'[x] = NoCall
  BY DEF AggRefuse
<1>2. Tied' /\ CallsMatch'
  BY <1>1 DEF AggRefuse, Tied, CallsMatch
<1>3. TypeOK' /\ Accounted' /\ SessionsMatch' /\ SigsMatch' /\ Capped' /\ NoncesSpent' /\ NonceOnce'
  BY DEF AggRefuse, TypeOK, Accounted, SessionsMatch, SigsMatch, Capped, RegistryBounded,
         NoncesSpent, NonceOnce
<1> QED
  BY <1>2, <1>3

LEMMA CacheClearStep ==
  ASSUME IInv, NEW c \in Caches, CacheClear(c)
  PROVE  IInv'
<1> USE DEF IInv
<1> DEFINE tok == cache[c]
<1>1. tok \in 1 .. aggs /\ owner[c] = tok /\ disturbed' = disturbed \cup {tok}
  BY DEF CacheClear, TypeOK, Tied
<1>2. /\ DOMAIN ka' = DOMAIN ka \ {tok}
      /\ \A x \in DOMAIN ka' : ka'[x] = ka[x]
      /\ ka' \in [DOMAIN ka' -> Entries]
      /\ Capped'
  BY EraseShrinks DEF CacheClear
<1>3. TypeOK'
  BY <1>1, <1>2 DEF CacheClear, TypeOK
<1>4. Tied' /\ Accounted' /\ SessionsMatch'
  BY <1>1, <1>2 DEF CacheClear, Tied, Accounted, SessionsMatch
<1>5. SigsMatch' /\ CallsMatch' /\ NoncesSpent' /\ NonceOnce'
  BY <1>1 DEF CacheClear, SigsMatch, CallsMatch, NoncesSpent, NonceOnce
<1> QED
  BY <1>2, <1>3, <1>4, <1>5

LEMMA StepKeeps == IInv /\ [Next]_vars => IInv'
<1> SUFFICES ASSUME IInv, [Next]_vars PROVE IInv'
  OBVIOUS
<1>1. CASE UNCHANGED vars
  BY <1>1 DEF vars, IInv, TypeOK, Tied, Accounted, SessionsMatch, SigsMatch, CallsMatch,
              Capped, RegistryBounded, NoncesSpent, NonceOnce
<1>2. CASE Next
  BY <1>2, PubkeyAggStep, TweakAddStep, NonceGenStep, NonceProcessStep, PartialSignStep,
     AggLookupStep, AggReleaseStep, AggRefuseStep, CacheClearStep DEF Next
<1> QED
  BY <1>1, <1>2

LEMMA Inductive == Spec => []IInv
  BY InitEstablishes, StepKeeps, PTL DEF Spec
-----------------------------------------------------------------------------
(* The theorems. *)

\* Type correctness; every token in use came from the counter.
THEOREM TypeCorrect == Spec => []TypeOK
<1>1. IInv => TypeOK
  BY DEF IInv
<1> QED
  BY <1>1, Inductive, PTL

\* The registry never holds more than kMaxKaEntries contexts (line 163).
THEOREM RegistryCap == Spec => []RegistryBounded
<1>1. IInv => RegistryBounded
  BY DEF IInv, Capped
<1> QED
  BY <1>1, Inductive, PTL

\* A secret nonce is in at most one partial signature (line 686).
THEOREM SingleUse == Spec => []NonceOnce
<1>1. IInv => NonceOnce
  BY DEF IInv
<1> QED
  BY <1>1, Inductive, PTL

\* The first aggregation of an undisturbed session verifies (lines 77-78).
THEOREM Independence == Spec => []SessionsIndependent
<1>1. IInv => SessionsIndependent
  <2> SUFFICES ASSUME IInv, NEW t \in Threads, call[t] # NoCall, ~call[t].late,
                      call[t].chal.agg \notin disturbed,
                      NEW sigs \in SUBSET psigs, Complete(call[t], sigs)
               PROVE  Verifies(call[t], sigs)
    BY DEF SessionsIndependent
  <2>1. call[t].tweaks = call[t].chal.tweaks
    BY DEF IInv, CallsMatch
  <2>2. ASSUME NEW sig \in sigs
        PROVE  sig.entry.keys = call[t].chal.keys /\ sig.entry.tweaks = call[t].chal.tweaks
    BY DEF Complete, IInv, SigsMatch
  <2> QED
    BY <2>1, <2>2 DEF Verifies
<1> QED
  BY <1>1, Inductive, PTL

\* No token is handed out twice: a released context stays gone (SHIM-010).
THEOREM Released == Spec => NoRevival
<1>1. IInv /\ [Next]_vars =>
        [\A t \in 1 .. (counter - 1) : t \in DOMAIN ka' => t \in DOMAIN ka]_vars
  <2> SUFFICES ASSUME IInv, Next, NEW t \in 1 .. (counter - 1), t \in DOMAIN ka'
               PROVE  t \in DOMAIN ka
    OBVIOUS
  <2>1. ASSUME NEW c \in Caches, NEW keys \in KeyLists, PubkeyAgg(c, keys)
        PROVE  t \in DOMAIN ka
    BY <2>1 DEF PubkeyAgg, Put, FreshToken, IInv, TypeOK
  <2>2. ASSUME NEW c \in Caches, TweakAdd(c) \/ CacheClear(c)
        PROVE  t \in DOMAIN ka
    BY <2>2 DEF TweakAdd, CacheClear, Erase
  <2>3. ASSUME NEW p \in Signers, NEW r \in Rounds,
               NonceGen(p, r) \/ \E c \in Caches, s \in Sessions : PartialSign(p, r, c, s)
        PROVE  t \in DOMAIN ka
    BY <2>3 DEF NonceGen, PartialSign
  <2>4. ASSUME NEW s \in Sessions, NEW c \in Caches, NEW r \in Rounds, NonceProcess(s, c, r)
        PROVE  t \in DOMAIN ka
    BY <2>4 DEF NonceProcess
  <2>5. ASSUME NEW x \in Threads,
               AggRelease(x) \/ AggRefuse(x) \/ \E s \in Sessions : AggLookup(x, s)
        PROVE  t \in DOMAIN ka
    BY <2>5 DEF AggRelease, AggRefuse, AggLookup, AfterLookup, Erase
  <2> QED
    BY <2>1, <2>2, <2>3, <2>4, <2>5 DEF Next
<1> QED
  BY <1>1, Inductive, PTL DEF Spec, NoRevival
=============================================================================
