------------------------------- MODULE Bip324 --------------------------------
(***************************************************************************)
(* The encrypted transport of BIP-324 (src/cpu/src/bip324.cpp) as the C    *)
(* interface offers it (impl/ufsecp_coins.cpp): sessions exchange 64-byte  *)
(* encodings, derive one key per direction, and number their packets.      *)
(*                                                                         *)
(* The network between the sessions is `wire', the set of all packets ever *)
(* sealed.  A packet of it may be given to any session, any number of      *)
(* times, in any order or never: loss, duplication, reordering and         *)
(* reflection are all in that choice.  Damaged bytes are the packet        *)
(* Damaged, and a damaged handshake is an encoding of Foreign.             *)
(*                                                                         *)
(* The cryptography is symbolic.  An encoding stands for the session that  *)
(* created it, the shared secret is a function of the ordered pair of      *)
(* encodings (the hash of both and of the common x), HKDF labels a secret  *)
(* and the AEAD opens a packet with the very key and nonce that sealed it. *)
(* Private keys are fresh: two sessions built from one and the same given  *)
(* key, which bip324.hpp keeps for tests, are not modelled.                *)
(*                                                                         *)
(* A call the code refuses without touching the session (a call on a       *)
(* session that is not established, a second handshake, a payload longer   *)
(* than 2^24 - 1, an output buffer shorter than plaintext_len + 19) is a   *)
(* stuttering step and no action.                                          *)
(***************************************************************************)
EXTENDS Naturals, Sequences

CONSTANTS
    Sessions,    \* session objects; each is also the encoding it creates
    Foreign,     \* encodings no session owns, as a damaged handshake has
    Blank,       \* the zeroed our_encoding_ of a session with a refused key
    Degenerate,  \* foreign encodings whose shared secret is all zeros
    Payload,     \* messages of at most 2^24 - 1 bytes
    Empty,       \* the message of no bytes
    Nobody,      \* for the abstract channel: no session
    MaxPackets   \* bound on the packets of one session, below 2^64

ASSUME BlankAssumption == Blank \in Foreign
ASSUME ForeignAssumption == Foreign \cap Sessions = {}
ASSUME DegenerateAssumption == Degenerate \subseteq Foreign
ASSUME EmptyAssumption == Empty \in Payload
ASSUME NobodyAssumption == Nobody \notin Sessions
ASSUME MaxPacketsAssumption == MaxPackets \in Nat

VARIABLES
    object,         \* of the session object: "none", "live" or "freed"
    our_encoding,   \* our_encoding_
    initiator,      \* initiator_
    privkey_valid,  \* privkey_valid_: the ephemeral key is still there
    established,    \* established_
    session_id,     \* session_id_: stands for the shared secret it is from
    send_cipher,    \* send_cipher_: key_ and packet_counter_
    recv_cipher,    \* recv_cipher_
    wire,           \* the packets sealed so far
    sealed,         \* sealed[s]: history of what session s encrypted
    opened          \* opened[s]: history of what session s authenticated

objects == <<object, our_encoding, initiator, privkey_valid, established, session_id>>
histories == <<sealed, opened>>
vars == <<objects, send_cipher, recv_cipher, wire, histories>>

(***************************************************************************)
(* Secrets, keys and packets.                                              *)
(***************************************************************************)
Encoding == Sessions \cup Foreign
Secret(ell_a, ell_b) == <<ell_a, ell_b>>
NoSecret == Secret(Blank, Blank)

Expand(secret, info) == [secret |-> secret, info |-> info]
ZeroKey == Expand(NoSecret, "zeros")
Key == [secret : Encoding \X Encoding, info : {"initiator_L", "responder_L", "zeros"}]

Cipher(key) == [key |-> key, packet_counter |-> 0]

\* Mutant: the responder seals with the initiator's key as well.
SendInfoShared(init) == "initiator_L"
SendInfo(init) == IF init THEN "initiator_L" ELSE "responder_L"
RecvInfo(init) == IF init THEN "responder_L" ELSE "initiator_L"

\* The secret of a session: the initiator's encoding comes first.
Agreed(own, init, peer) ==
    IF init THEN Secret(own, peer) ELSE Secret(peer, own)

Packet == [key : Key, nonce : Nat, payload : Payload]
Damaged == [key |-> ZeroKey, nonce |-> 0, payload |-> Empty]

Seal(cipher, m) ==
    [key |-> cipher.key, nonce |-> cipher.packet_counter, payload |-> m]

\* Mutant: the key alone decides, as if the nonce were sent along.
OpensAnyNonce(cipher, p) == p.key = cipher.key
Opens(cipher, p) == p.key = cipher.key /\ p.nonce = cipher.packet_counter

\* Mutant: the packet counter is not advanced.
CounterKept(cipher) == cipher
Advance(cipher) == [cipher EXCEPT !.packet_counter = @ + 1]

\* A packet that fails authentication leaves the counter where it is.
\* Mutant: it advances the counter.
RejectedCounts(cipher) == Advance(cipher)
Rejected(cipher) == cipher

(***************************************************************************)
(* The sessions.                                                           *)
(***************************************************************************)
Init ==
    /\ object = [s \in Sessions |-> "none"]
    /\ our_encoding = [s \in Sessions |-> Blank]
    /\ initiator = [s \in Sessions |-> FALSE]
    /\ privkey_valid = [s \in Sessions |-> FALSE]
    /\ established = [s \in Sessions |-> FALSE]
    /\ session_id = [s \in Sessions |-> NoSecret]
    /\ send_cipher = [s \in Sessions |-> Cipher(ZeroKey)]
    /\ recv_cipher = [s \in Sessions |-> Cipher(ZeroKey)]
    /\ wire = {}
    /\ sealed = [s \in Sessions |-> << >>]
    /\ opened = [s \in Sessions |-> << >>]

\* Both constructors: a random key is always valid, a given one (valid =
\* FALSE) may be refused, which leaves a session that can never be used.
Create(s, init, valid) ==
    /\ object[s] = "none"
    /\ object' = [object EXCEPT ![s] = "live"]
    /\ our_encoding' = [our_encoding EXCEPT ![s] = IF valid THEN s ELSE Blank]
    /\ initiator' = [initiator EXCEPT ![s] = init]
    /\ privkey_valid' = [privkey_valid EXCEPT ![s] = valid]
    /\ UNCHANGED <<established, session_id, send_cipher, recv_cipher, wire, histories>>

\* The encodings that can reach a session: those that sessions announced,
\* its own included, and anything else.
Arriving == {our_encoding[t] : t \in Sessions} \cup Foreign

\* complete_handshake: the private key is gone whether or not it succeeds.
Handshake(s, peer) ==
    /\ object[s] = "live" /\ ~established[s] /\ privkey_valid[s]
    /\ privkey_valid' = [privkey_valid EXCEPT ![s] = FALSE]
    /\ UNCHANGED <<object, our_encoding, initiator, wire, histories>>
    /\ \/ /\ peer \in Degenerate
          /\ UNCHANGED <<established, session_id, send_cipher, recv_cipher>>
       \/ /\ peer \notin Degenerate
          /\ LET secret == Agreed(our_encoding[s], initiator[s], peer) IN
             /\ session_id' = [session_id EXCEPT ![s] = secret]
             /\ send_cipher' = [send_cipher EXCEPT ![s] =
                                  Cipher(Expand(secret, SendInfo(initiator[s])))]
             /\ recv_cipher' = [recv_cipher EXCEPT ![s] =
                                  Cipher(Expand(secret, RecvInfo(initiator[s])))]
          /\ established' = [established EXCEPT ![s] = TRUE]

\* ufsecp_bip324_encrypt with a large enough buffer.
Encrypt(s, m) ==
    /\ object[s] = "live" /\ established[s]
    /\ Len(sealed[s]) < MaxPackets
    /\ wire' = wire \cup {Seal(send_cipher[s], m)}
    /\ sealed' = [sealed EXCEPT ![s] = Append(@, m)]
    /\ send_cipher' = [send_cipher EXCEPT ![s] = Advance(@)]
    /\ UNCHANGED <<objects, recv_cipher, opened>>

\* ufsecp_bip324_decrypt of a packet that opens.  The session has moved to
\* the next packet before the size of the caller's buffer is looked at: for
\* the session a caller that is refused for a short buffer has had it.  (The
\* framing check after the AEAD cannot fail on a packet that Encrypt sealed.)
Open(s, p) ==
    /\ object[s] = "live" /\ established[s]
    /\ Opens(recv_cipher[s], p)
    /\ recv_cipher' = [recv_cipher EXCEPT ![s] = Advance(@)]
    /\ opened' = [opened EXCEPT ![s] = Append(@, p.payload)]
    /\ UNCHANGED <<objects, send_cipher, wire, sealed>>

\* ufsecp_bip324_decrypt of anything else: refused.
Reject(s, p) ==
    /\ object[s] = "live" /\ established[s]
    /\ ~Opens(recv_cipher[s], p)
    /\ recv_cipher' = [recv_cipher EXCEPT ![s] = Rejected(@)]
    /\ UNCHANGED <<objects, send_cipher, wire, histories>>

\* ufsecp_bip324_destroy.  The object is gone: what it held is not read again.
Destroy(s) ==
    /\ object[s] = "live"
    /\ object' = [object EXCEPT ![s] = "freed"]
    /\ UNCHANGED <<our_encoding, initiator, privkey_valid, established, session_id>>
    /\ UNCHANGED <<send_cipher, recv_cipher, wire, histories>>

Next ==
    \/ \E s \in Sessions, init \in BOOLEAN, valid \in BOOLEAN : Create(s, init, valid)
    \/ \E s \in Sessions, peer \in Arriving : Handshake(s, peer)
    \/ \E s \in Sessions, m \in Payload : Encrypt(s, m)
    \/ \E s \in Sessions, p \in wire : Open(s, p)
    \/ \E s \in Sessions, p \in wire \cup {Damaged} : Reject(s, p)
    \/ \E s \in Sessions : Destroy(s)

Spec == Init /\ [][Next]_vars

(***************************************************************************)
(* Fairness for liveness: the byte stream under the transport delivers     *)
(* every packet in the end (TCP retransmits it), and the application goes  *)
(* on reading.  Nothing is assumed of the application's other calls.       *)
(***************************************************************************)
Receive(s) == \E p \in wire : Open(s, p)
FairSpec == Spec /\ \A s \in Sessions : WF_vars(Receive(s))

(***************************************************************************)
(* Properties.                                                             *)
(***************************************************************************)

\* Every field has its type, and the counters of a session count what it has
\* sealed and opened (Bip324Cipher::encrypt and ::decrypt).
TypeOK ==
    /\ object \in [Sessions -> {"none", "live", "freed"}]
    /\ our_encoding \in [Sessions -> Encoding]
    /\ initiator \in [Sessions -> BOOLEAN]
    /\ privkey_valid \in [Sessions -> BOOLEAN]
    /\ established \in [Sessions -> BOOLEAN]
    /\ session_id \in [Sessions -> Encoding \X Encoding]
    /\ send_cipher \in [Sessions -> [key : Key, packet_counter : Nat]]
    /\ recv_cipher \in [Sessions -> [key : Key, packet_counter : Nat]]
    /\ wire \subseteq Packet
    /\ sealed \in [Sessions -> Seq(Payload)]
    /\ opened \in [Sessions -> Seq(Payload)]
    /\ \A s \in Sessions : send_cipher[s].packet_counter = Len(sealed[s])
    /\ \A s \in Sessions : recv_cipher[s].packet_counter = Len(opened[s])

\* No key and nonce ever seal two different packets, over all sessions, roles
\* and handshakes: the requirement of the stream cipher under the AEAD.
NonceOnce ==
    \A p, q \in wire : p.key = q.key /\ p.nonce = q.nonce => p = q

\* Two sessions with the same session id are the two ends of one connection:
\* there is no third, their roles differ and their keys are crossed
\* (complete_handshake).
SameIdMirrored ==
    \A s, t \in Sessions :
        /\ s # t /\ established[s] /\ established[t]
        /\ session_id[s] = session_id[t]
        => /\ initiator[s] # initiator[t]
           /\ send_cipher[s].key = recv_cipher[t].key
           /\ recv_cipher[s].key = send_cipher[t].key
           /\ \A u \in Sessions \ {s, t} :
                ~(established[u] /\ session_id[u] = session_id[s])

\* What a session authenticates is a beginning of what one other session,
\* of the same id, encrypted; with no such session it authenticates nothing.
\* In particular nothing is accepted twice, after a gap, from the session
\* itself or from an earlier connection.
OpenedIsPrefix ==
    \A t \in Sessions : opened[t] # << >> =>
        \E s \in Sessions \ {t} :
            /\ established[s] /\ session_id[s] = session_id[t]
            /\ Len(opened[t]) <= Len(sealed[s])
            /\ \A i \in 1 .. Len(opened[t]) : opened[t][i] = sealed[s][i]

\* Refused packets never wedge a direction: whatever damaged, repeated or
\* reflected packets come first, each packet the one end encrypts is opened
\* by the other end in the end, unless that end is destroyed.
EventuallyOpened ==
    \A s, t \in Sessions : \A n \in 1 .. MaxPackets :
        ( /\ s # t /\ established[s] /\ established[t]
          /\ session_id[s] = session_id[t]
          /\ Len(sealed[s]) >= n )
        ~> (Len(opened[t]) >= n \/ object[t] = "freed")

\* The sessions implement the abstract channel.
Sender(key) == IF key.info = "initiator_L" THEN key.secret[1] ELSE key.secret[2]
Channel == INSTANCE SecureChannel WITH
    Ends <- Sessions,
    said <- sealed,
    heard <- opened,
    partner <- [t \in Sessions |-> IF opened[t] = << >> THEN Nobody
                                   ELSE Sender(recv_cipher[t].key)]
ImplementsChannel == Channel!Spec
=============================================================================
