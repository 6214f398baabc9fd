---------------------------- MODULE Bip324Proofs -----------------------------
(***************************************************************************)
(* Proofs about Bip324, for any sessions, encodings, messages and bound.   *)
(*                                                                         *)
(* The argument: the secret of an established session holds the session's  *)
(* own encoding at the place its role gives it, so that a sending key      *)
(* names its owner (Derived); every packet of the wire is one its key's    *)
(* owner sealed, at the number it carries (WireSealed); hence a session    *)
(* that opens the packet it waits for extends a prefix (OpenedFrom).       *)
(***************************************************************************)
EXTENDS Bip324, TLAPS

\* A session that has or had its private key announces itself.
Announced ==
    \A s \in Sessions :
        /\ object[s] = "none" => ~privkey_valid[s] /\ ~established[s]
        /\ privkey_valid[s] \/ established[s] => our_encoding[s] = s

\* The keys of an established session are those of its id and its role.
Derived ==
    \A s \in Sessions : established[s] =>
        /\ initiator[s] => session_id[s][1] = s
        /\ ~initiator[s] => session_id[s][2] = s
        /\ send_cipher[s].key = Expand(session_id[s], SendInfo(initiator[s]))
        /\ recv_cipher[s].key = Expand(session_id[s], RecvInfo(initiator[s]))

Quiet == \A s \in Sessions : ~established[s] => sealed[s] = << >> /\ opened[s] = << >>

\* Session s sealed packet p.
SealedBy(p, s) ==
    /\ established[s]
    /\ p.key = send_cipher[s].key
    /\ p.nonce < Len(sealed[s])
    /\ p.payload = sealed[s][p.nonce + 1]

WireSealed == \A p \in wire : \E s \in Sessions : SealedBy(p, s)

\* What session t has opened is a beginning of what session s sealed.
Hears(t, s) ==
    /\ established[t] /\ established[s]
    /\ send_cipher[s].key = recv_cipher[t].key
    /\ Len(opened[t]) <= Len(sealed[s])
    /\ \A i \in 1 .. Len(opened[t]) : opened[t][i] = sealed[s][i]

OpenedFrom == \A t \in Sessions : opened[t] # << >> => \E s \in Sessions : Hears(t, s)

IInv == TypeOK /\ Announced /\ Derived /\ Quiet /\ WireSealed /\ OpenedFrom

-----------------------------------------------------------------------------
(* What the invariant says of keys. *)

LEMMA ExpandInjective ==
  ASSUME NEW x, NEW y, NEW i, NEW j, Expand(x, i) = Expand(y, j)
  PROVE  x = y /\ i = j
BY DEF Expand

\* A sending key names its owner: no two sessions seal under one key.
LEMMA SenderOfKey ==
  ASSUME IInv, NEW s \in Sessions, established[s]
  PROVE  Sender(send_cipher[s].key) = s
<1>1. send_cipher[s].key = Expand(session_id[s], SendInfo(initiator[s]))
  BY DEF IInv, Derived
<1>2. Sender(send_cipher[s].key) =
        IF SendInfo(initiator[s]) = "initiator_L" THEN session_id[s][1] ELSE session_id[s][2]
  BY <1>1 DEF Sender, Expand
<1>3. CASE initiator[s]
  BY <1>2, <1>3 DEF IInv, Derived, SendInfo
<1>4. CASE ~initiator[s]
  BY <1>2, <1>4 DEF IInv, Derived, SendInfo
<1> QED
  BY <1>3, <1>4

LEMMA OneSender ==
  ASSUME IInv, NEW s \in Sessions, NEW t \in Sessions, established[s], established[t],
         send_cipher[s].key = send_cipher[t].key
  PROVE  s = t
BY SenderOfKey

\* The key a session receives under is crossed: same id, other role.
LEMMA Crossed ==
  ASSUME IInv, NEW s \in Sessions, NEW t \in Sessions, established[s], established[t],
         send_cipher[s].key = recv_cipher[t].key
  PROVE  s # t /\ session_id[s] = session_id[t] /\ initiator[s] # initiator[t]
<1>1. Expand(session_id[s], SendInfo(initiator[s]))
        = Expand(session_id[t], RecvInfo(initiator[t]))
  BY DEF IInv, Derived
<1>2. session_id[s] = session_id[t] /\ SendInfo(initiator[s]) = RecvInfo(initiator[t])
  BY <1>1, ExpandInjective
<1>3. initiator[s] # initiator[t]
  BY <1>2 DEF SendInfo, RecvInfo
<1> QED
  BY <1>2, <1>3

LEMMA IdMirrored == IInv => SameIdMirrored
<1> SUFFICES ASSUME IInv, NEW s \in Sessions, NEW t \in Sessions, s # t,
                    established[s], established[t], session_id[s] = session_id[t]
             PROVE  /\ initiator[s] # initiator[t]
                    /\ send_cipher[s].key = recv_cipher[t].key
                    /\ recv_cipher[s].key = send_cipher[t].key
                    /\ \A u \in Sessions \ {s, t} :
                         ~(established[u] /\ session_id[u] = session_id[s])
  BY DEF SameIdMirrored
<1>1. ASSUME NEW u \in Sessions, NEW v \in Sessions, established[u], established[v],
             session_id[u] = session_id[v], u # v
      PROVE  initiator[u] = ~initiator[v]
  <2>1. initiator[u] \in BOOLEAN /\ initiator[v] \in BOOLEAN
    BY DEF IInv, TypeOK
  <2>2. ~(initiator[u] /\ initiator[v])
    BY <1>1 DEF IInv, Derived
  <2>3. initiator[u] \/ initiator[v]
    BY <1>1 DEF IInv, Derived
  <2> QED
    BY <2>1, <2>2, <2>3
<1>2. initiator[s] = ~initiator[t]
  BY <1>1
<1>3. SendInfo(initiator[s]) = RecvInfo(initiator[t]) /\ RecvInfo(initiator[s]) = SendInfo(initiator[t])
  BY <1>2 DEF SendInfo, RecvInfo, IInv, TypeOK
<1>4. send_cipher[s].key = recv_cipher[t].key /\ recv_cipher[s].key = send_cipher[t].key
  BY <1>3 DEF IInv, Derived
<1>5. ASSUME NEW u \in Sessions \ {s, t}, established[u], session_id[u] = session_id[s]
      PROVE  FALSE
  <2>1. initiator[u] = ~initiator[s] /\ initiator[u] = ~initiator[t]
    BY <1>1, <1>5
  <2> QED
    BY <1>2, <2>1 DEF IInv, TypeOK
<1> QED
  BY <1>2, <1>4, <1>5 DEF IInv, TypeOK

-----------------------------------------------------------------------------
(* One lemma per action. *)

LEMMA InitEstablishes == Init => IInv
<1> SUFFICES ASSUME Init PROVE IInv
  OBVIOUS
<1>1. Blank \in Encoding /\ NoSecret \in Encoding \X Encoding
  BY BlankAssumption DEF Encoding, NoSecret, Secret
<1>2. Cipher(ZeroKey) \in [key : Key, packet_counter : Nat]
  BY <1>1 DEF Cipher, ZeroKey, Expand, Key
<1>3. TypeOK
  BY <1>1, <1>2 DEF Init, TypeOK, Cipher
<1> QED
  BY <1>3 DEF Init, IInv, Announced, Derived, Quiet, WireSealed, OpenedFrom

LEMMA CreateStep ==
  ASSUME IInv, NEW s \in Sessions, NEW init \in BOOLEAN, NEW valid \in BOOLEAN,
         Create(s, init, valid)
  PROVE  IInv'
<1> USE DEF IInv
<1>1. ~established[s]
  BY DEF Announced, Create
<1>2. TypeOK'
  BY BlankAssumption DEF TypeOK, Create, histories, Encoding
<1>3. Announced'
  BY <1>1 DEF Announced, Create, TypeOK
<1>4. Derived'
  BY <1>1 DEF Derived, Create, TypeOK
<1>5. Quiet' /\ WireSealed' /\ OpenedFrom'
  BY DEF Quiet, WireSealed, SealedBy, OpenedFrom, Hears, Create, histories
<1> QED
  BY <1>2, <1>3, <1>4, <1>5

LEMMA HandshakeStep ==
  ASSUME IInv, NEW s \in Sessions, NEW peer \in Arriving, Handshake(s, peer)
  PROVE  IInv'
<1> USE DEF IInv
<1>1. peer \in Encoding /\ our_encoding[s] = s /\ ~established[s] /\ s \in Encoding
  BY DEF Arriving, TypeOK, Encoding, Announced, Handshake
<1> DEFINE secret == Agreed(our_encoding[s], initiator[s], peer)
<1>2. CASE peer \in Degenerate
  <2>1. UNCHANGED <<object, our_encoding, initiator, wire, sealed, opened,
                    established, session_id, send_cipher, recv_cipher>>
    BY <1>2 DEF Handshake, histories
  <2>2. privkey_valid' = [privkey_valid EXCEPT ![s] = FALSE]
    BY DEF Handshake
  <2>3. TypeOK'
    BY <2>1, <2>2 DEF TypeOK
  <2>4. Announced'
    BY <2>1, <2>2 DEF Announced, TypeOK
  <2> QED
    BY <2>1, <2>3, <2>4 DEF Derived, Quiet, WireSealed, SealedBy, OpenedFrom, Hears
<1>3. CASE peer \notin Degenerate
  <2>1. /\ session_id' = [session_id EXCEPT ![s] = secret]
        /\ send_cipher' = [send_cipher EXCEPT ![s] = Cipher(Expand(secret, SendInfo(initiator[s])))]
        /\ recv_cipher' = [recv_cipher EXCEPT ![s] = Cipher(Expand(secret, RecvInfo(initiator[s])))]
        /\ established' = [established EXCEPT ![s] = TRUE]
        /\ privkey_valid' = [privkey_valid EXCEPT ![s] = FALSE]
        /\ UNCHANGED <<object, our_encoding, initiator, wire, sealed, opened>>
    BY <1>3 DEF Handshake, histories
  <2>2. /\ secret \in Encoding \X Encoding
        /\ initiator[s] => secret[1] = s
        /\ ~initiator[s] => secret[2] = s
    BY <1>1 DEF Agreed, Secret
  <2>3. /\ Cipher(Expand(secret, SendInfo(initiator[s]))) \in [key : Key, packet_counter : Nat]
        /\ Cipher(Expand(secret, RecvInfo(initiator[s]))) \in [key : Key, packet_counter : Nat]
    BY <2>2 DEF Cipher, Expand, Key, SendInfo, RecvInfo
  <2>4. sealed[s] = << >> /\ opened[s] = << >>
    BY <1>1 DEF Quiet
  <2> HIDE DEF secret
  <2>5. TypeOK'
    <3>1. /\ session_id' \in [Sessions -> Encoding \X Encoding]
          /\ send_cipher' \in [Sessions -> [key : Key, packet_counter : Nat]]
          /\ recv_cipher' \in [Sessions -> [key : Key, packet_counter : Nat]]
      BY <2>1, <2>2, <2>3 DEF TypeOK
    <3>2. \A u \in Sessions : /\ send_cipher'[u].packet_counter = Len(sealed'[u])
                              /\ recv_cipher'[u].packet_counter = Len(opened'[u])
      BY <2>1, <2>4 DEF TypeOK, Cipher
    <3> QED
      BY <2>1, <3>1, <3>2 DEF TypeOK
  <2>6. Announced'
    BY <1>1, <2>1 DEF Announced, TypeOK, Handshake
  <2>7. Derived'
    BY <2>1, <2>2 DEF Derived, TypeOK, Cipher
  <2>8. Quiet'
    BY <2>1 DEF Quiet, TypeOK
  <2>9. \A u \in Sessions : established[u] =>
          /\ established'[u] /\ u # s
          /\ send_cipher'[u] = send_cipher[u] /\ recv_cipher'[u] = recv_cipher[u]
    BY <1>1, <2>1 DEF TypeOK
  <2>10. WireSealed'
    BY <2>1, <2>9 DEF WireSealed, SealedBy
  <2>11. OpenedFrom'
    BY <2>1, <2>9 DEF OpenedFrom, Hears
  <2> QED
    BY <2>5, <2>6, <2>7, <2>8, <2>10, <2>11
<1> QED
  BY <1>2, <1>3

LEMMA EncryptStep ==
  ASSUME IInv, NEW s \in Sessions, NEW m \in Payload, Encrypt(s, m)
  PROVE  IInv'
<1> USE DEF IInv
<1>1. /\ established[s]
      /\ wire' = wire \cup {Seal(send_cipher[s], m)}
      /\ sealed' = [sealed EXCEPT ![s] = Append(@, m)]
      /\ send_cipher' = [send_cipher EXCEPT ![s] = Advance(@)]
      /\ UNCHANGED <<object, our_encoding, initiator, privkey_valid, established, session_id,
                     recv_cipher, opened>>
  BY DEF Encrypt, objects
<1>2. /\ send_cipher[s].key \in Key
      /\ send_cipher[s].packet_counter = Len(sealed[s])
      /\ sealed[s] \in Seq(Payload)
      /\ Advance(send_cipher[s]) = [key |-> send_cipher[s].key,
                                    packet_counter |-> Len(sealed[s]) + 1]
  BY DEF TypeOK, Advance
<1>3. /\ sealed'[s] = Append(sealed[s], m)
      /\ Len(sealed'[s]) = Len(sealed[s]) + 1
      /\ sealed'[s][Len(sealed[s]) + 1] = m
      /\ \A i \in 1 .. Len(sealed[s]) : sealed'[s][i] = sealed[s][i]
      /\ \A u \in Sessions \ {s} : sealed'[u] = sealed[u]
  BY <1>1, <1>2 DEF TypeOK
<1>4. \A u \in Sessions : send_cipher'[u].key = send_cipher[u].key
  BY <1>1, <1>2 DEF TypeOK
<1>5. TypeOK'
  <2>1. send_cipher' \in [Sessions -> [key : Key, packet_counter : Nat]]
    BY <1>1, <1>2 DEF TypeOK
  <2>2. sealed' \in [Sessions -> Seq(Payload)]
    BY <1>1, <1>2 DEF TypeOK
  <2>3. Seal(send_cipher[s], m) \in Packet
    BY <1>2 DEF Seal, Packet
  <2>4. \A u \in Sessions : send_cipher'[u].packet_counter = Len(sealed'[u])
    BY <1>1, <1>2, <1>3 DEF TypeOK
  <2> QED
    BY <1>1, <2>1, <2>2, <2>3, <2>4 DEF TypeOK
<1>6. Announced' /\ Derived'
  BY <1>1, <1>4 DEF Announced, Derived
<1>7. Quiet'
  BY <1>1, <1>3 DEF Quiet
<1>8. WireSealed'
  <2> SUFFICES ASSUME NEW p \in wire'
               PROVE  \E u \in Sessions : SealedBy(p, u)'
    BY DEF WireSealed
  <2>1. CASE p = Seal(send_cipher[s], m)
    <3>1. p.key = send_cipher'[s].key /\ p.nonce = Len(sealed[s]) /\ p.payload = m
      BY <1>2, <1>4, <2>1 DEF Seal
    <3>2. p.nonce < Len(sealed'[s]) /\ p.payload = sealed'[s][p.nonce + 1]
      BY <1>2, <1>3, <3>1
    <3> QED
      BY <1>1, <3>1, <3>2 DEF SealedBy
  <2>2. CASE p \in wire
    <3>1. PICK u \in Sessions : SealedBy(p, u)
      BY <2>2 DEF WireSealed
    <3>2. p.nonce \in Nat /\ sealed[u] \in Seq(Payload)
      BY <2>2 DEF TypeOK, Packet
    <3>3. p.nonce < Len(sealed'[u]) /\ p.payload = sealed'[u][p.nonce + 1]
      BY <1>3, <3>1, <3>2 DEF SealedBy
    <3> QED
      BY <1>1, <1>4, <3>1, <3>3 DEF SealedBy
  <2> QED
    BY <1>1, <2>1, <2>2
<1>9. OpenedFrom'
  <2> SUFFICES ASSUME NEW t \in Sessions, opened'[t] # << >>
               PROVE  \E u \in Sessions : Hears(t, u)'
    BY DEF OpenedFrom
  <2>1. PICK u \in Sessions : Hears(t, u)
    BY <1>1 DEF OpenedFrom
  <2>2. opened[t] \in Seq(Payload) /\ sealed[u] \in Seq(Payload)
    BY DEF TypeOK
  <2>3. /\ Len(opened[t]) <= Len(sealed'[u])
        /\ \A i \in 1 .. Len(opened[t]) : opened[t][i] = sealed'[u][i]
    <3>1. CASE u = s
      BY <1>3, <2>1, <2>2, <3>1 DEF Hears
    <3>2. CASE u # s
      BY <1>3, <2>1, <3>2 DEF Hears
    <3> QED
      BY <3>1, <3>2
  <2> QED
    BY <1>1, <1>4, <2>1, <2>3 DEF Hears
<1> QED
  BY <1>5, <1>6, <1>7, <1>8, <1>9

LEMMA OpenStep ==
  ASSUME IInv, NEW t \in Sessions, NEW p \in wire, Open(t, p)
  PROVE  /\ IInv'
         /\ \E s \in Sessions :
              /\ established[s] /\ send_cipher[s].key = recv_cipher[t].key
              /\ opened[t] # << >> => Hears(t, s)
              /\ Len(opened[t]) < Len(sealed[s])
              /\ opened' = [opened EXCEPT ![t] = Append(@, sealed[s][Len(@) + 1])]
<1> USE DEF IInv
<1>1. /\ established[t]
      /\ p.key = recv_cipher[t].key /\ p.nonce = recv_cipher[t].packet_counter
      /\ recv_cipher' = [recv_cipher EXCEPT ![t] = Advance(@)]
      /\ opened' = [opened EXCEPT ![t] = Append(@, p.payload)]
      /\ UNCHANGED <<object, our_encoding, initiator, privkey_valid, established, session_id,
                     send_cipher, wire, sealed>>
  BY DEF Open, objects, Opens
<1>2. PICK s \in Sessions : SealedBy(p, s)
  BY DEF WireSealed
<1>3. /\ established[s] /\ send_cipher[s].key = recv_cipher[t].key
      /\ p.nonce = Len(opened[t])
      /\ Len(opened[t]) < Len(sealed[s])
      /\ p.payload = sealed[s][Len(opened[t]) + 1]
  BY <1>1, <1>2 DEF SealedBy, TypeOK
<1>4. ASSUME opened[t] # << >> PROVE Hears(t, s)
  <2>1. PICK u \in Sessions : Hears(t, u)
    BY <1>4 DEF OpenedFrom
  <2>2. u = s
    BY <1>3, <2>1, OneSender DEF Hears
  <2> QED
    BY <2>1, <2>2
<1>5. /\ p.payload \in Payload /\ opened[t] \in Seq(Payload)
      /\ sealed[s] \in Seq(Payload)
  BY DEF TypeOK, Packet
<1>6. /\ opened'[t] = Append(opened[t], p.payload)
      /\ Len(opened'[t]) = Len(opened[t]) + 1
      /\ opened'[t][Len(opened[t]) + 1] = p.payload
      /\ \A i \in 1 .. Len(opened[t]) : opened'[t][i] = opened[t][i]
      /\ \A u \in Sessions \ {t} : opened'[u] = opened[u]
  BY <1>1, <1>5 DEF TypeOK
<1>7. /\ recv_cipher[t].key \in Key
      /\ recv_cipher[t].packet_counter = Len(opened[t])
      /\ Advance(recv_cipher[t]) = [key |-> recv_cipher[t].key,
                                    packet_counter |-> Len(opened[t]) + 1]
  <2>1. recv_cipher[t] \in [key : Key, packet_counter : Nat]
    BY DEF TypeOK
  <2>2. recv_cipher[t].packet_counter = Len(opened[t])
    BY DEF TypeOK
  <2> QED
    BY <2>1, <2>2 DEF Advance
<1>8. \A u \in Sessions : recv_cipher'[u].key = recv_cipher[u].key
  BY <1>1, <1>7 DEF TypeOK
<1>9. TypeOK'
  <2>1. recv_cipher' \in [Sessions -> [key : Key, packet_counter : Nat]]
    BY <1>1, <1>5, <1>7 DEF TypeOK
  <2>2. opened' \in [Sessions -> Seq(Payload)]
    BY <1>1, <1>5 DEF TypeOK
  <2>3. \A u \in Sessions : recv_cipher'[u].packet_counter = Len(opened'[u])
    BY <1>1, <1>6, <1>7 DEF TypeOK
  <2> QED
    BY <1>1, <2>1, <2>2, <2>3 DEF TypeOK
<1>10. Announced' /\ Derived'
  BY <1>1, <1>8 DEF Announced, Derived
<1>11. Quiet' /\ WireSealed'
  BY <1>1, <1>6 DEF Quiet, WireSealed, SealedBy
<1>12. OpenedFrom'
  <2> SUFFICES ASSUME NEW u \in Sessions, opened'[u] # << >>
               PROVE  \E v \in Sessions : Hears(u, v)'
    BY DEF OpenedFrom
  <2>1. CASE u # t
    <3>1. PICK v \in Sessions : Hears(u, v)
      BY <1>6, <2>1 DEF OpenedFrom
    <3> QED
      BY <1>1, <1>6, <1>8, <2>1, <3>1 DEF Hears
  <2>2. CASE u = t
    <3>1. \A i \in 1 .. Len(opened[t]) : opened[t][i] = sealed[s][i]
      <4>1. CASE opened[t] = << >>
        BY <4>1
      <4>2. CASE opened[t] # << >>
        BY <1>4, <4>2 DEF Hears
      <4> QED
        BY <4>1, <4>2
    <3>2. Len(opened'[t]) <= Len(sealed[s])
      BY <1>3, <1>5, <1>6
    <3>3. \A i \in 1 .. Len(opened'[t]) : opened'[t][i] = sealed[s][i]
      BY <1>3, <1>5, <1>6, <3>1
    <3> QED
      BY <1>1, <1>3, <1>8, <2>2, <3>2, <3>3 DEF Hears
  <2> QED
    BY <2>1, <2>2
<1>13. opened' = [opened EXCEPT ![t] = Append(@, sealed[s][Len(@) + 1])]
  BY <1>1, <1>3
<1> QED
  BY <1>3, <1>4, <1>9, <1>10, <1>11, <1>12, <1>13

LEMMA RejectStep ==
  ASSUME IInv, NEW s \in Sessions, NEW p, Reject(s, p)
  PROVE  IInv' /\ UNCHANGED <<sealed, opened, recv_cipher>>
<1>1. recv_cipher' = recv_cipher
  BY DEF Reject, Rejected, IInv, TypeOK
<1>2. UNCHANGED vars
  BY <1>1 DEF Reject, vars, objects, histories
<1> QED
  BY <1>2 DEF IInv, TypeOK, Announced, Derived, Quiet, WireSealed, SealedBy, OpenedFrom, Hears,
              vars, objects, histories

LEMMA DestroyStep ==
  ASSUME IInv, NEW s \in Sessions, Destroy(s)
  PROVE  IInv'
<1> USE DEF IInv
<1>1. TypeOK'
  BY DEF TypeOK, Destroy, histories
<1>2. Announced'
  BY DEF Announced, Destroy, TypeOK
<1> QED
  BY <1>1, <1>2 DEF Destroy, histories, Derived, Quiet, WireSealed, SealedBy, OpenedFrom, Hears

-----------------------------------------------------------------------------
(* The theorems. *)

LEMMA Inductive == Spec => []IInv
<1>1. ASSUME IInv, [Next]_vars PROVE IInv'
  <2>1. CASE UNCHANGED vars
    BY <1>1, <2>1 DEF IInv, TypeOK, Announced, Derived, Quiet, WireSealed, SealedBy,
                      OpenedFrom, Hears, vars, objects, histories
  <2>2. CASE Next
    BY <1>1, <2>2, CreateStep, HandshakeStep, EncryptStep, OpenStep, RejectStep, DestroyStep
       DEF Next
  <2> QED
    BY <1>1, <2>1, <2>2
<1> QED
  BY InitEstablishes, <1>1, PTL DEF Spec

\* The fields keep their types and the counters of both ciphers count what
\* was sealed and opened (Bip324Cipher::encrypt, ::decrypt).
THEOREM TypeCorrect == Spec => []TypeOK
<1>1. IInv => TypeOK
  BY DEF IInv
<1> QED
  BY <1>1, Inductive, PTL

\* No key and nonce seal two packets (Bip324Cipher::build_nonce).
THEOREM NonceUnique == Spec => []NonceOnce
<1>1. IInv => NonceOnce
  <2> SUFFICES ASSUME IInv, NEW p \in wire, NEW q \in wire, p.key = q.key, p.nonce = q.nonce
               PROVE  p = q
    BY DEF NonceOnce
  <2>1. PICK s \in Sessions : SealedBy(p, s)
    BY DEF IInv, WireSealed
  <2>2. PICK t \in Sessions : SealedBy(q, t)
    BY DEF IInv, WireSealed
  <2>3. s = t
    BY <2>1, <2>2, OneSender DEF SealedBy
  <2>4. p.payload = q.payload
    BY <2>1, <2>2, <2>3 DEF SealedBy
  <2>5. p \in Packet /\ q \in Packet
    BY DEF IInv, TypeOK
  <2> QED
    BY <2>4, <2>5 DEF Packet
<1> QED
  BY <1>1, Inductive, PTL

\* Sessions of one id are the two ends of one connection, with crossed keys
\* (complete_handshake).
THEOREM Mirrored == Spec => []SameIdMirrored
BY IdMirrored, Inductive, PTL

\* What a session opens is a beginning of what one other session sealed.
THEOREM PrefixOpened == Spec => []OpenedIsPrefix
<1>1. IInv => OpenedIsPrefix
  <2> SUFFICES ASSUME IInv, NEW t \in Sessions, opened[t] # << >>
               PROVE  \E s \in Sessions \ {t} :
                        /\ established[s] /\ session_id[s] = session_id[t]
                        /\ Len(opened[t]) <= Len(sealed[s])
                        /\ \A i \in 1 .. Len(opened[t]) : opened[t][i] = sealed[s][i]
    BY DEF OpenedIsPrefix
  <2>1. PICK s \in Sessions : Hears(t, s)
    BY DEF IInv, OpenedFrom
  <2>2. s # t /\ session_id[s] = session_id[t]
    BY <2>1, Crossed DEF Hears
  <2> QED
    BY <2>1, <2>2 DEF Hears
<1> QED
  BY <1>1, Inductive, PTL

-----------------------------------------------------------------------------
(* The sessions implement the abstract channel: Encrypt is Say, Open is    *)
(* Hear, and every other step leaves the channel as it is.                 *)

Partner(t) == IF opened[t] = << >> THEN Nobody ELSE Sender(recv_cipher[t].key)

LEMMA PartnerIs ==
  ASSUME IInv, NEW t \in Sessions, NEW s \in Sessions, established[s], established[t],
         send_cipher[s].key = recv_cipher[t].key
  PROVE  Partner(t) \in {Nobody, s}
BY SenderOfKey DEF Partner

\* Who hears a session is at the other end of its connection.
LEMMA PartnerMirrored ==
  ASSUME IInv, NEW u \in Sessions, NEW s \in Sessions, Partner(u) = s
  PROVE  /\ established[u] /\ established[s] /\ u # s
         /\ send_cipher[s].key = recv_cipher[u].key
         /\ session_id[u] = session_id[s]
<1>1. opened[u] # << >>
  BY NobodyAssumption DEF Partner
<1>2. PICK v \in Sessions : Hears(u, v)
  BY <1>1 DEF IInv, OpenedFrom
<1>3. Partner(u) = v
  BY <1>1, <1>2, SenderOfKey DEF Partner, Hears
<1> QED
  BY <1>2, <1>3, Crossed DEF Hears

LEMMA OpenHears ==
  ASSUME IInv, NEW t \in Sessions, NEW p \in wire, Open(t, p)
  PROVE  \E s \in Sessions : Channel!Hear(t, s)
<1>1. PICK s \in Sessions :
        /\ established[s] /\ send_cipher[s].key = recv_cipher[t].key
        /\ opened[t] # << >> => Hears(t, s)
        /\ Len(opened[t]) < Len(sealed[s])
        /\ opened' = [opened EXCEPT ![t] = Append(@, sealed[s][Len(@) + 1])]
  BY OpenStep
<1>2. established[t]
  BY DEF Open
<1>3. s # t /\ session_id[s] = session_id[t]
  BY <1>1, <1>2, Crossed
<1>4. Partner(t) \in {Nobody, s}
  BY <1>1, <1>2, PartnerIs
<1>5. Partner(s) \in {Nobody, t}
  <2>1. recv_cipher[s].key = send_cipher[t].key
    BY <1>1, <1>2, <1>3, IdMirrored DEF SameIdMirrored
  <2> QED
    BY <1>1, <1>2, <2>1, PartnerIs
<1>6. ASSUME NEW u \in Sessions \ {t}, Partner(u) = s PROVE FALSE
  <2>1. established[u] /\ u # s /\ session_id[u] = session_id[s]
    BY <1>6, PartnerMirrored
  <2> QED
    BY <1>1, <1>2, <1>3, <2>1, IdMirrored DEF SameIdMirrored
<1>7. [u \in Sessions |-> Partner(u)]' = [[u \in Sessions |-> Partner(u)] EXCEPT ![t] = s]
  <2>1. opened'[t] # << >>
    BY <1>1 DEF IInv, TypeOK
  <2>2. \A u \in Sessions : recv_cipher'[u].key = recv_cipher[u].key
    BY DEF Open, Advance, IInv, TypeOK
  <2>3. Partner(t)' = s
    BY <1>1, <2>1, <2>2, SenderOfKey DEF Partner
  <2>4. \A u \in Sessions \ {t} : Partner(u)' = Partner(u)
    BY <1>1, <2>2 DEF Partner, IInv, TypeOK
  <2> QED
    BY <2>3, <2>4
<1>8. UNCHANGED sealed
  BY DEF Open
<1> QED
  BY <1>1, <1>3, <1>4, <1>5, <1>6, <1>7, <1>8 DEF Channel!Hear, Partner

\* The transport keeps the promise of SecureChannel.
THEOREM Implements == Spec => ImplementsChannel
<1>1. Init => Channel!Init
  BY DEF Init, Channel!Init
<1>2. ASSUME IInv, [Next]_vars PROVE [Channel!Next]_(Channel!vars)
  <2>1. ASSUME UNCHANGED <<sealed, opened>>,
               \A t \in Sessions : opened[t] # << >> => recv_cipher'[t].key = recv_cipher[t].key
        PROVE  UNCHANGED Channel!vars
    BY <2>1 DEF Channel!vars
  <2>2. CASE UNCHANGED vars
    BY <2>1, <2>2 DEF vars, histories
  <2>3. ASSUME NEW s \in Sessions, NEW init \in BOOLEAN, NEW valid \in BOOLEAN,
               Create(s, init, valid)
        PROVE  UNCHANGED Channel!vars
    BY <2>1, <2>3 DEF Create, histories
  <2>4. ASSUME NEW s \in Sessions, NEW peer \in Arriving, Handshake(s, peer)
        PROVE  UNCHANGED Channel!vars
    <3>1. opened[s] = << >>
      BY <1>2, <2>4 DEF Handshake, IInv, Quiet
    <3>2. \A t \in Sessions \ {s} : recv_cipher'[t] = recv_cipher[t]
      BY <1>2, <2>4 DEF Handshake, IInv, TypeOK
    <3> QED
      BY <2>1, <2>4, <3>1, <3>2 DEF Handshake, histories
  <2>5. ASSUME NEW s \in Sessions, NEW m \in Payload, Encrypt(s, m)
        PROVE  Channel!Say(s, m)
    BY <2>5 DEF Encrypt, Channel!Say
  <2>6. ASSUME NEW s \in Sessions, NEW p \in wire \cup {Damaged}, Reject(s, p)
        PROVE  UNCHANGED Channel!vars
    BY <1>2, <2>1, <2>6, RejectStep
  <2>7. ASSUME NEW s \in Sessions, Destroy(s)
        PROVE  UNCHANGED Channel!vars
    BY <2>1, <2>7 DEF Destroy, histories
  <2> QED
    BY <1>2, <2>2, <2>3, <2>4, <2>5, <2>6, <2>7, OpenHears DEF Next, Channel!Next
<1> QED
  BY <1>1, <1>2, Inductive, PTL DEF Spec, ImplementsChannel, Channel!Spec
=============================================================================
