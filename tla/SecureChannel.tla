---------------------------- MODULE SecureChannel ----------------------------
(***************************************************************************)
(* What an encrypted transport promises to the two ends of a connection,   *)
(* whatever the network between them loses, repeats, reorders, damages or  *)
(* sends back: an end hears one other end only, that end is heard by       *)
(* nobody else, and what is heard is what was said, from the first message *)
(* on, without a gap, a repetition or a change.  The connection may stall  *)
(* and an end may hear only a beginning of what was said.                  *)
(***************************************************************************)
EXTENDS Naturals, Sequences

CONSTANTS
    Ends,       \* the ends of connections
    Payload,    \* the messages
    Nobody      \* the partner of an end that has heard nothing yet

VARIABLES
    said,       \* said[s]: the messages end s has sent
    heard,      \* heard[t]: the messages end t has accepted
    partner     \* partner[t]: the end whose messages t accepts

vars == <<said, heard, partner>>

Init ==
    /\ said = [s \in Ends |-> << >>]
    /\ heard = [t \in Ends |-> << >>]
    /\ partner = [t \in Ends |-> Nobody]

Say(s, m) ==
    /\ said' = [said EXCEPT ![s] = Append(@, m)]
    /\ UNCHANGED <<heard, partner>>

Hear(t, s) ==
    /\ s # t
    /\ partner[t] \in {Nobody, s}
    /\ partner[s] \in {Nobody, t}
    /\ \A u \in Ends \ {t} : partner[u] # s
    /\ Len(heard[t]) < Len(said[s])
    /\ heard' = [heard EXCEPT ![t] = Append(@, said[s][Len(@) + 1])]
    /\ partner' = [partner EXCEPT ![t] = s]
    /\ UNCHANGED said

Next ==
    \/ \E s \in Ends, m \in Payload : Say(s, m)
    \/ \E t, s \in Ends : Hear(t, s)

Spec == Init /\ [][Next]_vars
=============================================================================
