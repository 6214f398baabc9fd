---------------------------- MODULE BatchVerdict -----------------------------
(***************************************************************************)
(* What the opaque batch verifiers promise to their callers                *)
(* (src/cpu/include/secp256k1/batch_verify.hpp): true exactly when every   *)
(* row verifies, and a mark for each row by itself if the caller wants     *)
(* them -- with no device, no hook, no pool and no second pass.  What is   *)
(* in the caller's buffer during the call is nobody's business.            *)
(***************************************************************************)
EXTENDS Naturals

CONSTANTS
    Callers,   \* threads that verify batches
    Requests,  \* the calls they make: [n, bad, ok, out, columns]
    Hidden     \* the contents of out_results during a call

VARIABLES
    calling,   \* the callers inside a verifier
    request,   \* request[c]: the arguments of c's current or last call
    verdict,   \* verdict[c]: what that call returned
    results    \* results[c]: out_results

vars == <<calling, request, verdict, results>>

NoRequest == [n |-> 0, bad |-> {}, ok |-> TRUE, out |-> FALSE, columns |-> FALSE]
Rows(a) == 0 .. (a.n - 1)

\* "Returns true iff all rows verify. ... count == 0 returns true."
Valid(a) == a.n = 0 \/ (a.ok /\ a.bad = {})

\* "write 1/0 per row ...  Invalid pointers or undersized row strides return
\* false and zero out_results"; nothing is written without a buffer.
Marks(a) == [r \in IF a.out THEN Rows(a) ELSE {} |-> IF a.ok /\ r \notin a.bad THEN 1 ELSE 0]

Init ==
    /\ calling = {}
    /\ request = [c \in Callers |-> NoRequest]
    /\ verdict = [c \in Callers |-> TRUE]
    /\ results = [c \in Callers |-> Marks(NoRequest)]

Call(c, a) ==
    /\ c \notin calling
    /\ calling' = calling \cup {c}
    /\ request' = [request EXCEPT ![c] = a]
    /\ results' = [results EXCEPT ![c] = Hidden]
    /\ UNCHANGED verdict

Return(c) ==
    /\ c \in calling
    /\ calling' = calling \ {c}
    /\ verdict' = [verdict EXCEPT ![c] = Valid(request[c])]
    /\ results' = [results EXCEPT ![c] = Marks(request[c])]
    /\ UNCHANGED request

Next == \E c \in Callers : Return(c) \/ \E a \in Requests : Call(c, a)

Spec == Init /\ [][Next]_vars
==============================================================================
