------------------------------ MODULE BatchJob ------------------------------
(***************************************************************************)
(* What BatchWorkerPool::run promises to the batch verifiers, with no      *)
(* threads, no locks and no cursor.  A caller hands in rows 0 .. n-1, some *)
(* of them bad.  Disjoint groups of rows are examined in any order; the    *)
(* call may answer "true" only once every row was examined and none is     *)
(* bad, and may answer "false" only once a bad row was examined.           *)
(***************************************************************************)
EXTENDS Naturals

CONSTANTS Callers,  \* the threads that call run()
          Jobs      \* the calls they may make: [n, steal, want, bad]

VARIABLES inside,    \* the callers inside run()
          req,       \* req[c]: the arguments of c's current or last call
          examined,  \* examined[c]: the rows already handed to fn for it
          answer     \* answer[c]: what c's last call returned

vars == <<inside, req, examined, answer>>

NoReq == [n |-> 0, steal |-> 0, want |-> 0, bad |-> {}]

Rows(j) == 0 .. (j.n - 1)

Init == /\ inside = {}
        /\ req = [c \in Callers |-> NoReq]
        /\ examined = [c \in Callers |-> {}]
        /\ answer = [c \in Callers |-> "none"]

Submit(c, j) ==
    /\ c \notin inside
    /\ inside' = inside \cup {c}
    /\ req' = [req EXCEPT ![c] = j]
    /\ examined' = [examined EXCEPT ![c] = {}]
    /\ answer' = [answer EXCEPT ![c] = "none"]

\* A group of rows goes to fn; no row goes there twice in one call.
Examine(c) ==
    /\ c \in inside
    /\ \E rows \in SUBSET (Rows(req[c]) \ examined[c]) :
          /\ rows # {}
          /\ examined' = [examined EXCEPT ![c] = @ \cup rows]
    /\ UNCHANGED <<inside, req, answer>>

Return(c) ==
    /\ c \in inside
    /\ \/ /\ examined[c] = Rows(req[c])
          /\ req[c].bad = {}
          /\ answer' = [answer EXCEPT ![c] = "true"]
       \/ /\ examined[c] \cap req[c].bad # {}
          /\ answer' = [answer EXCEPT ![c] = "false"]
    /\ inside' = inside \ {c}
    /\ UNCHANGED <<req, examined>>

Next == \E c \in Callers :
            \/ \E j \in Jobs : Submit(c, j)
            \/ Examine(c)
            \/ Return(c)

Spec == Init /\ [][Next]_vars
=============================================================================
