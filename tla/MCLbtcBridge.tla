---------------------------- MODULE MCLbtcBridge -----------------------------
(***************************************************************************)
(* An instance of LbtcBridge for TLC: two backends; batches of three or    *)
(* four rows in chunks of one, two or three, so that the last chunk is     *)
(* short; four rows on three threads, one of which gets none; bad rows     *)
(* first, last, all and nowhere.                                           *)
(***************************************************************************)
EXTENDS LbtcBridge

CONSTANTS cuda, opencl, none, cpu, notoken

MCDevices == <<cuda, opencl>>

Batch(api, kind, n, bad, interval) ==
    [api |-> api, kind |-> kind, n |-> n, bad |-> bad, loose |-> {},
     interval |-> interval, cap |-> 1, out |-> TRUE, args |-> TRUE]

\* Rows of compact signatures cannot be collected: there is no such function.
Chunked == {Batch(c[1], c[2], 4, bad, interval) :
              c \in ({"rows", "collect", "columns", "columns collect"}
                          \X {"opaque", "compact", "schnorr"}) \ {<<"collect", "compact">>},
              bad \in {{}, {0, 3}, {1}}, interval \in {notoken, 2}}

Keys == {Batch("keys", kind, n, {0}, notoken) :
            kind \in {"commitment", "commitment rows", "key"}, n \in {2, 4}}
        \cup {[Batch("keys", "commitment rows", 4, {1, 2}, notoken) EXCEPT !.loose = {2}]}

\* Other intervals, empty and refused batches, and calls without a buffer.
Odd == {Batch("rows", "opaque", 3, {0, 2}, 0), Batch("collect", "schnorr", 3, {1}, 5),
        Batch("columns", "schnorr", 3, {0, 1, 2}, 1), Batch("rows", "compact", 0, {}, 2),
        Batch("keys", "key", 0, {}, notoken),
        [Batch("rows", "schnorr", 3, {2}, 2) EXCEPT !.out = FALSE, !.cap = 0],
        [Batch("rows", "opaque", 2, {}, notoken) EXCEPT !.args = FALSE],
        [Batch("collect", "opaque", 2, {}, notoken) EXCEPT !.args = FALSE],
        [Batch("keys", "key", 2, {}, notoken) EXCEPT !.args = FALSE],
        [Batch("keys", "key", 2, {}, notoken) EXCEPT !.out = FALSE]}

MCRequests == Chunked \cup Keys \cup Odd
=============================================================================
