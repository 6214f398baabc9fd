----------------------------- MODULE MCFixedBase -----------------------------
(***************************************************************************)
(* Instances of FixedBase for TLC: scalars of four bits in a group of      *)
(* order 13 (3 is a cube root of one), a process with two threads and one  *)
(* with a single thread, tables of three widths with and without psi, and  *)
(* a shared directory that holds no file, a whole one or a cut one.        *)
(***************************************************************************)
EXTENDS FixedBase, TLC

CONSTANTS first, second, t, u, v, b1, b2, nofile, missing, cwd, shared, byname

MCProcessOf == [x \in Threads |-> IF x = v THEN second ELSE first]

\* The threads of one process and the blocks of memory are interchangeable.
MCSymmetry == Permutations({t, u}) \cup Permutations({b1, b2})

Config(width, halves, cached, directory, file, windows) ==
    [bits |-> width, glv |-> halves, adaptive |-> FALSE, minbits |-> 0,
     cache |-> cached, dir |-> directory, path |-> file, maxw |-> windows]

MCDefault == Config(3, FALSE, TRUE, cwd, nofile, 0)
MCCalls == {<<12, 6>>}
MCEnv == [dir |-> cwd, path |-> nofile, maxw |-> 0]

\* A file by name, with psi; no cache, where the adaptive rule turns psi off;
\* a width that build_context refuses.
MCConfigs ==
    {Config(2, TRUE, TRUE, cwd, byname, 0),
     [Config(5, TRUE, FALSE, cwd, nofile, 0) EXCEPT !.adaptive = TRUE, !.minbits = 6],
     [MCDefault EXCEPT !.bits = 1]}

\* Widths that divide the width of a scalar, without psi.
MCDividing == {Config(2, FALSE, FALSE, cwd, nofile, 0), Config(4, FALSE, FALSE, cwd, nofile, 0)}

SharedFile == [dir |-> shared, bits |-> 3, glv |-> FALSE]
Disk(F) == [f \in Files |-> IF f = SharedFile THEN F ELSE missing]
MCOldFiles ==
    {Disk([bits |-> 3, glv |-> FALSE, filled |-> n]) : n \in {1, 2}}
=============================================================================
