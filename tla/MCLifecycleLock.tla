--------------------------- MODULE MCLifecycleLock ---------------------------
(***************************************************************************)
(* The lifecycle lock with two processes of two threads each, re-entered   *)
(* once, with crashes, forks and failing calls.                            *)
(***************************************************************************)
EXTENDS LifecycleLock, TLC
CONSTANTS runner, web, main, worker, s1, s2, f1, f2, f3
MCProcs == {runner, web}
MCThreads == {main, worker}
MCStates == {s1, s2}
MCFiles == {f1, f2, f3}
MCTwoFiles == {f1, f2}
Perms == Permutations(MCProcs) \cup Permutations(MCThreads)
=============================================================================
