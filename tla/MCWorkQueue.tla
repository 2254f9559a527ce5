----------------------------- MODULE MCWorkQueue -----------------------------
(***************************************************************************)
(* The queue protocol with two runners and a web request on one row: a     *)
(* lease of one tick that runs out twice before the clock stops, and       *)
(* enough timestamps for claim, pause, resume, claim again and a stale     *)
(* write after each of them.                                               *)
(***************************************************************************)
EXTENDS WorkQueue
CONSTANTS runner1, runner2, web
MCProcs == {runner1, runner2, web}
=============================================================================
