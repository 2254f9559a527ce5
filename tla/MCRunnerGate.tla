----------------------------- MODULE MCRunnerGate -----------------------------
(***************************************************************************)
(* Three runners, the second of which supervisord starts for the server.   *)
(***************************************************************************)
EXTENDS RunnerGate
MCDaemons == {2}
MCPids    == {1, 2, 3}
MCStandby == {"standby"}
MCWorking == {"working"}
=============================================================================
