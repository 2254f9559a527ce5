----------------------------- MODULE MCPluginRuns -----------------------------
(***************************************************************************)
(* Two plugins and two processes that ask for runs of them.                *)
(***************************************************************************)
EXTENDS PluginRuns
CONSTANTS a, b, u1, u2
MCPlugins == {a, b}
MCUsers   == {u1, u2}
=============================================================================
