---------------------------- MODULE MCFsMigration ----------------------------
(***************************************************************************)
(* An old directory with index.json, and perhaps another file and a link;  *)
(* the runner and "archivebox update", alone or at once.                   *)
(***************************************************************************)
EXTENDS FsMigration
CONSTANTS f, idx, l, m1, m2
MCFiles == {idx, f}
MCLinks == {l}
MCOne   == {m1}
MCTwo   == {m1, m2}
=============================================================================
