-------------------------- MODULE MCSnapshotDeletion --------------------------
(***************************************************************************)
(* Three snapshots and batches of two: all three past their delete_at, the *)
(* first with files that stay, so that the last is in no batch at first.   *)
(***************************************************************************)
EXTENDS SnapshotDeletion
MCExpired == {1, 2, 3}
MCStuck   == {1}
MCTouched == {2}
=============================================================================
