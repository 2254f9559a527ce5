------------------------ MODULE SnapshotDeletion_proofs ------------------------
(***************************************************************************)
(* What holds of deletion for any number of snapshots, batches, hooks and  *)
(* deaths, and whatever rows users have copies of: only a copy of a row    *)
(* that waited at RETRY_AT_MAX takes a deletion back, and no file is left  *)
(* without its row unless the snapshot was captured during its deletion.   *)
(*                                                                         *)
(* The first rests on retry_at: a row to be deleted is at RETRY_AT_MAX,    *)
(* which no due row and so no lease has.  The second follows the deletion  *)
(* through its steps: from kill_tree on nobody writes the files, and from  *)
(* their removal on there are none, whatever becomes of the row meanwhile. *)
(***************************************************************************)
EXTENDS SnapshotDeletion, FiniteSetTheorems, WellFoundedInduction, TLAPS

Doomed(s) == row[s].status \in {"deleting", "gone"}

Past(d, stages) == pc[d] \in stages /\ cur[d] \notin late
Removes == {"remove", "remove_sweep"}
Rows    == {"row", "row_sweep"}

(* Rows to be deleted are at RETRY_AT_MAX; besides them only paused rows   *)
(* are; and so it was when a copy was loaded.                              *)
Parked ==
    /\ \A s \in Snaps : row[s].status = "deleting" => row[s].retry = MAX
    /\ \A s \in Snaps : row[s].retry = MAX => row[s].status \in {"paused", "deleting"}
    /\ copy.retry = MAX => copy.status \in {"paused", "deleting"}
    /\ copy # NoCopy => copy.status # "gone"

(* A snapshot that is captured is not to be deleted and no deleter is at   *)
(* it, or it is known to be.                                               *)
CaptureKnown ==
    pc["runner"] = "capture" /\ (Doomed(cur["runner"]) \/ cur["runner"] \in Deleted)
        => cur["runner"] \in late

(* What a deletion has done by the time it is at a step.                   *)
Progress ==
    \A d \in Deleters :
      /\ Past(d, Removes \cup Rows) => cur[d] \notin writer
      /\ Past(d, Rows) => cur[d] \notin files

GoneQuiet == \A s \in Snaps \ late : row[s].status = "gone" => s \notin files \cup writer

IInv == TypeOK /\ Parked /\ CaptureKnown /\ Progress /\ GoneQuiet

-----------------------------------------------------------------------------
LEMMA MinIn ==
    ASSUME NEW S \in SUBSET Snaps, S # {}
    PROVE  MinOf(S) \in S
<1>1. S \in SUBSET Nat
  BY DeletionAssumption DEF Snaps
<1>2. PICK x \in S : \A y \in S : ~(<<y, x>> \in OpToRel(<, Nat))
  BY <1>1, NatLessThanWellFounded, WFMin
<1>3. \A y \in S : ~(y < x)
  BY <1>1, <1>2 DEF OpToRel
<1>4. \A y \in S : x <= y
  BY <1>1, <1>3
<1> QED
  BY <1>4 DEF MinOf

LEMMA InitIInv == Init => IInv
<1> SUFFICES ASSUME Init PROVE IInv
  OBVIOUS
<1> USE DeletionAssumption DEF Init
<1>1. 1 \in Snaps
  BY DEF Snaps
<1>2. TypeOK
  <2>1. row \in [Snaps -> [status : Status, retry : Nat \cup {MAX}]]
    BY DEF Status, Open, NULL, MAX
  <2>2. writer \subseteq Snaps
    BY DEF Of
  <2> QED
    BY <1>1, <2>1, <2>2 DEF TypeOK, Stages, NoCopy, NULL, MAX, Status
<1>3. Parked /\ CaptureKnown /\ Progress /\ GoneQuiet
  BY DEF Parked, CaptureKnown, Progress, GoneQuiet, Doomed, Past, Removes, Rows, NoCopy, NULL, MAX, Deleters
<1> QED
  BY <1>2, <1>3 DEF IInv


-----------------------------------------------------------------------------
(* Typing, by action.                                                      *)
LEMMA StepTyped == TypeOK /\ Next => TypeOK'
<1> SUFFICES ASSUME TypeOK, Next PROVE TypeOK'
  OBVIOUS
<1> USE DeletionAssumption DEF TypeOK, disk, run, Goto, Leave, Put, Stamp, Deleters
<1>0. /\ \A st \in Status, r \in Nat \cup {MAX} : [status |-> st, retry |-> r] \in [status : Status, retry : Nat \cup {MAX}]
      /\ \A st \in {"deleting", "gone", "queued", "started", "sealed", "paused"} : st \in Status
      /\ NULL \in Nat
      /\ \A st \in {"idle", "sweep", "requested", "kill", "kill_sweep", "remove", "remove_sweep",
                     "row", "row_sweep", "claim", "capture"} : st \in Stages
      /\ Snaps \subseteq 0..N /\ 1 \in Snaps /\ NULL \in Nat \cup {MAX}
  BY DEF Status, Open, NULL, Stages, Snaps
<1>1. CASE Sweep
  BY <1>0, <1>1 DEF Sweep, Of, Due, FirstOf
<1>2. CASE Claim
  <2>1. row' \in [Snaps -> [status : Status, retry : Nat \cup {MAX}]] /\ writes' \in Nat /\ lease' \in Nat
    BY <1>0, <1>2 DEF Claim
  <2>2. pc' \in [Deleters -> Stages] /\ cur' \in [Deleters -> Snaps] /\ hooks' \in 0..MaxHooks
    BY <1>0, <1>2 DEF Claim
  <2>3. late' \subseteq Snaps
    BY <1>2 DEF Claim
  <2> QED
    BY <1>2, <2>1, <2>2, <2>3 DEF Claim
<1>3. CASE Finish
  BY <1>0, <1>3 DEF Finish
<1>4. ASSUME NEW s \in Snaps, Pick(s) PROVE TypeOK'
  BY <1>0, <1>4 DEF Pick, IsDue
<1>5. CASE HookStarts
  <2>1. hooks' \in 0..MaxHooks /\ writer' \subseteq Snaps
    BY <1>5 DEF HookStarts
  <2> QED
    BY <2>1, <1>5 DEF HookStarts
<1>6. CASE Requeue \/ Pause \/ Resume
  <2>1. NoCopy \in [snap : 0..N, status : Status, retry : Nat \cup {MAX}]
    BY <1>0 DEF NoCopy
  <2>2. \/ row' = row \/ row' = [row EXCEPT ![copy.snap] = [status |-> "queued", retry |-> Stamp]]
        \/ row' = [row EXCEPT ![copy.snap] = [status |-> "paused", retry |-> MAX]]
    BY <1>6 DEF Requeue, Pause, Resume
  <2>3. row' \in [Snaps -> [status : Status, retry : Nat \cup {MAX}]]
    BY <1>0, <2>2
  <2>4. writes' \in Nat
    BY <1>6 DEF Requeue, Pause, Resume
  <2> QED
    BY <1>6, <2>1, <2>3, <2>4 DEF Requeue, Pause, Resume
<1>7. ASSUME NEW d \in Deleters, Requested(d) PROVE TypeOK'
  BY <1>0, <1>7 DEF Requested, Of, FirstOf
<1>8. ASSUME NEW d \in Deleters, Mark(d) PROVE TypeOK'
  <2>1. list[d] # {} => MinOf(list[d]) \in Snaps
    BY MinIn
  <2>2. cur' \in [Deleters -> Snaps]
    BY <1>8, <2>1 DEF Mark
  <2>3. row' \in [Snaps -> [status : Status, retry : Nat \cup {MAX}]]
    BY <1>0, <1>8 DEF Mark
  <2>4. pc' \in [Deleters -> Stages]
    BY <1>0, <1>8 DEF Mark
  <2>5. late' \subseteq Snaps
    BY <1>8, <2>1 DEF Mark
  <2> QED
    BY <1>8, <2>2, <2>3, <2>4, <2>5 DEF Mark
<1>9. ASSUME NEW d \in Deleters, Kill(d) PROVE TypeOK'
  BY <1>0, <1>9 DEF Kill
<1>10. ASSUME NEW d \in Deleters, Remove(d) PROVE TypeOK'
  <2>1. pc' \in [Deleters -> Stages]
    BY <1>0, <1>10 DEF Remove
  <2>2. list' \in [Deleters -> SUBSET Snaps]
    <3>1. \E left \in SUBSET Snaps : list' = [list EXCEPT ![d] = left] \/ list' = list
      BY <1>10 DEF Remove
    <3> QED
      BY <3>1
  <2>3. files' \subseteq Snaps
    BY <1>10 DEF Remove
  <2>4. cur' \in [Deleters -> Snaps] /\ lease' \in Nat /\ hooks' \in 0..MaxHooks
    BY <1>0, <1>10 DEF Remove, NULL
  <2> QED
    BY <1>10, <2>1, <2>2, <2>3, <2>4 DEF Remove
<1>11. ASSUME NEW d \in Deleters, DeleteRow(d) PROVE TypeOK'
  BY <1>0, <1>11 DEF DeleteRow
<1>12. ASSUME NEW d \in Deleters, Crash(d) PROVE TypeOK'
  BY <1>0, <1>12 DEF Crash
<1>13. ASSUME NEW s \in Snaps, AskDelete(s) PROVE TypeOK'
  BY <1>0, <1>13 DEF AskDelete, Attempted
<1>14. ASSUME NEW s \in Snaps, LoadCopy(s) PROVE TypeOK'
  BY <1>0, <1>14 DEF LoadCopy
<1>15. ASSUME NEW s \in Snaps, HookWrites(s) \/ HookEnds(s) PROVE TypeOK'
  BY <1>15 DEF HookWrites, HookEnds
<1> QED
  BY <1>1, <1>2, <1>3, <1>4, <1>5, <1>6, <1>7, <1>8, <1>9, <1>10, <1>11, <1>12, <1>13, <1>14, <1>15
  DEF Next, Runner, Delete

-----------------------------------------------------------------------------
(* What a step may do to a row: mark it, delete it once its deletion is    *)
(* that far, move it along if it is not to be deleted, or take it back     *)
(* with a copy loaded while it waited.                                     *)
TakenBack(s) == copy.snap = s /\ copy.status \in {"paused", "deleting"} /\ copy' = NoCopy

RowStep(s) ==
    \/ row'[s] = row[s]
    \/ row'[s] = [status |-> "deleting", retry |-> MAX] /\ row[s].status # "gone"
    \/ row'[s] = [status |-> "gone", retry |-> NULL] /\ \E d \in Deleters : pc[d] \in Rows /\ cur[d] = s
    \/ /\ row[s].status # "gone" /\ (row[s].status = "deleting" => TakenBack(s))
       /\ \/ row'[s].status \in {"queued", "started", "sealed"} /\ row'[s].retry # MAX
          \/ row'[s] = [status |-> "paused", retry |-> MAX]

LEMMA RowSteps ==
    ASSUME TypeOK, Parked, Next
    PROVE  \A s \in Snaps : RowStep(s)
<1> SUFFICES ASSUME NEW s \in Snaps PROVE RowStep(s)
  OBVIOUS
<1> USE DeletionAssumption DEF TypeOK, disk, run, Put, Stamp, RowStep, TakenBack, NULL, MAX
<1>1. CASE Claim
  BY <1>1 DEF Claim, Matches, Parked, MAX
<1>2. CASE Finish
  BY <1>2 DEF Finish, Matches, Parked, MAX
<1>3. CASE Requeue
  BY <1>3 DEF Requeue, Matches, Parked
<1>4. CASE Pause
  BY <1>4 DEF Pause, Parked
<1>5. CASE Resume
  BY <1>5 DEF Resume
<1>6. ASSUME NEW d \in Deleters, Mark(d) PROVE RowStep(s)
  BY <1>6 DEF Mark
<1>7. ASSUME NEW d \in Deleters, DeleteRow(d) PROVE RowStep(s)
  BY <1>7 DEF DeleteRow, Rows
<1>8. ASSUME NEW t \in Snaps, AskDelete(t) PROVE RowStep(s)
  BY <1>8 DEF AskDelete
<1>9. CASE UNCHANGED row
  BY <1>9
<1> QED
  BY <1>1, <1>2, <1>3, <1>4, <1>5, <1>6, <1>7, <1>8, <1>9
  DEF Next, Runner, Delete, Sweep, Pick, HookStarts, Requested, Kill, Remove, Crash, LoadCopy, HookWrites, HookEnds

LEMMA StepParked ==
    ASSUME TypeOK, Parked, Next
    PROVE  Parked'
<1>1. /\ \A s \in Snaps : row'[s].status = "deleting" => row'[s].retry = MAX
      /\ \A s \in Snaps : row'[s].retry = MAX => row'[s].status \in {"paused", "deleting"}
  <2> SUFFICES ASSUME NEW s \in Snaps
               PROVE  /\ row'[s].status = "deleting" => row'[s].retry = MAX
                      /\ row'[s].retry = MAX => row'[s].status \in {"paused", "deleting"}
    OBVIOUS
  <2>1. RowStep(s)
    BY RowSteps
  <2> QED
    BY <2>1 DEF RowStep, Parked, NULL, MAX
<1>2. /\ copy'.retry = MAX => copy'.status \in {"paused", "deleting"}
      /\ copy' # NoCopy => copy'.status # "gone"
  <2>1. CASE \E s \in Snaps : LoadCopy(s)
    BY <2>1 DEF LoadCopy, Parked
  <2>2. CASE Requeue \/ Pause \/ Resume
    BY <2>2 DEF Requeue, Pause, Resume, NoCopy, NULL, MAX
  <2>3. CASE UNCHANGED copy
    BY <2>3 DEF Parked
  <2> QED
    BY <2>1, <2>2, <2>3
    DEF Next, Runner, Delete, Sweep, Claim, Finish, Pick, HookStarts, Requested, Mark, Kill, Remove, DeleteRow, Crash,
        AskDelete, HookWrites, HookEnds
<1> QED
  BY <1>1, <1>2 DEF Parked

(* A capture begins on a row that is not to be deleted; one that begins    *)
(* beside a deletion, or the other way round, is noted in late.            *)
LEMMA StepCapture ==
    ASSUME TypeOK, Parked, CaptureKnown, Next
    PROVE  CaptureKnown' /\ late \subseteq late'
<1> USE DEF TypeOK, disk, run, Goto, Leave, CaptureKnown, Doomed, Deleted
<1>0. late \subseteq late'
  BY DEF Next, Runner, Delete, Sweep, Claim, Finish, Pick, HookStarts, Requeue, Pause, Resume, Requested, Mark, Kill,
         Remove, DeleteRow, Crash, AskDelete, LoadCopy, HookWrites, HookEnds
<1>1. CASE Claim
  BY <1>0, <1>1 DEF Claim, Put, Deleters
<1>2. CASE Finish
  BY <1>0, <1>2 DEF Finish, Deleters
<1>3. CASE Requeue \/ Pause \/ Resume
  BY <1>0, <1>3 DEF Requeue, Pause, Resume, Put, Deleters
<1>4. ASSUME NEW d \in Deleters, Mark(d) PROVE CaptureKnown'
  BY <1>0, <1>4, MinIn DEF Mark, Put, Attempted, Deleters
<1>5. ASSUME NEW d \in Deleters, DeleteRow(d) PROVE CaptureKnown'
  BY <1>0, <1>5 DEF DeleteRow, Put, Deleters
<1>6. ASSUME NEW s \in Snaps, AskDelete(s) PROVE CaptureKnown'
  BY <1>0, <1>6 DEF AskDelete, Put, Attempted, Deleters
<1>7. CASE Sweep \/ (\E s \in Snaps : Pick(s)) \/ \E d \in Deleters : Requested(d) \/ Kill(d) \/ Remove(d) \/ Crash(d)
  BY <1>0, <1>7 DEF Sweep, Pick, Requested, Kill, Remove, Crash, Deleters
<1>8. CASE HookStarts \/ \E s \in Snaps : LoadCopy(s) \/ HookWrites(s) \/ HookEnds(s)
  BY <1>0, <1>8 DEF HookStarts, LoadCopy, HookWrites, HookEnds
<1> QED
  BY <1>0, <1>1, <1>2, <1>3, <1>4, <1>5, <1>6, <1>7, <1>8 DEF Next, Runner, Delete

(* A deletion's steps, and what others do to the files meanwhile.          *)
LEMMA StepProgress ==
    ASSUME TypeOK, Parked, CaptureKnown, Progress, Next
    PROVE  Progress'
<1> USE DEF TypeOK, disk, run, Goto, Leave, Deleters
<1>0. late \subseteq late'
  BY StepCapture
<1> DEFINE Kept(d) == /\ pc'[d] \in Removes \cup Rows /\ cur'[d] \notin late' => cur'[d] \notin writer'
                      /\ pc'[d] \in Rows /\ cur'[d] \notin late' => cur'[d] \notin files'
<1> SUFFICES ASSUME NEW d \in Deleters PROVE Kept(d)
  BY DEF Progress, Past
<1>1. ASSUME pc'[d] = pc[d], cur'[d] = cur[d], writer' \subseteq writer \cup Attempted, files' \subseteq files \cup writer
      PROVE  Kept(d)
  <2>1. pc[d] \in Removes \cup Rows => cur[d] \in Deleted
    BY DEF Deleted, Removes, Rows
  <2>2. pc[d] \in Removes \cup Rows /\ cur[d] \notin late => cur[d] \notin writer \cup Attempted
    BY <2>1 DEF Progress, Past, Attempted, CaptureKnown
  <2>3. pc[d] \in Rows /\ cur[d] \notin late => cur[d] \notin files
    BY DEF Progress, Past
  <2> QED
    BY <1>0, <1>1, <2>2, <2>3
<1>2. CASE Mark(d)
  BY <1>2 DEF Mark, Removes, Rows
<1>3. CASE Kill(d)
  BY <1>3 DEF Kill, Removes, Rows
<1>4. CASE Remove(d)
  BY <1>0, <1>4 DEF Remove, Progress, Past, Removes, Rows
<1>5. CASE Requested(d) \/ DeleteRow(d) \/ Crash(d)
  BY <1>5 DEF Requested, DeleteRow, Crash, Removes, Rows
<1>6. CASE d = "runner" /\ (Sweep \/ Claim \/ Finish \/ \E s \in Snaps : Pick(s))
  BY <1>6 DEF Sweep, Claim, Finish, Pick, Removes, Rows
<1>7. CASE d # "runner" /\ (Sweep \/ Claim \/ Finish \/ \E s \in Snaps : Pick(s))
  BY <1>1, <1>7 DEF Sweep, Claim, Finish, Pick
<1>8. CASE \E e \in Deleters \ {d} : Delete(e) \/ Crash(e)
  BY <1>1, <1>8 DEF Delete, Requested, Mark, Kill, Remove, DeleteRow, Crash
<1>9. CASE HookStarts \/ Requeue \/ Pause \/ Resume
           \/ \E s \in Snaps : AskDelete(s) \/ LoadCopy(s) \/ HookWrites(s) \/ HookEnds(s)
  BY <1>1, <1>9 DEF HookStarts, Requeue, Pause, Resume, AskDelete, LoadCopy, HookWrites, HookEnds, Attempted
<1> QED
  BY <1>2, <1>3, <1>4, <1>5, <1>6, <1>7, <1>8, <1>9 DEF Next, Runner, Delete

(* A row that goes has no files and no writer, and neither come back.      *)
LEMMA StepGone ==
    ASSUME TypeOK, Parked, CaptureKnown, Progress, GoneQuiet, Next
    PROVE  GoneQuiet'
<1> USE DEF TypeOK, disk, run, Goto, Deleters
<1> SUFFICES ASSUME NEW s \in Snaps, s \notin late', row'[s].status = "gone"
             PROVE  s \notin files' \cup writer'
  BY DEF GoneQuiet
<1>0. s \notin late
  BY StepCapture
<1>1. s \notin files \cup writer /\ (Doomed(s) \/ s \in Deleted)
  <2>1. RowStep(s)
    BY RowSteps
  <2>2. CASE row[s].status = "gone"
    BY <1>0, <2>2 DEF GoneQuiet, Doomed
  <2>3. CASE \E d \in Deleters : pc[d] \in Rows /\ cur[d] = s
    BY <1>0, <2>3 DEF Progress, Past, Deleted, Rows
  <2> QED
    BY <2>1, <2>2, <2>3 DEF RowStep
<1>2. s \notin Attempted
  BY <1>0, <1>1 DEF Attempted, CaptureKnown
<1>3. files' \subseteq files \cup writer /\ writer' \subseteq writer \cup Attempted
  BY DEF Next, Runner, Delete, Sweep, Claim, Finish, Pick, HookStarts, Requeue, Pause, Resume, Requested, Mark, Kill,
         Remove, DeleteRow, Crash, AskDelete, LoadCopy, HookWrites, HookEnds, Attempted
<1> QED
  BY <1>1, <1>2, <1>3

LEMMA NextIInv == IInv /\ [Next]_vars => IInv'
<1>1. CASE UNCHANGED vars
  BY <1>1 DEF IInv, TypeOK, Parked, CaptureKnown, Progress, GoneQuiet, Doomed, Deleted, Past, vars, disk, run
<1>2. CASE Next
  BY <1>2, StepTyped, StepParked, StepCapture, StepProgress, StepGone DEF IInv
<1> QED
  BY <1>1, <1>2

-----------------------------------------------------------------------------
(* The inductive invariant.                                                *)
THEOREM Invariance == Spec => []IInv
BY InitIInv, NextIInv, PTL DEF Spec

(* Where no capture was under way during the deletion, a row that is gone  *)
(* has left no file (Snapshot.delete, core/models.py): no hook process,    *)
(* runner, user or second deleter brings one back.                         *)
THEOREM GoneCleanAlways == Spec => []GoneClean
<1>1. IInv => GoneClean
  BY DEF IInv, GoneQuiet, GoneClean
<1> QED
  BY <1>1, Invariance, PTL

(* A row to be deleted becomes nothing else but gone by what the scheduler *)
(* or a completion writes, nor by a copy from when the row ran: only by a  *)
(* user's copy from when it waited at RETRY_AT_MAX.                        *)
THEOREM DeletionStandsAlways == Spec => DeletionStands
<1> DEFINE Stands == \A s \in Snaps :
                       /\ row[s].status = "gone" => row'[s].status = "gone"
                       /\ row[s].status = "deleting" /\ row'[s].status \notin {"deleting", "gone"} => TakenBack(s)
<1>1. IInv /\ Next => Stands
  BY RowSteps DEF IInv, RowStep
<1>2. IInv /\ [Next]_vars => [Stands]_vars
  BY <1>1
<1> QED
  BY <1>2, Invariance, PTL DEF Spec, DeletionStands, TakenBack
=============================================================================
