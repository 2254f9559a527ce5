------------------------- MODULE CrawlSystem_proofs --------------------------
(***************************************************************************)
(* Proofs about CrawlSystem, for every crawl, set of snapshots, number of  *)
(* slots, choice of commands and number of deaths, but for what a theorem  *)
(* says it assumes:                                                        *)
(*  - the variables keep their types, and unfinished work is never out of  *)
(*    the queue (TypeCorrect, NeverForgottenAlways, SnapshotsTimed);       *)
(*  - the runner does not overrule the user, and the documented state      *)
(*    diagrams are implemented (RunnerRespectsUser, UserDecidesAlways,     *)
(*    FollowsDiagramAlways, FollowsDocumentAlways);                        *)
(*  - no snapshot is attempted beside its own running hooks, or sealed     *)
(*    without an attempt, and the runner seals a crawl that is finished    *)
(*    (OneAttemptAlways, NoWorkLostAlways, RunnerSealsFinished).           *)
(*                                                                         *)
(* A row loses its retry_at by two kinds of write: those that write sealed *)
(* in the same UPDATE, and the runner's cleanup, which writes NULL with    *)
(* the status the row has.  The latter is safe because the cleanup matches *)
(* the retry_at of its own claim, which it took when the crawl was sealed, *)
(* and every later write of the row would have changed it.  A row gets an  *)
(* active status without a new retry_at in finalize_run_state alone, which *)
(* matches the retry_at it read from a crawl in the queue.  RunInv says    *)
(* what the runner therefore knows of its copy at those statements.        *)
(*                                                                         *)
(* The later theorems rest on three lemmas about any step: EveryStep names *)
(* what it does to the statuses (RunnerMove, UserMove) and keeps what the  *)
(* runner, its tasks and the command know (KInv); Turns names who took it, *)
(* and what leads to the statements that matter.  Each of them adds an     *)
(* invariant of its own: Closed, Launching, Finishing, Unfollowed.         *)
(***************************************************************************)
EXTENDS CrawlSystem, FiniteSetTheorems, WellFoundedInduction, TLAPS

(* The variables are records of these shapes.                              *)
RunTyped(r) ==
    /\ r = [at |-> r.at, pass |-> r.pass, on |-> r.on, copy |-> r.copy, parent |-> r.parent,
            ids |-> r.ids, explicit |-> r.explicit, stop |-> r.stop]
    /\ r.pass \in Nat \ {0} /\ r.on \in Rows \cup {NoRow} /\ r.copy \in Copies
    /\ r.ids \subseteq Snaps

TaskTyped(t) ==
    /\ t = [at |-> t.at, own |-> t.own, copy |-> t.copy, loaded |-> t.loaded,
            sealed |-> t.sealed]
    /\ t.own \in Retries \cup {Nobody} /\ t.copy \in Copies

CmdTyped(c) ==
    /\ c = [at |-> c.at, on |-> c.on, copy |-> c.copy, seen |-> c.seen]
    /\ c.on \in Rows \cup {NoRow} /\ c.copy \in Copies

RowTypes ==
    row \in [Rows -> Copies] /\ due \subseteq {r \in Rows : row[r].retry \in Stamps}

RowInv == RowTypes /\ NeverForgotten /\ Status(Crawl) # Absent

(* Where the runner handles a snapshot, and where it handles the crawl.    *)
OnSnap == {"snapshot_load", "reconcile_claim", "reconcile_recheck", "maintenance_claim",
           "maintenance_check", "maintenance_load", "maintenance", "admit",
           "snapshot_claim", "snapshot_refresh", "start"}
OnCrawl == {"crawl_load", "cleanup_claim", "cleanup"}

(* Where the recovery leads it.                                            *)
Recovering ==
    {"recover_crawl", "recover_queued", "recover_upload_crawl", "recover_uploads",
     "recover_started", "recover_parent", "idle"}

RunInv ==
    /\ RunTyped(run)
    /\ run.at \in OnSnap => run.on \in Snaps
    /\ run.at \in OnCrawl => run.on = Crawl
    /\ run.at \in {"cleanup_claim", "cleanup"} =>
          (run.copy.retry \in Stamps /\ Same(Crawl, run.copy) => Status(Crawl) = Sealed)
    /\ At("cleanup") => run.copy.retry \in Stamps
    /\ At("finalize_requeue") => run.copy.retry # NULL

TaskInv ==
    /\ task = [s \in Snaps |-> task[s]] /\ \A s \in Snaps : TaskTyped(task[s])
    /\ hooks \subseteq Snaps

CmdInv ==
    /\ CmdTyped(cmd)
    /\ cmd.at \in {"snapshot_resume_row", "queue_row", "upload_read", "upload_row"} =>
          cmd.on \in Rows

(* Without uploads there are the server's results only.                    *)
ResInv ==
    /\ results \in [Snaps -> SUBSET {"upload", "server"}]
    /\ "upload" \notin Commands => \A s \in Snaps : "upload" \notin results[s]

IInv == RowInv /\ RunInv /\ TaskInv /\ CmdInv /\ ResInv

(* What one step may do to a row: leave it, or give it a status and a      *)
(* retry_at that no copy carries, RETRY_AT_MAX, or, once it is sealed,     *)
(* none.  finalize_run_state alone changes a status and keeps the retry_at.*)
RowStep(r) ==
    /\ row'[r].status \in Open \cup {Sealed} \/ row'[r].status = row[r].status
    /\ \/ row'[r] = row[r]
       \/ row'[r].retry \in Stamps /\ row'[r].retry \notin Remembered(r)
       \/ row'[r].retry = RETRY_AT_MAX
       \/ row'[r].retry = NULL /\ row'[r].status = Sealed
       \/ /\ r = Crawl /\ At("finalize_requeue") /\ run'.at # run.at
          /\ row'[r].retry = row[r].retry /\ row[r].retry = run.copy.retry

RowsStep == RowTypes' /\ \A r \in Rows : RowStep(r)

-----------------------------------------------------------------------------
(* A new timestamp is one that no copy of the row carries: five values at  *)
(* most are in use, and there are six.                                     *)
LEMMA FreshIsNew ==
    ASSUME NEW r
    PROVE  Fresh(r) \in Stamps /\ Fresh(r) \notin Remembered(r)
<1> DEFINE used == {row[r].retry} \cup Remembered(r)
<1> DEFINE T == {n \in Stamps : n \notin used}
<1>0. T \in SUBSET Nat
  BY StampAssumption DEF Stamps
<1>1. T # {}
  <2>1. \E a, b, c, d, e : used \subseteq {a, b, c, d, e}
    <3>1. used \subseteq {row[r].retry, run.copy.retry, cmd.copy.retry, task[r].own,
                          task[r].copy.retry}
      BY DEF Remembered
    <3> QED
      BY <3>1
  <2>2. PICK a, b, c, d, e : used \subseteq {a, b, c, d, e}
    BY <2>1
  <2>3. \E n \in 1..6 : n \notin {a, b, c, d, e}
    OBVIOUS
  <2> QED
    BY <2>2, <2>3, StampAssumption DEF Stamps
<1>2. PICK n \in T : \A m \in T : ~(<<m, n>> \in OpToRel(<, Nat))
  BY <1>0, <1>1, NatLessThanWellFounded, WFMin
<1>3. \A m \in T : ~(m < n)
  BY <1>0, <1>2 DEF OpToRel
<1>4. n \in Stamps /\ n \notin used /\ \A m \in 1..(n - 1) : m \in used
  BY <1>3, StampAssumption DEF Stamps
<1> QED
  BY <1>4 DEF Fresh

(* What code writes to retry_at.                                           *)
LEMMA RetryAtIs ==
    ASSUME NEW r
    PROVE  /\ RetryAt(r, "none") = NULL /\ RetryAt(r, "max") = RETRY_AT_MAX
           /\ RetryAt(r, "now") \in Stamps /\ RetryAt(r, "now") \notin Remembered(r)
           /\ RetryAt(r, "later") \in Stamps /\ RetryAt(r, "later") \notin Remembered(r)
           /\ NULL \notin Stamps /\ RETRY_AT_MAX \notin Stamps
<1>1. Fresh(r) \in Stamps /\ Fresh(r) \notin Remembered(r)
  BY FreshIsNew
<1>2. /\ RetryAt(r, "none") = NULL /\ RetryAt(r, "max") = RETRY_AT_MAX
      /\ RetryAt(r, "now") = Fresh(r) /\ RetryAt(r, "later") = Fresh(r)
  BY Zenon DEF RetryAt
<1>3. NULL \notin Stamps /\ RETRY_AT_MAX \notin Stamps
  BY StampAssumption DEF NULL, RETRY_AT_MAX, Stamps
<1> QED
  BY <1>1, <1>2, <1>3

LEMMA Typed ==
    /\ NoCopy \in Copies /\ TaskTyped(NoTask) /\ CmdTyped(NoCommand)
    /\ RunTyped(Idle) /\ RunTyped(Down)
    /\ Idle.at = "idle" /\ Down.at = "down" /\ NoCommand.at = "none"
<1>1. NoCopy \in Copies
  BY DEF NoCopy, Copies, Retries
<1>2. TaskTyped(NoTask)
  BY <1>1 DEF NoTask, TaskTyped
<1>3. CmdTyped(NoCommand) /\ NoCommand.at = "none"
  BY <1>1 DEF NoCommand, CmdTyped
<1>4. RunTyped(Idle) /\ Idle.at = "idle"
  BY <1>1 DEF Idle, RunTyped
<1>5. RunTyped(Down) /\ Down.at = "down"
  BY <1>4 DEF Down, RunTyped
<1> QED
  BY <1>1, <1>2, <1>3, <1>4, <1>5

LEMMA NamesDiffer ==
    /\ Crawl \in Rows /\ Snaps \subseteq Rows /\ Roots \subseteq Snaps
    /\ \A s \in DOMAIN Kids : Kids[s] \subseteq Snaps
    /\ Queued \in Open /\ Started \in Open /\ Paused \in Open
BY DEF Rows, Snaps, Open

LEMMA NoRows ==
    ASSUME RowTypes, UNCHANGED <<row, due>>
    PROVE  RowsStep
BY DEF RowsStep, RowStep, RowTypes

(* The scheduler's statements write the rows as RowStep says.              *)
LEMMA ScheduleRows ==
    ASSUME IInv, Schedule
    PROVE  RowsStep
<1>0. RowTypes /\ RunInv /\ CmdInv
  BY DEF IInv, RowInv
<1> USE <1>0, RetryAtIs, RowAssumption, NamesDiffer
      DEF Set, Update, RowsStep, RowStep, RowTypes, Copies, Retries, Status
<1>1. CASE ReconcileClaim
  BY <1>1 DEF ReconcileClaim
<1>2. CASE ReconcileSeal
  BY <1>2 DEF ReconcileSeal
<1>3. CASE ReconcilePause
  BY <1>3 DEF ReconcilePause
<1>4. CASE RestoreMarker
  BY <1>4 DEF RestoreMarker
<1>5. CASE MaintenanceClaim
  BY <1>5 DEF MaintenanceClaim
<1>6. CASE Maintenance
  BY <1>6 DEF Maintenance, Maintained, RunInv, OnSnap, At
<1>7. CASE CrawlAdmit
  BY <1>7 DEF CrawlAdmit
<1>8. CASE SnapshotClaim
  BY <1>8 DEF SnapshotClaim
<1>9. CASE Start
  BY <1>9 DEF Start
<1>10. CASE RequeueLive
  BY <1>10 DEF RequeueLive
<1>11. CASE RequeueLiveCrawl
  BY <1>11 DEF RequeueLiveCrawl
<1>12. CASE CrawlExtend
  BY <1>12 DEF CrawlExtend
<1>13. CASE CrawlClaim
  BY <1>13 DEF CrawlClaim
<1>14. CASE Advance
  <2>1. CASE UNCHANGED <<row, due>>
    BY <2>1, NoRows
  <2>2. CASE Set(Crawl, Status(Crawl) = Queued, Started, "later")
    BY <2>2
  <2> QED
    BY <1>14, <2>1, <2>2 DEF Advance
<1>15. CASE Seal
  BY <1>15 DEF Seal
<1>16. CASE SealChildren
  BY <1>16 DEF SealChildren, WakeOpenChildren, With
<1>17. CASE CrawlUnlock
  BY <1>17 DEF CrawlUnlock, With
<1>18. CASE CrawlAgain
  BY <1>18 DEF CrawlAgain
<1>19. CASE CrawlWait
  BY <1>19 DEF CrawlWait
<1>20. CASE CleanupClaim
  BY <1>20 DEF CleanupClaim
<1>21. CASE Cleanup
  BY <1>21 DEF Cleanup, RunInv, At, Same, OnCrawl
<1>22. CASE UNCHANGED <<row, due>>
  BY <1>22, NoRows
<1> QED
  BY <1>1, <1>2, <1>3, <1>4, <1>5, <1>6, <1>7, <1>8, <1>9, <1>10, <1>11, <1>12, <1>13,
     <1>14, <1>15, <1>16, <1>17, <1>18, <1>19, <1>20, <1>21, <1>22 DEF Schedule, Pick,
     EndPass, SnapshotLoad, ReconcileRecheck, MaintenanceCheck, MaintenanceLoad, Admit,
     SnapshotRefresh, RequeueLiveRead, CrawlLoad, CrawlChildren, CrawlPending,
     CrawlNext, Reads

(* So do the phases of a run, ...                                          *)
LEMMA PhaseRows ==
    ASSUME IInv, RunPhases
    PROVE  RowsStep
<1>0. RowTypes /\ RunInv /\ CmdInv
  BY DEF IInv, RowInv
<1> USE <1>0, RetryAtIs, RowAssumption, NamesDiffer
      DEF Set, Update, RowsStep, RowStep, RowTypes, Copies, Retries, Status
<1>1. CASE CreateRoots
  BY <1>1 DEF CreateRoots
<1>2. CASE Setup
  BY <1>2 DEF Setup
<1>3. CASE StartEvent
  BY <1>3 DEF StartEvent
<1>4. CASE CleanupEvent
  BY <1>4 DEF CleanupEvent
<1>5. CASE CompletedWrite
  BY <1>5 DEF CompletedWrite
<1>6. CASE FinalizeSeal
  BY <1>6 DEF FinalizeSeal
<1>7. CASE FinalizeRequeue
  <2>1. run'.at \in {"idle", "down"}
    BY <1>7, Typed DEF FinalizeRequeue, Return, Idle
  <2> QED
    BY <1>7, <2>1 DEF FinalizeRequeue, Same, At
<1>8. CASE UNCHANGED <<row, due>>
  BY <1>8, NoRows
<1> QED
  BY <1>1, <1>2, <1>3, <1>4, <1>5, <1>6, <1>7, <1>8 DEF RunPhases, RunLoad, TasksDone,
     CompletedRead, FinalizeRead, Reads

(* ... the recovery, ...                                                   *)
LEMMA RecoverRows ==
    ASSUME IInv, Recover
    PROVE  RowsStep
<1>0. RowTypes /\ RunInv /\ CmdInv
  BY DEF IInv, RowInv
<1> USE <1>0, RetryAtIs, RowAssumption, NamesDiffer
      DEF Set, Update, RowsStep, RowStep, RowTypes, Copies, Retries, Status
<1>1. CASE Repair(1) /\ Update(Unqueued({Crawl}, {Queued}), Status, "now")
  BY <1>1 DEF Repair, Unqueued, With
<1>2. CASE Repair(2) /\ Update(Of(Runnable, Unqueued(Snaps, {Queued})), Status, "now")
  BY <1>2 DEF Repair, Unqueued, With, Of
<1>3. CASE Update(IF ExtensionOnly = {} THEN {} ELSE With({Crawl}, {Sealed}),
                  LAMBDA r : Started, "now")
  BY <1>3 DEF With
<1>4. CASE Update(Of({Queued, Started, Sealed}, ExtensionOnly), LAMBDA s : Queued, "now")
  BY <1>4 DEF ExtensionOnly, With, Of
<1>5. CASE Update(Unowned(Snaps) \ hooks, Status, "now")
  BY <1>5 DEF Unowned, With
<1>6. CASE Update(Unowned({Crawl}), Status, ParentRetry)
  BY <1>6 DEF Unowned, With, ParentRetry, NextRetry
<1> QED
  BY <1>1, <1>2, <1>3, <1>4, <1>5, <1>6 DEF Recover

(* ... the tasks and leases, ...                                           *)
LEMMA TaskRows ==
    ASSUME IInv, NEW s \in Snaps, TaskStep(s) \/ Lease(s)
    PROVE  RowsStep
<1>0. RowTypes /\ RunInv /\ CmdInv
  BY DEF IInv, RowInv
<1> USE <1>0, RetryAtIs, RowAssumption, NamesDiffer
      DEF Set, Update, RowsStep, RowStep, RowTypes, Copies, Retries, Status
<1>1. CASE StartProcessing(s)
  BY <1>1 DEF StartProcessing
<1>2. CASE Create(s)
  BY <1>2 DEF Create, Discovered, With
<1>3. CASE Finish(s)
  BY <1>3 DEF Finish
<1>4. CASE TaskMaintenance(s)
  BY <1>4 DEF TaskMaintenance, Maintained
<1>5. CASE LastSeal(s)
  BY <1>5 DEF LastSeal
<1>6. CASE LastWake(s)
  BY <1>6 DEF LastWake, WakeOpenChildren, With
<1>7. CASE RenewLease(s)
  BY <1>7 DEF RenewLease
<1>8. CASE HeartbeatCrawl
  BY <1>8 DEF HeartbeatCrawl
<1>9. CASE UNCHANGED <<row, due>>
  BY <1>9, NoRows
<1> QED
  BY <1>1, <1>2, <1>3, <1>4, <1>5, <1>6, <1>7, <1>8, <1>9 DEF TaskStep, Task, Lease,
     Enqueue, Payload, Event, HooksEnd, Completed, Project, After, Last

(* ... and the commands.                                                   *)
LEMMA CommandRows ==
    ASSUME IInv, Command
    PROVE  RowsStep
<1>0. RowTypes /\ RunInv /\ CmdInv
  BY DEF IInv, RowInv
<1> USE <1>0, RetryAtIs, RowAssumption, NamesDiffer
      DEF Set, Update, RowsStep, RowStep, RowTypes, Copies, Retries, Status
<1>1. CASE CrawlPauseRow
  BY <1>1 DEF CrawlPauseRow
<1>2. CASE \E s \in Snaps : CrawlPauseChild(s)
  BY <1>2 DEF CrawlPauseChild
<1>3. CASE CrawlResumeRow
  BY <1>3 DEF CrawlResumeRow
<1>4. CASE CrawlResumeChildren
  BY <1>4 DEF CrawlResumeChildren, With
<1>5. CASE CrawlCancel
  BY <1>5 DEF CrawlCancel, WakeOpenChildren, With
<1>6. CASE CrawlCancelRow
  BY <1>6 DEF CrawlCancelRow
<1>7. CASE AdminPause
  BY <1>7 DEF AdminPause
<1>8. CASE AdminResume
  BY <1>8 DEF AdminResume
<1>9. CASE SnapshotPauseRow
  BY <1>9 DEF SnapshotPauseRow
<1>10. CASE SnapshotResumeRow
  BY <1>10 DEF SnapshotResumeRow, CmdInv, Continue
<1>11. CASE SnapshotCancelRow
  BY <1>11 DEF SnapshotCancelRow
<1>12. CASE QueueRow
  BY <1>12 DEF QueueRow, CmdInv, Continue
<1>13. CASE QueueCrawl
  BY <1>13 DEF QueueCrawl
<1>14. CASE UploadRow
  BY <1>14 DEF UploadRow, CmdInv, Continue
<1>15. CASE UNCHANGED <<row, due>>
  BY <1>15, NoRows
<1> QED
  BY <1>1, <1>2, <1>3, <1>4, <1>5, <1>6, <1>7, <1>8, <1>9, <1>10, <1>11, <1>12, <1>13,
     <1>14, <1>15 DEF Command, OwnCommand, NextStatement, CrawlPause, CrawlPauseList, CrawlPauseEnd,
     CrawlResume, SnapshotPause, SnapshotResume, SnapshotCancel, QueueForExtraction,
     QueueReadCrawl, Upload, UploadRead

-----------------------------------------------------------------------------
LEMMA Returned ==
    ASSUME RunInv, NEW progress, Return(progress)
    PROVE  RunInv'
<1>1. CASE run' = Down
  BY <1>1, Typed DEF RunInv, OnSnap, OnCrawl, At
<1>2. CASE run' = [Idle EXCEPT !.pass = IF progress THEN 1 ELSE run.pass + 1]
  BY <1>2, Typed DEF RunInv, RunTyped, OnSnap, OnCrawl, At
<1> QED
  BY <1>1, <1>2 DEF Return

(* Every query of a pass selects rows of the crawl and its snapshots.      *)
LEMMA QueryRows ==
    ASSUME RunInv, FirstQuery # 0
    PROVE  FirstQuery \in 1..9 /\ Query(FirstQuery) \subseteq {Crawl} \cup Snaps
<1> DEFINE found == {i \in run.pass..9 : Query(i) # {}}
<1>1. found # {} /\ found \in SUBSET Nat
  BY DEF FirstQuery, RunInv, RunTyped
<1>2. PICK n \in found : \A m \in found : ~(<<m, n>> \in OpToRel(<, Nat))
  BY <1>1, NatLessThanWellFounded, WFMin
<1>3. \A m \in found : ~(m < n)
  BY <1>1, <1>2 DEF OpToRel
<1>4. FirstQuery \in found
  <2>1. \A m \in found : n <= m
    BY <1>1, <1>3
  <2> QED
    BY <1>1, <2>1 DEF FirstQuery
<1>5. FirstQuery \in 1..9
  BY <1>4 DEF RunInv, RunTyped
<1>6. \A i \in 1..9 : Query(i) \subseteq {Crawl} \cup Snaps
  BY DEF Query, Of, With, DueRunnable
<1> QED
  BY <1>5, <1>6

(* A step that leaves the runner where it is cannot make its copy match a  *)
(* row that has changed.                                                   *)
LEMMA RunKept ==
    ASSUME IInv, RowsStep, RunTyped(run'), run'.at = run.at, run'.on = run.on,
           run'.copy = run.copy
    PROVE  RunInv'
BY NamesDiffer, RetryAtIs DEF IInv, RowInv, RunInv, RowsStep, RowStep, RowTypes, Copies, At,
   Same, Status, OnCrawl, OnSnap, Remembered

(* A step that takes it to a statement RunInv says nothing of needs no     *)
(* argument.                                                               *)
LEMMA RunMoves ==
    ASSUME RunTyped(run'), run'.at \notin OnSnap \cup OnCrawl \cup {"finalize_requeue"}
    PROVE  RunInv'
BY DEF RunInv, At, OnCrawl

LEMMA SelectedSnaps ==
    ASSUME RunInv
    PROVE  Selected \subseteq Snaps
<1>1. run.ids \subseteq Snaps /\ DueRunnable \subseteq Snaps /\ Existing \subseteq Snaps
  BY DEF RunInv, RunTyped, DueRunnable, Existing, With
<1>2. Selected \in {{}, run.ids, DueRunnable, Existing}
  BY Zenon DEF Selected
<1> QED
  BY <1>1, <1>2

(* The scheduler keeps RunInv, ...                                         *)
LEMMA ScheduleRun ==
    ASSUME IInv, RowsStep, Schedule
    PROVE  RunInv'
<1>0. RowInv /\ RowTypes' /\ RunInv
  BY DEF IInv, RowsStep
<1> USE <1>0, Returned, Typed, NamesDiffer
      DEF RowInv, RunInv, RunTyped, RowTypes, OnSnap, OnCrawl, At, GoTo, GoOn, Reads, Same
<1>1. CASE Pick
  <2>1. PICK r \in Query(FirstQuery) :
           run' = [Idle EXCEPT !.at = IF r = Crawl THEN "crawl_load" ELSE "snapshot_load",
                               !.pass = FirstQuery, !.on = r]
    BY <1>1 DEF Pick
  <2>2. FirstQuery \in 1..9 /\ r \in {Crawl} \cup Snaps
    BY <1>1, <2>1, QueryRows DEF Pick
  <2>3. RunTyped(run')
    <3>1. FirstQuery \in Nat \ {0} /\ r \in Rows
      BY <2>2
    <3> HIDE <1>0
    <3> QED
      BY <2>1, <3>1
  <2>4. run'.on = r /\ run'.at = IF r = Crawl THEN "crawl_load" ELSE "snapshot_load"
    BY <2>1
  <2> QED
    BY <2>2, <2>3, <2>4
<1>2. CASE EndPass
  BY <1>2 DEF EndPass
<1>3. CASE SnapshotLoad
  <2>1. PICK at \in {"reconcile_claim", "restore_marker", "maintenance_claim", "admit"} :
           SnapshotTo(at) /\ Reads
    <3> HIDE <1>0
    <3> QED
      BY <1>3 DEF SnapshotLoad
  <2>2. run.on \in Snaps /\ row[run.on] \in Copies
    BY <1>3 DEF SnapshotLoad
  <2> QED
    BY <2>1, <2>2 DEF SnapshotTo, Status
<1>4. CASE ReconcileClaim
  BY <1>4 DEF ReconcileClaim
<1>5. CASE ReconcileRecheck
  <2>1. CASE Return(TRUE)
    BY <2>1
  <2>2. CASE ~Return(TRUE)
    <3>1. PICK at \in {"reconcile_seal", "reconcile_pause"} : GoOn(at, row[run.on])
      BY <1>5, <2>2 DEF ReconcileRecheck
    <3>2. row[run.on] \in Copies
      BY <1>5 DEF ReconcileRecheck
    <3> QED
      BY <3>1, <3>2
  <2> QED
    BY <2>1, <2>2
<1>6. CASE ReconcileSeal
  BY <1>6 DEF ReconcileSeal
<1>7. CASE ReconcilePause
  BY <1>7 DEF ReconcilePause
<1>8. CASE RestoreMarker
  BY <1>8 DEF RestoreMarker
<1>9. CASE MaintenanceClaim
  BY <1>9 DEF MaintenanceClaim
<1>10. CASE MaintenanceCheck
  BY <1>10 DEF MaintenanceCheck
<1>11. CASE MaintenanceLoad
  BY <1>11 DEF MaintenanceLoad
<1>12. CASE Maintenance
  BY <1>12 DEF Maintenance
<1>13. CASE Admit
  <2>1. CASE GoTo("snapshot_claim")
    BY <1>13, <2>1 DEF Admit
  <2>2. CASE GoTo("requeue_live")
    BY <2>2
  <2>3. CASE run' = [run EXCEPT !.at = "crawl_admit", !.on = Crawl, !.copy = row[Crawl]]
    BY <2>3
  <2> QED
    BY <1>13, <2>1, <2>2, <2>3 DEF Admit
<1>14. CASE CrawlAdmit
  BY <1>14 DEF CrawlAdmit
<1>15. CASE SnapshotClaim
  BY <1>15 DEF SnapshotClaim
<1>16. CASE SnapshotRefresh
  BY <1>16 DEF SnapshotRefresh
<1>17. CASE Start
  <2>1. CASE Return(TRUE)
    BY <2>1
  <2>2. CASE run' = [Idle EXCEPT !.at = "run_load", !.ids = {run.on}, !.explicit = TRUE]
    <3>1. {run.on} \subseteq Snaps
      BY <1>17 DEF Start
    <3>2. RunTyped(run') /\ run'.at = "run_load"
      BY <2>2, <3>1
    <3> QED
      BY <3>2, RunMoves
  <2> QED
    BY <1>17, <2>1, <2>2 DEF Start
<1>18. CASE RequeueLive
  <2>1. CASE Return(TRUE)
    BY <2>1
  <2>2. CASE GoOn("requeue_live_read", NoCopy)
    BY <2>2
  <2> QED
    BY <1>18, <2>1, <2>2 DEF RequeueLive
<1>19. CASE RequeueLiveRead
  BY <1>19 DEF RequeueLiveRead
<1>20. CASE RequeueLiveCrawl
  BY <1>20 DEF RequeueLiveCrawl
<1>21. CASE CrawlLoad
  BY <1>21 DEF CrawlLoad, Status
<1>22. CASE CrawlChildren
  <2>1. CASE Return(FALSE)
    BY <2>1
  <2>2. CASE ~Return(FALSE)
    <3>1. PICK at \in {"crawl_extend", "crawl_start", "crawl_pending"} : GoTo(at)
      BY <1>22, <2>2 DEF CrawlChildren
    <3> QED
      BY <3>1
  <2> QED
    BY <2>1, <2>2
<1>23. CASE CrawlPending
  BY <1>23 DEF CrawlPending
<1>24. CASE CrawlExtend
  BY <1>24 DEF CrawlExtend
<1>25. CASE CrawlClaim
  <2>1. CASE Return(FALSE)
    BY <2>1
  <2>2. CASE ~Return(FALSE)
    <3>1. PICK at \in {"advance", "advance_or_run"} : GoOn(at, row'[Crawl])
      BY <1>25, <2>2 DEF CrawlClaim
    <3> QED
      BY <3>1
  <2> QED
    BY <2>1, <2>2
<1>26. CASE Advance
  BY <1>26 DEF Advance
<1>27. CASE Seal
  BY <1>27 DEF Seal
<1>28. CASE SealChildren
  BY <1>28 DEF SealChildren
<1>29. CASE CrawlUnlock
  BY <1>29 DEF CrawlUnlock
<1>30. CASE CrawlAgain
  BY <1>30 DEF CrawlAgain
<1>31. CASE CrawlNext
  BY <1>31 DEF CrawlNext
<1>32. CASE CrawlWait
  BY <1>32 DEF CrawlWait
<1>33. CASE CleanupClaim
  <2>1. CASE Return(FALSE)
    BY <2>1
  <2>2. CASE ~Return(FALSE)
    <3>1. Same(Crawl, run.copy) /\ Crawl \in due /\ GoOn("cleanup", row'[Crawl])
      BY <1>33, <2>2 DEF CleanupClaim
    <3>2. Status(Crawl) = Sealed
      BY <1>33, <3>1 DEF CleanupClaim
    <3>3. row'[Crawl] \in Copies /\ row'[Crawl].status = Sealed /\ row'[Crawl].retry \in Stamps
      BY <1>33, <3>1, <3>2, RetryAtIs DEF CleanupClaim, Set, Update, Status
    <3>4. RunTyped(run') /\ run'.at = "cleanup" /\ run'.copy = row'[Crawl] /\ run'.on = Crawl
      BY <1>33, <3>1, <3>3 DEF CleanupClaim
    <3> QED
      BY <3>3, <3>4 DEF Status
  <2> QED
    BY <2>1, <2>2
<1>34. CASE Cleanup
  BY <1>34 DEF Cleanup
<1> QED
  BY <1>1, <1>2, <1>3, <1>4, <1>5, <1>6, <1>7, <1>8, <1>9, <1>10, <1>11, <1>12, <1>13,
     <1>14, <1>15, <1>16, <1>17, <1>18, <1>19, <1>20, <1>21, <1>22, <1>23, <1>24, <1>25,
     <1>26, <1>27, <1>28, <1>29, <1>30, <1>31, <1>32, <1>33, <1>34 DEF Schedule

(* ... the phases of a run do, ...                                         *)
LEMMA PhaseRun ==
    ASSUME IInv, RowsStep, RunPhases \/ Watch \/ Interrupt
    PROVE  RunInv'
<1>0. RowInv /\ RowTypes' /\ RunInv
  BY DEF IInv, RowsStep
<1> USE <1>0, Returned, Typed, NamesDiffer
      DEF RowInv, RunInv, RunTyped, RowTypes, OnSnap, OnCrawl, At, GoTo, GoOn, Reads, Same
<1>1. CASE RunLoad
  <2>1. CASE GoTo(IF Existing = {} /\ Status(Crawl) \in Runnable THEN "create_roots"
                                                                 ELSE "finalize_read")
    BY <2>1
  <2>2. CASE \E s \in FirstOf(Selected) :
            run' = [run EXCEPT !.at = "setup", !.ids = {s}, !.on = NoRow, !.copy = NoCopy,
                               !.parent = Reload]
    <3>1. PICK s \in FirstOf(Selected) :
            run' = [run EXCEPT !.at = "setup", !.ids = {s}, !.on = NoRow, !.copy = NoCopy,
                               !.parent = Reload]
      BY <2>2
    <3>2. {s} \subseteq Snaps
      BY SelectedSnaps DEF FirstOf
    <3>3. RunTyped(run') /\ run'.at = "setup"
      BY <3>1, <3>2
    <3> QED
      BY <3>3, RunMoves
  <2> QED
    BY <1>1, <2>1, <2>2 DEF RunLoad
<1>2. CASE CreateRoots
  <2>1. PICK s \in Roots : run' = [run EXCEPT !.at = "setup", !.ids = {s}]
    BY <1>2 DEF CreateRoots
  <2>2. RunTyped(run') /\ run'.at = "setup"
    BY <2>1
  <2> QED
    BY <2>2, RunMoves
<1>3. CASE Setup
  BY <1>3 DEF Setup
<1>4. CASE StartEvent
  BY <1>4 DEF StartEvent
<1>5. CASE TasksDone
  BY <1>5 DEF TasksDone
<1>6. CASE CleanupEvent
  BY <1>6 DEF CleanupEvent
<1>7. CASE CompletedRead
  BY <1>7 DEF CompletedRead
<1>8. CASE CompletedWrite
  BY <1>8 DEF CompletedWrite
<1>9. CASE FinalizeRead
  <2>1. CASE Return(TRUE)
    BY <2>1
  <2>2. CASE ~Return(TRUE)
    <3>1. row[Crawl] \in Copies /\ row[Crawl].retry # NULL
      BY <1>9, <2>2 DEF FinalizeRead, Status, NeverForgotten, Runnable, Inactive, Copies, Open
    <3>2. PICK at \in {"finalize_requeue", "seal", "finalize_seal"} :
            run' = [run EXCEPT !.on = Crawl, !.copy = row[Crawl], !.ids = {}, !.at = at]
      BY <1>9, <2>2 DEF FinalizeRead
    <3>3. RunTyped(run') /\ run'.at = at /\ run'.copy = row[Crawl]
      BY <3>1, <3>2
    <3> QED
      BY <3>1, <3>3
  <2> QED
    BY <2>1, <2>2
<1>10. CASE FinalizeSeal
  BY <1>10 DEF FinalizeSeal
<1>11. CASE FinalizeRequeue
  BY <1>11 DEF FinalizeRequeue
<1>12. CASE Watch
  BY <1>12 DEF Watch, Watched
<1>13. CASE Interrupt
  BY <1>13 DEF Interrupt, Watched
<1> QED
  BY <1>1, <1>2, <1>3, <1>4, <1>5, <1>6, <1>7, <1>8, <1>9, <1>10, <1>11, <1>12, <1>13
     DEF RunPhases

(* ... and so do the recovery and its beginnings.                          *)
LEMMA RecoverRun ==
    ASSUME IInv, RowsStep, Recover \/ IdleRecovery \/ Restart
    PROVE  RunInv'
<1>0. RunInv
  BY DEF IInv
<1>1. CASE Recover
  <2>1. PICK at \in Recovering : GoTo(at)
    BY <1>1 DEF Recover, Repair, Repairs, Recovering
  <2>2. RunTyped(run') /\ run'.at = at
    BY <1>0, <2>1 DEF GoTo, RunInv, RunTyped
  <2> QED
    BY <2>2, RunMoves DEF OnSnap, OnCrawl, Recovering
<1>2. CASE IdleRecovery \/ Restart
  <2>1. run' = [Idle EXCEPT !.at = "recover_crawl"]
    BY <1>2 DEF IdleRecovery, Restart, Repairs
  <2>2. RunTyped(run') /\ run'.at = "recover_crawl"
    BY <2>1, Typed DEF RunTyped
  <2> QED
    BY <2>2, RunMoves DEF OnSnap, OnCrawl
<1> QED
  BY <1>1, <1>2

(* A task keeps its type when its fields change within theirs.             *)
LEMMA TaskChanges ==
    ASSUME TaskInv, NEW s \in Snaps, NEW t, TaskTyped(t), task' = [task EXCEPT ![s] = t],
           hooks' \subseteq Snaps
    PROVE  TaskInv'
<1>1. \A r \in Snaps : task'[r] = IF r = s THEN t ELSE task[r]
  BY DEF TaskInv
<1>2. task' = [r \in Snaps |-> task'[r]]
  BY DEF TaskInv
<1>3. \A r \in Snaps : TaskTyped(task'[r])
  BY <1>1 DEF TaskInv
<1> QED
  BY <1>2, <1>3 DEF TaskInv, TaskTyped

LEMMA TaskMoves ==
    ASSUME TaskInv, NEW s \in Snaps, NEW at, TaskTo(s, at), hooks' \subseteq Snaps
    PROVE  TaskInv'
<1>1. PICK t : t = [task[s] EXCEPT !.at = at]
  OBVIOUS
<1>2. TaskTyped(t)
  BY <1>1 DEF TaskInv, TaskTyped
<1>3. task' = [task EXCEPT ![s] = t]
  BY <1>1 DEF TaskTo
<1> QED
  BY <1>2, <1>3, TaskChanges

(* The tasks keep their types, ...                                         *)
LEMMA TasksKept ==
    ASSUME IInv, RowsStep, NEW s \in Snaps, TaskStep(s) \/ Lease(s)
    PROVE  TaskInv'
<1>0. RowTypes /\ RowTypes' /\ TaskInv /\ TaskTyped(task[s])
  BY DEF IInv, RowInv, RowsStep, TaskInv
<1>a. /\ row[s] \in Copies /\ row'[s] \in Copies
      /\ row[s].retry \in Retries /\ row'[s].retry \in Retries
  BY <1>0, NamesDiffer DEF RowTypes, Copies
<1>b. hooks \subseteq Snaps
  BY <1>0 DEF TaskInv
<1> USE <1>0, <1>a, <1>b, Typed
<1>1. CASE Enqueue(s)
  BY <1>1, TaskMoves DEF Enqueue, TaskTo
<1>2. CASE Payload(s)
  <2>1. PICK t : t = [task[s] EXCEPT !.at = "event", !.loaded = Status(s) = Sealed]
    OBVIOUS
  <2>2. TaskTyped(t)
    BY <2>1 DEF TaskTyped
  <2>3. task' = [task EXCEPT ![s] = t] /\ hooks' \subseteq Snaps
    BY <1>2, <2>1 DEF Payload
  <2> QED
    BY <2>2, <2>3, TaskChanges
<1>3. CASE Event(s)
  <2>1. PICK t : t = IF Status(s) = Queued
                     THEN [task[s] EXCEPT !.at = "start", !.copy = row[s]]
                     ELSE [task[s] EXCEPT !.at = "hooks", !.sealed = Status(s) = Sealed,
                             !.own = IF Status(s) = Paused THEN @ ELSE row[s].retry]
    OBVIOUS
  <2>2. TaskTyped(t)
    BY <2>1 DEF TaskTyped
  <2>3. task' = [task EXCEPT ![s] = t] /\ hooks' \subseteq Snaps
    BY <1>3, <2>1 DEF Event, Launch
  <2> QED
    BY <2>2, <2>3, TaskChanges
<1>4. CASE StartProcessing(s)
  <2>1. PICK t : t = [task[s] EXCEPT !.at = "hooks", !.own = row'[s].retry, !.copy = NoCopy]
    OBVIOUS
  <2>2. TaskTyped(t)
    BY <2>1 DEF TaskTyped
  <2>3. task' = [task EXCEPT ![s] = t] /\ hooks' \subseteq Snaps
    BY <1>4, <2>1 DEF StartProcessing, Launch
  <2> QED
    BY <2>2, <2>3, TaskChanges
<1>5. CASE HooksEnd(s)
  BY <1>5, TaskMoves DEF HooksEnd, HooksStop
<1>6. CASE RenewLease(s)
  <2>1. CASE TaskEnd(s)
    BY <1>6, <2>1, TaskChanges DEF RenewLease, HooksStop, TaskEnd
  <2>2. CASE ~TaskEnd(s)
    <3>1. PICK t : t = [task[s] EXCEPT !.own = row'[s].retry]
      OBVIOUS
    <3>2. TaskTyped(t)
      BY <3>1 DEF TaskTyped
    <3>3. task' = [task EXCEPT ![s] = t] /\ hooks' \subseteq Snaps
      BY <1>6, <2>2, <3>1 DEF RenewLease
    <3> QED
      BY <3>2, <3>3, TaskChanges
  <2> QED
    BY <2>1, <2>2
<1>7. CASE HeartbeatCrawl
  BY <1>7 DEF HeartbeatCrawl, TaskInv
<1>8. CASE Completed(s)
  <2>1. CASE TaskTo(s, "after")
    BY <1>8, <2>1, TaskMoves, TaskChanges DEF Completed, TaskEnd
  <2>2. CASE ~(TaskTo(s, "after"))
    <3>1. PICK t : t = [task[s] EXCEPT !.at = "project", !.copy = row[s]]
      OBVIOUS
    <3>2. TaskTyped(t)
      BY <3>1 DEF TaskTyped
    <3>3. task' = [task EXCEPT ![s] = t] /\ hooks' \subseteq Snaps
      BY <1>8, <2>2, <3>1 DEF Completed
    <3> QED
      BY <3>2, <3>3, TaskChanges
  <2> QED
    BY <2>1, <2>2
<1>9. CASE Project(s)
  BY <1>9, TaskMoves DEF Project
<1>10. CASE Create(s)
  BY <1>10, TaskMoves DEF Create
<1>11. CASE Finish(s)
  <2>1. PICK t : t = [NoTask EXCEPT !.at = "after", !.loaded = task[s].loaded]
    OBVIOUS
  <2>2. TaskTyped(t)
    BY <2>1, Typed DEF TaskTyped
  <2>3. task' = [task EXCEPT ![s] = t] /\ hooks' \subseteq Snaps
    BY <1>11, <2>1 DEF Finish
  <2> QED
    BY <2>2, <2>3, TaskChanges
<1>12. CASE After(s)
  <2>1. CASE TaskEnd(s) \/ TaskTo(s, "project_again")
    BY <1>12, <2>1, TaskMoves, TaskChanges DEF After, TaskEnd
  <2>2. CASE task' = [task EXCEPT ![s].at = "maintenance", ![s].copy = row[s]]
    <3>1. PICK t : t = [task[s] EXCEPT !.at = "maintenance", !.copy = row[s]]
      OBVIOUS
    <3>2. TaskTyped(t)
      BY <3>1 DEF TaskTyped
    <3>3. task' = [task EXCEPT ![s] = t] /\ hooks' \subseteq Snaps
      BY <1>12, <2>2, <3>1 DEF After
    <3> QED
      BY <3>2, <3>3, TaskChanges
  <2> QED
    BY <1>12, <2>1, <2>2 DEF After
<1>13. CASE TaskMaintenance(s)
  BY <1>13, TaskChanges, Typed DEF TaskMaintenance, TaskEnd
<1>14. CASE Last(s)
  BY <1>14, TaskMoves, TaskChanges, Typed DEF Last, TaskEnd
<1>15. CASE LastSeal(s)
  BY <1>15, TaskMoves, TaskChanges, Typed DEF LastSeal, TaskEnd
<1>16. CASE LastWake(s)
  BY <1>16, TaskChanges, Typed DEF LastWake, TaskEnd
<1> QED
  BY <1>1, <1>2, <1>3, <1>4, <1>5, <1>6, <1>7, <1>8, <1>9, <1>10, <1>11, <1>12, <1>13,
     <1>14, <1>15, <1>16 DEF TaskStep, Task, Lease

(* ... and leave the runner where it is.                                   *)
LEMMA TasksRun ==
    ASSUME IInv, RowsStep, NEW s \in Snaps, TaskStep(s) \/ Lease(s)
    PROVE  RunInv'
<1>0. RunInv
  BY DEF IInv
<1>1. CASE Enqueue(s)
  BY <1>1, <1>0, RunKept DEF Enqueue, RunInv, RunTyped
<1>2. CASE Payload(s)
  BY <1>2, <1>0, RunKept DEF Payload, RunInv, RunTyped
<1>3. CASE RenewLease(s)
  BY <1>3, <1>0, RunKept DEF RenewLease, RunInv, RunTyped
<1>4. CASE UNCHANGED run
  BY <1>4, <1>0, RunKept DEF RunInv
<1> QED
  BY <1>1, <1>2, <1>3, <1>4 DEF TaskStep, Task, Lease, Event, StartProcessing, HooksEnd,
     HeartbeatCrawl, Completed, Project, Create, Finish, After, TaskMaintenance, Last,
     LastSeal, LastWake

(* The commands keep CmdInv.                                               *)
LEMMA CommandKept ==
    ASSUME IInv, RowsStep, Command
    PROVE  CmdInv'
<1>0. RowTypes /\ CmdInv
  BY DEF IInv, RowInv
<1> USE <1>0, Typed, NamesDiffer DEF RowTypes, CmdInv, CmdTyped, Continue, Loaded, Finished
<1>1. CASE CrawlPause
  BY <1>1 DEF CrawlPause
<1>2. CASE CrawlPauseRow
  BY <1>2 DEF CrawlPauseRow
<1>3. CASE CrawlPauseList
  BY <1>3 DEF CrawlPauseList
<1>4. CASE \E s \in Snaps : CrawlPauseChild(s)
  BY <1>4 DEF CrawlPauseChild
<1>5. CASE CrawlPauseEnd
  BY <1>5 DEF CrawlPauseEnd
<1>6. CASE CrawlResume
  BY <1>6 DEF CrawlResume
<1>7. CASE CrawlResumeRow
  BY <1>7 DEF CrawlResumeRow
<1>8. CASE CrawlResumeChildren
  BY <1>8 DEF CrawlResumeChildren
<1>9. CASE CrawlCancel
  BY <1>9 DEF CrawlCancel
<1>10. CASE CrawlCancelRow
  BY <1>10 DEF CrawlCancelRow
<1>11. CASE AdminPause
  BY <1>11 DEF AdminPause
<1>12. CASE AdminResume
  BY <1>12 DEF AdminResume
<1>13. CASE \E s \in Snaps : SnapshotPause(s)
  BY <1>13 DEF SnapshotPause
<1>14. CASE SnapshotPauseRow
  BY <1>14 DEF SnapshotPauseRow
<1>15. CASE \E s \in Snaps : SnapshotResume(s)
  BY <1>15 DEF SnapshotResume
<1>16. CASE SnapshotResumeRow
  BY <1>16 DEF SnapshotResumeRow
<1>17. CASE \E s \in Snaps : SnapshotCancel(s)
  BY <1>17 DEF SnapshotCancel
<1>18. CASE SnapshotCancelRow
  BY <1>18 DEF SnapshotCancelRow
<1>19. CASE \E s \in Snaps : QueueForExtraction(s)
  BY <1>19 DEF QueueForExtraction
<1>20. CASE QueueRow
  BY <1>20 DEF QueueRow
<1>21. CASE QueueReadCrawl
  BY <1>21 DEF QueueReadCrawl
<1>22. CASE QueueCrawl
  BY <1>22 DEF QueueCrawl
<1>23. CASE \E s \in Snaps : Upload(s)
  BY <1>23 DEF Upload
<1>24. CASE UploadRead
  BY <1>24 DEF UploadRead
<1>25. CASE UploadRow
  BY <1>25 DEF UploadRow
<1> QED
  BY <1>1, <1>2, <1>3, <1>4, <1>5, <1>6, <1>7, <1>8, <1>9, <1>10, <1>11, <1>12, <1>13,
     <1>14, <1>15, <1>16, <1>17, <1>18, <1>19, <1>20, <1>21, <1>22, <1>23, <1>24, <1>25
     DEF Command, OwnCommand, NextStatement

-----------------------------------------------------------------------------
(* What RowStep allows keeps unfinished rows in the queue.                 *)
LEMMA RowsKept ==
    ASSUME IInv, RowsStep
    PROVE  RowInv'
<1>0. RowTypes' /\ \A r \in Rows : RowStep(r)
  BY DEF RowsStep
<1>1. NeverForgotten'
  <2> SUFFICES ASSUME NEW r \in Rows, row'[r].status \in Runnable, row'[r].retry = NULL
               PROVE  FALSE
    BY DEF NeverForgotten, Status
  <2>1. RowStep(r)
    BY <1>0
  <2>2. CASE row'[r] = row[r]
    BY <2>2 DEF IInv, RowInv, NeverForgotten, Status
  <2>3. CASE row'[r].retry \in Stamps \/ row'[r].retry = RETRY_AT_MAX
    BY <2>3 DEF Stamps, NULL, RETRY_AT_MAX
  <2>4. CASE row'[r].status = Sealed
    BY <2>4 DEF Runnable, Sealed, Queued, Started
  <2>5. CASE At("finalize_requeue") /\ row'[r].retry = run.copy.retry
    BY <2>5 DEF IInv, RunInv
  <2> QED
    BY <2>1, <2>2, <2>3, <2>4, <2>5 DEF RowStep
<1>2. (Status(Crawl) # Absent)'
  BY <1>0, NamesDiffer DEF RowStep, IInv, RowInv, Status, Open, Absent, Queued, Started,
     Paused, Sealed
<1> QED
  BY <1>0, <1>1, <1>2 DEF RowInv

(* A step of the runner leaves tasks, results and command alone.           *)
LEMMA RunnerLeaves ==
    ASSUME Runner(RunnerStep) \/ Runner(IdleRecovery) \/ Runner(Watch) \/ Signal
    PROVE  UNCHANGED <<task, hooks, results, cmd>>
<1>1. CASE Schedule
  BY <1>1 DEF Runner, Schedule, Pick, EndPass, SnapshotLoad, ReconcileClaim,
     ReconcileRecheck, ReconcileSeal, ReconcilePause, RestoreMarker, MaintenanceClaim,
     MaintenanceCheck, MaintenanceLoad, Maintenance, Admit, CrawlAdmit, SnapshotClaim,
     SnapshotRefresh, Start, RequeueLive, RequeueLiveRead, RequeueLiveCrawl, CrawlLoad,
     CrawlChildren, CrawlPending, CrawlExtend, CrawlClaim, Advance, Seal, SealChildren,
     CrawlUnlock, CrawlAgain, CrawlNext, CrawlWait, CleanupClaim, Cleanup, Reads, RowsOnly,
     RunnerStep, Signal
<1>2. CASE RunPhases
  BY <1>2 DEF Runner, RunPhases, RunLoad, CreateRoots, Setup, StartEvent, TasksDone,
     CleanupEvent, CompletedRead, CompletedWrite, FinalizeRead, FinalizeSeal, FinalizeRequeue,
     Reads, Aside, Signal
<1>3. CASE Recover \/ Restart \/ IdleRecovery \/ Watch \/ Signal
  BY <1>3 DEF Runner, Recover, RowsOnly, Restart, IdleRecovery, Watch, Signal, Interrupt, Reads
<1> QED
  BY <1>1, <1>2, <1>3 DEF Runner, RunnerStep

(* A step changes the results of one snapshot at most: an upload adds its  *)
(* own, an attempt the server's, which it may withdraw.                    *)
LEMMA ResultsKept ==
    ASSUME ResInv, [Next]_vars
    PROVE  ResInv'
<1>1. ASSUME NEW s \in Snaps, results' = [results EXCEPT ![s] = @ \cup {"upload"}],
             "upload" \in Commands
      PROVE  ResInv'
  BY <1>1 DEF ResInv
<1>2. ASSUME NEW s \in Snaps, Launch(s)
      PROVE  ResInv'
  BY <1>2 DEF Launch, ResInv
<1>3. ASSUME NEW s \in Snaps, NEW cancelled, HooksStop(s, cancelled)
      PROVE  ResInv'
  BY <1>3 DEF HooksStop, ResInv
<1>4. CASE UNCHANGED results
  BY <1>4 DEF ResInv
<1>5. CASE Runner(RunnerStep) \/ Runner(IdleRecovery) \/ Runner(Watch) \/ Signal
  BY <1>4, <1>5, RunnerLeaves
<1>6. ASSUME NEW s \in Snaps, Runner(TaskStep(s)) \/ Runner(Lease(s))
      PROVE  ResInv'
  BY <1>2, <1>3, <1>4, <1>6 DEF Runner, TaskStep, Lease, Task, Enqueue, Payload, Event,
     StartProcessing, HooksEnd, Completed, Project, Create, Finish, After, TaskMaintenance, Last,
     LastSeal, LastWake, RenewLease, HeartbeatCrawl
<1>7. CASE Command
  BY <1>1, <1>4, <1>7 DEF Command, Upload, Begin
<1> QED
  BY <1>4, <1>5, <1>6, <1>7 DEF Next, OrphanEnds, Die, LeaseExpires, vars

LEMMA Initially ==
    ASSUME Init
    PROVE  IInv
<1>1. RowInv
  BY RowAssumption, StampAssumption
     DEF Init, RowInv, RowTypes, NeverForgotten, Status, Copies, Retries, Stamps, Open,
        Rows, NoCopy,
         Absent, Queued, Started, Paused, Sealed, Runnable, NULL
<1>2. RunInv
  BY Typed DEF Init, RunInv, At, OnSnap, OnCrawl
<1>3. TaskInv
  BY Typed DEF Init, TaskInv
<1>4. CmdInv
  BY Typed DEF Init, CmdInv
<1>5. ResInv
  BY DEF Init, ResInv
<1> QED
  BY <1>1, <1>2, <1>3, <1>4, <1>5 DEF IInv

LEMMA Inductive ==
    ASSUME IInv, [Next]_vars
    PROVE  IInv'
<1>0. RowTypes /\ RowInv /\ RunInv /\ TaskInv /\ CmdInv /\ RunTyped(run)
  BY DEF IInv, RowInv, RunInv
<1>r. ResInv'
  BY ResultsKept DEF IInv
<1>1. ASSUME UNCHANGED <<task, hooks>>
      PROVE  TaskInv'
  BY <1>0, <1>1 DEF TaskInv
<1>2. ASSUME UNCHANGED cmd
      PROVE  CmdInv'
  BY <1>0, <1>2 DEF CmdInv
<1>3. ASSUME RowsStep, UNCHANGED run
      PROVE  RunInv'
  BY <1>0, <1>3, RunKept
<1>4. CASE Runner(RunnerStep) \/ Runner(IdleRecovery) \/ Runner(Watch) \/ Signal
  <2>1. UNCHANGED <<task, hooks, cmd>>
    BY <1>4, RunnerLeaves
  <2>2. RowsStep
    BY <1>0, <1>4, ScheduleRows, PhaseRows, RecoverRows, NoRows
       DEF Runner, RunnerStep, Restart, IdleRecovery, Watch, Signal, Interrupt, Reads
  <2>3. RunInv'
    BY <1>4, <2>2, ScheduleRun, PhaseRun, RecoverRun DEF Runner, RunnerStep, Signal
  <2> QED
    BY <1>1, <1>2, <2>1, <2>2, <2>3, RowsKept, <1>r DEF IInv
<1>5. ASSUME NEW s \in Snaps, Runner(TaskStep(s)) \/ Runner(Lease(s))
      PROVE  IInv'
  <2>1. RowsStep
    BY <1>5, TaskRows DEF Runner
  <2>2. RunInv' /\ TaskInv'
    BY <1>5, <2>1, TasksRun, TasksKept DEF Runner
  <2>3. CmdInv'
    BY <1>5, <1>2 DEF Runner
  <2> QED
    BY <2>1, <2>2, <2>3, RowsKept, <1>r DEF IInv
<1>6. ASSUME NEW s \in Snaps, OrphanEnds(s)
      PROVE  IInv'
  <2>1. RowsStep
    BY <1>0, <1>6, NoRows DEF OrphanEnds
  <2>2. TaskInv'
    BY <1>0, <1>6 DEF OrphanEnds, TaskInv
  <2> QED
    BY <1>2, <1>3, <1>6, <2>1, <2>2, RowsKept, <1>r DEF IInv, OrphanEnds
<1>7. CASE Command
  <2>1. RowsStep /\ UNCHANGED <<run, task, hooks>>
    BY <1>7, CommandRows DEF Command
  <2> QED
    BY <1>1, <1>3, <1>7, <2>1, CommandKept, RowsKept, <1>r DEF IInv
<1>8. CASE Die
  <2>1. RowsStep
    BY <1>0, <1>8, NoRows DEF Die
  <2>2. RunInv'
    BY <1>8, Typed, RunMoves DEF Die, OnSnap, OnCrawl
  <2>3. TaskInv'
    BY <1>0, <1>8, Typed DEF Die, TaskInv
  <2> QED
    BY <1>2, <1>8, <2>1, <2>2, <2>3, RowsKept, <1>r DEF IInv, Die
<1>9. ASSUME NEW r \in Rows, LeaseExpires(r)
      PROVE  IInv'
  <2>1. RowsStep
    BY <1>0, <1>9 DEF LeaseExpires, RowsStep, RowStep, RowTypes
  <2> QED
    BY <1>1, <1>2, <1>3, <1>9, <2>1, RowsKept, <1>r DEF IInv, LeaseExpires
<1>10. CASE UNCHANGED vars
  BY <1>0, <1>1, <1>2, <1>3, <1>10, NoRows, RowsKept, <1>r DEF vars, IInv
<1> QED
  BY <1>4, <1>5, <1>6, <1>7, <1>8, <1>9, <1>10 DEF Next

(* The invariant holds of every behaviour.                                 *)
THEOREM Invariance == Spec => []IInv
<1>1. Init => IInv
  BY Initially
<1>2. IInv /\ [Next]_vars => IInv'
  BY Inductive
<1> QED
  BY <1>1, <1>2, PTL DEF Spec

(* The variables hold values of their types, and only rows whose retry_at  *)
(* is a timestamp are due.                                                 *)
THEOREM TypeCorrect == Spec => []TypeOK
<1>1. IInv => TypeOK
  BY DEF IInv, RowInv, RowTypes, RunInv, RunTyped, TaskInv, TaskTyped, CmdInv, CmdTyped, ResInv,
     TypeOK
<1> QED
  BY <1>1, Invariance, PTL

(* No interleaving of commands, scheduler, tasks, projectors, deaths and   *)
(* recoveries leaves a queued or started row without a retry_at, which     *)
(* would hide it from the runner for ever.                                 *)
THEOREM NeverForgottenAlways == Spec => []NeverForgotten
<1>1. IInv => NeverForgotten
  BY DEF IInv, RowInv
<1> QED
  BY <1>1, Invariance, PTL
-----------------------------------------------------------------------------
(***************************************************************************)
(* What the steps do to the statuses, and what the runner, its tasks and   *)
(* the command therefore know.  Every write of a status is one of a few    *)
(* moves; RunnerMove and UserMove name them.                               *)
(***************************************************************************)
Stays == \A r \in Rows : Status(r)' = Status(r)

Moves(R, from, new) ==
    \A r \in Rows : IF r \in R THEN Status(r) \in from /\ Status(r)' = new
                               ELSE Status(r)' = Status(r)

(* The statements that create snapshots, and those that seal the crawl.    *)
CreatesRows == At("create_roots") \/ \E s \in Snaps : task[s].at \in DOMAIN Creating
SealsCrawl ==
    \/ run.at \in {"seal", "completed_seal", "finalize_seal"}
    \/ \E s \in Snaps : TaskAt(s, "last_seal")

(* The runner creates rows, starts, pauses or seals one that is runnable,  *)
(* seals a snapshot after it read its crawl sealed, or leaves the crawl's  *)
(* lease to the hooks of a dead runner; and its recovery opens the crawl   *)
(* and the snapshots that have nothing but uploads.                        *)
RunnerMove ==
    \/ Stays
    \/ CreatesRows /\ \E R \in SUBSET Snaps : Moves(R, {Absent}, Queued)
    \/ \E r \in Rows : Moves({r}, {Queued}, Started)
    \/ \E s \in Snaps : Moves({s}, Runnable, Paused)
    \/ SealsCrawl /\ Moves({Crawl}, Runnable, Sealed)
    \/ \E s \in Snaps : TaskAt(s, "finish") /\ Moves({s}, {Started}, Sealed)
    \/ /\ At("reconcile_seal") /\ run.parent = Sealed
       /\ \E s \in Snaps : Moves({s}, Open, Sealed)
    \/ At("requeue_live_crawl") /\ \E new \in Runnable : Moves({Crawl}, Open \cup {Sealed}, new)
    \/ At("recover_upload_crawl") /\ Unserved # {} /\ Moves({Crawl}, {Sealed}, Started)
    \/ At("recover_uploads") /\ Status(Crawl) # Paused /\ Moves(Unserved, {Sealed}, Queued)

(* A command pauses, resumes or cancels, or opens a row that is sealed.    *)
UserMove ==
    \/ Stays
    \/ \E r \in Rows : Moves({r}, Runnable, Paused)
    \/ \E R \in SUBSET Rows : Moves(R, {Paused}, Queued)
    \/ "cancel" \in Commands /\ Moves({Crawl}, Open, Sealed)
    \/ "snapshot_cancel" \in Commands /\ \E s \in Snaps : Moves({s}, Open, Sealed)
    \/ "admin_resume" \in Commands /\ Moves({Crawl}, Inactive, Queued)
    \/ "queue_for_extraction" \in Commands
         /\ \E r \in Rows : \E new \in Runnable : Moves({r}, Open \cup {Sealed}, new)

(* Where the runner handles a snapshot, where it holds a copy of the crawl *)
(* that it will write by compare-and-set, and where an active crawl is in  *)
(* the queue under a timestamp.                                            *)
HandlesSnap ==
    OnSnap \cup {"reconcile_seal", "reconcile_pause", "restore_marker", "requeue_live"}
Decided ==
    {"crawl_children", "crawl_pending", "crawl_unlock", "crawl_again", "crawl_next",
     "crawl_wait", "crawl_wait_max", "finalize_seal", "finalize_requeue"}
Timed ==
    {"crawl_load", "advance_or_run", "start_event", "tasks", "cleanup_event",
     "completed_read", "completed_seal", "completed_requeue", "finalize_read"}

SnapsTimed == \A s \in Snaps : Status(s) \in Runnable => row[s].retry \in Stamps
CrawlTimed == Status(Crawl) \in Runnable => row[Crawl].retry \in Stamps

Decision ==
    run.at \in Decided =>
       /\ run.on = Crawl /\ run.copy.status \in Runnable /\ run.copy.retry \in Stamps
       /\ Same(Crawl, run.copy) => Status(Crawl) \in Runnable

RunnerKnows ==
    /\ run.at \in Timed \/ (At("run_load") /\ ~run.explicit) => CrawlTimed
    /\ run.at \in {"run_load", "create_roots", "setup"} => run.stop = "no"
    /\ At("run_load") /\ run.explicit => run.ids # {}
    /\ run.at \in HandlesSnap => run.on \in Snaps /\ Status(run.on) # Absent
    /\ At("reconcile_seal") => run.parent = Sealed
    /\ At("reconcile_pause") => run.copy.status \in Runnable
    /\ At("create_roots") => Existing = {}
    /\ Decision

AtWork == {"project", "create", "finish"}

Attempt(s) ==
    task[s].at \in AtWork /\ task[s].copy.status = Started =>
       task[s].copy.retry \in Stamps /\ (Same(s, task[s].copy) => Status(s) = Started)

TasksKnow ==
    /\ Active # {} => At("tasks")
    /\ \A s \in Snaps : Attempt(s)

OnSnapshot ==
    {"snapshot_pause_row", "snapshot_resume_row", "snapshot_cancel_row", "queue_row",
     "upload_read", "upload_row"}

CommandKnows ==
    /\ cmd.at \in {"pause_row", "snapshot_pause_row"} => cmd.copy.status \in Runnable
    /\ cmd.at = "pause_child" => cmd.seen \in [Snaps -> Open \cup {Absent}]
    /\ cmd.at \in OnSnapshot => cmd.on \in Snaps /\ Status(cmd.on) # Absent
    /\ cmd.at = "cancel_row" => "cancel" \in Commands
    /\ cmd.at = "snapshot_cancel_row" => "snapshot_cancel" \in Commands
    /\ cmd.at \in {"queue_row", "queue_read_crawl", "queue_crawl"} =>
          "queue_for_extraction" \in Commands

KInv == SnapsTimed /\ RunnerKnows /\ TasksKnow /\ CommandKnows /\ budget \in Int

(* Only a paused row, or a crawl that waits for its children, is hidden.   *)
Parking == {"crawl_wait_max", "recover_parent"}

Hides(r) ==
    row'[r].retry = RETRY_AT_MAX =>
      \/ row'[r] = row[r]
      \/ Status(r)' = Paused
      \/ r = Crawl /\ run.at \in Parking

Hidden == \A r \in Rows : Hides(r)

(* The statuses differ, and so do the kinds of retry_at.                   *)
LEMMA ValuesDiffer ==
    /\ Queued # Started /\ Queued # Paused /\ Queued # Sealed /\ Queued # Absent
    /\ Started # Paused /\ Started # Sealed /\ Started # Absent
    /\ Paused # Sealed /\ Paused # Absent /\ Sealed # Absent
    /\ NULL \notin Stamps /\ RETRY_AT_MAX \notin Stamps /\ NULL # RETRY_AT_MAX
    /\ Runnable = {Queued, Started} /\ Open = {Queued, Started, Paused}
    /\ Inactive = {Paused, Sealed}
BY StampAssumption DEF Queued, Started, Paused, Sealed, Absent, NULL, RETRY_AT_MAX, Stamps,
   Runnable, Open, Inactive

LEMMA StaysMoves == Stays => RunnerMove /\ UserMove
BY DEF RunnerMove, UserMove

(* A new retry_at hides the row only when the code says so.                *)
LEMMA HidesWhen ==
    ASSUME NEW r, NEW when, RetryAt(r, when) = RETRY_AT_MAX
    PROVE  when = "max"
<1>1. CASE when = "none"
  BY <1>1, RetryAtIs, ValuesDiffer
<1>2. CASE when \notin {"none", "max"}
  BY <1>2, FreshIsNew, ValuesDiffer DEF RetryAt
<1> QED
  BY <1>1, <1>2

LEMMA RowsHide ==
    ASSUME RowTypes, UNCHANGED row
    PROVE  Stays /\ Hidden
BY DEF Stays, Hidden, Hides, Status

(* A statement that keeps the status it finds, and one that writes another.*)
LEMMA SetKeeps ==
    ASSUME RowTypes, NEW r \in Rows, NEW hit, NEW new, NEW when, Set(r, hit, new, when),
           hit => new = Status(r), hit /\ when = "max" => new = Paused \/ (r = Crawl /\ run.at \in Parking)
    PROVE  Stays /\ Hidden
<1>1. CASE hit
  <2>1. \A q \in Rows : row'[q] = IF q = r THEN [status |-> new, retry |-> RetryAt(r, when)]
                                           ELSE row[q]
    BY <1>1 DEF Set, Update
  <2>2. Stays
    BY <1>1, <2>1 DEF Stays, Status
  <2>3. Hidden
    BY <1>1, <2>1, HidesWhen DEF Hidden, Hides, Status
  <2> QED
    BY <2>2, <2>3
<1>2. CASE ~hit
  BY <1>2, RowsHide DEF Set
<1> QED
  BY <1>1, <1>2

LEMMA SetMoves ==
    ASSUME RowTypes, NEW r \in Rows, NEW hit, NEW new, NEW when, NEW from,
           Set(r, hit, new, when), hit => Status(r) \in from,
           hit /\ when = "max" => new = Paused \/ (r = Crawl /\ run.at \in Parking)
    PROVE  (Stays \/ Moves({r}, from, new)) /\ Hidden
<1>1. CASE hit
  <2>1. \A q \in Rows : row'[q] = IF q = r THEN [status |-> new, retry |-> RetryAt(r, when)]
                                           ELSE row[q]
    BY <1>1 DEF Set, Update
  <2>2. Moves({r}, from, new)
    BY <1>1, <2>1 DEF Moves, Status
  <2>3. Hidden
    BY <1>1, <2>1, HidesWhen DEF Hidden, Hides, Status
  <2> QED
    BY <2>2, <2>3
<1>2. CASE ~hit
  <2>1. UNCHANGED row
    BY <1>2 DEF Set
  <2> QED
    BY <2>1, RowsHide
<1> QED
  BY <1>1, <1>2

(* An UPDATE of several rows that keeps their statuses.                    *)
LEMMA UpdateKeeps ==
    ASSUME RowTypes, NEW R, NEW when, Update(R, Status, when),
           when = "max" => R \subseteq {Crawl} /\ run.at \in Parking
    PROVE  Stays /\ Hidden
<1>1. \A q \in Rows : row'[q] = IF q \in R THEN [status |-> Status(q), retry |-> RetryAt(q, when)]
                                           ELSE row[q]
  BY DEF Update
<1>2. Stays
  BY <1>1 DEF Stays, Status, Update
<1>3. Hidden
  BY <1>1, HidesWhen DEF Hidden, Hides, Status, Update
<1> QED
  BY <1>2, <1>3

(* An UPDATE that starts the crawl if it is runnable.                      *)
LEMMA StartsOrStays ==
    ASSUME RowTypes, NEW hit, NEW when, Set(Crawl, hit, Started, when),
           hit => Status(Crawl) \in Runnable, when = "max" => run.at \in Parking
    PROVE  RunnerMove /\ Hidden
<1>1. CASE Status(Crawl) = Queued
  <2>1. (Stays \/ Moves({Crawl}, {Queued}, Started)) /\ Hidden
    BY <1>1, SetMoves, NamesDiffer
  <2> QED
    BY <2>1, StaysMoves, NamesDiffer DEF RunnerMove
<1>2. CASE Status(Crawl) # Queued
  BY <1>2, SetKeeps, StaysMoves, NamesDiffer, ValuesDiffer
<1> QED
  BY <1>1, <1>2

(* A statement that queues several rows, new or paused.                    *)
LEMMA QueuesRows ==
    ASSUME RowTypes, NEW R, NEW from, Update(R, LAMBDA s : Queued, "now"),
           \A r \in R : Status(r) \in from
    PROVE  Moves(R, from, Queued) /\ Hidden
<1>1. \A q \in Rows : row'[q] = IF q \in R THEN [status |-> Queued, retry |-> RetryAt(q, "now")]
                                           ELSE row[q]
  BY DEF Update
<1>2. Moves(R, from, Queued)
  BY <1>1 DEF Moves, Status, Update
<1>3. Hidden
  BY <1>1, HidesWhen DEF Hidden, Hides, Update
<1> QED
  BY <1>2, <1>3

-----------------------------------------------------------------------------
(* The scheduler's statements are moves of the runner, ...                 *)
LEMMA ScheduleMoves ==
    ASSUME IInv, KInv, Schedule
    PROVE  RunnerMove /\ Hidden
<1>0. RowTypes /\ RunInv /\ RunnerKnows /\ Status(Crawl) \in Open \cup {Sealed}
  BY NamesDiffer DEF IInv, RowInv, KInv, RowTypes, Copies, Status
<1>r. run.at \in HandlesSnap => run.on \in Snaps /\ run.on \in Rows
  BY <1>0, NamesDiffer DEF RunnerKnows
<1> USE <1>0, <1>r, NamesDiffer, ValuesDiffer
<1>1. CASE ReconcileClaim
  BY <1>1, SetKeeps, StaysMoves DEF ReconcileClaim, At, HandlesSnap, OnSnap
<1>2. CASE ReconcileSeal
  <2>1. (Stays \/ Moves({run.on}, Open, Sealed)) /\ Hidden
    BY <1>2, SetMoves DEF ReconcileSeal, At, HandlesSnap
  <2>2. At("reconcile_seal") /\ run.parent = Sealed /\ run.on \in Snaps
    BY <1>2 DEF ReconcileSeal, At, HandlesSnap, RunnerKnows
  <2> QED
    BY <2>1, <2>2, StaysMoves DEF RunnerMove
<1>3. CASE ReconcilePause
  <2>1. run.copy.status \in Runnable /\ run.on \in Snaps
    BY <1>3 DEF ReconcilePause, At, HandlesSnap, RunnerKnows
  <2>2. (Stays \/ Moves({run.on}, Runnable, Paused)) /\ Hidden
    BY <1>3, <2>1, SetMoves DEF ReconcilePause
  <2> QED
    BY <2>1, <2>2, StaysMoves DEF RunnerMove
<1>4. CASE RestoreMarker
  BY <1>4, SetKeeps, StaysMoves DEF RestoreMarker, At, HandlesSnap
<1>5. CASE MaintenanceClaim
  BY <1>5, SetKeeps, StaysMoves DEF MaintenanceClaim, At, HandlesSnap, OnSnap
<1>6. CASE Maintenance
  BY <1>6, SetKeeps, StaysMoves DEF Maintenance, Maintained, At, HandlesSnap, OnSnap, Status
<1>7. CASE CrawlAdmit
  BY <1>7, SetKeeps, StaysMoves DEF CrawlAdmit
<1>8. CASE SnapshotClaim
  BY <1>8, SetKeeps, StaysMoves DEF SnapshotClaim, At, HandlesSnap, OnSnap
<1>9. CASE Start
  <2>1. (Stays \/ Moves({run.on}, {Queued}, Started)) /\ Hidden /\ run.on \in Rows
    BY <1>9, SetMoves DEF Start, At, HandlesSnap, OnSnap
  <2> QED
    BY <2>1, StaysMoves DEF RunnerMove
<1>10. CASE RequeueLive
  BY <1>10, SetKeeps, StaysMoves DEF RequeueLive, At, HandlesSnap
<1>11. CASE RequeueLiveCrawl
  <2>1. PICK new \in Runnable : Set(Crawl, Same(Crawl, run.copy), new, "later")
    BY <1>11 DEF RequeueLiveCrawl
  <2>2. (Stays \/ Moves({Crawl}, Open \cup {Sealed}, new)) /\ Hidden
    BY <2>1, SetMoves
  <2> QED
    BY <1>11, <2>2, StaysMoves DEF RunnerMove, RequeueLiveCrawl
<1>12. CASE CrawlExtend
  BY <1>12, SetKeeps, StaysMoves DEF CrawlExtend
<1>13. CASE CrawlClaim
  BY <1>13, SetKeeps, StaysMoves DEF CrawlClaim
<1>14. CASE Advance
  <2>1. CASE UNCHANGED <<row, due>>
    BY <2>1, RowsHide, StaysMoves
  <2>2. CASE Set(Crawl, Status(Crawl) = Queued, Started, "later")
    <3>1. (Stays \/ Moves({Crawl}, {Queued}, Started)) /\ Hidden
      BY <2>2, SetMoves
    <3> QED
      BY <3>1, StaysMoves DEF RunnerMove
  <2> QED
    BY <1>14, <2>1, <2>2 DEF Advance
<1>15. CASE Seal
  <2>1. CASE Status(Crawl) \in Runnable
    <3>1. (Stays \/ Moves({Crawl}, Runnable, Sealed)) /\ Hidden
      BY <1>15, <2>1, SetMoves DEF Seal
    <3> QED
      BY <1>15, <3>1 DEF RunnerMove, SealsCrawl, Seal, At
  <2>2. CASE Status(Crawl) \notin Runnable
    BY <1>15, <2>2, SetKeeps, StaysMoves DEF Seal
  <2> QED
    BY <2>1, <2>2
<1>16. CASE SealChildren
  BY <1>16, UpdateKeeps, StaysMoves DEF SealChildren, WakeOpenChildren
<1>17. CASE CrawlUnlock
  BY <1>17, UpdateKeeps, StaysMoves DEF CrawlUnlock
<1>18. CASE CrawlAgain
  <2>1. Same(Crawl, run.copy) => Status(Crawl) \in Runnable
    BY <1>18 DEF CrawlAgain, At, Decided, RunnerKnows, Decision
  <2> QED
    BY <1>18, <2>1, StartsOrStays DEF CrawlAgain
<1>19. CASE CrawlWait
  <2>1. Same(Crawl, run.copy) => Status(Crawl) \in Runnable
    BY <1>19 DEF CrawlWait, At, Decided, RunnerKnows, Decision
  <2> QED
    BY <1>19, <2>1, StartsOrStays DEF CrawlWait, At, Parking
<1>20. CASE CleanupClaim
  BY <1>20, SetKeeps, StaysMoves DEF CleanupClaim
<1>21. CASE Cleanup
  BY <1>21, SetKeeps, StaysMoves DEF Cleanup
<1>22. CASE UNCHANGED <<row, due>>
  BY <1>22, RowsHide, StaysMoves
<1> QED
  BY <1>1, <1>2, <1>3, <1>4, <1>5, <1>6, <1>7, <1>8, <1>9, <1>10, <1>11, <1>12, <1>13,
     <1>14, <1>15, <1>16, <1>17, <1>18, <1>19, <1>20, <1>21, <1>22 DEF Schedule, Pick,
     EndPass, SnapshotLoad, ReconcileRecheck, MaintenanceCheck, MaintenanceLoad, Admit,
     SnapshotRefresh, RequeueLiveRead, CrawlLoad, CrawlChildren, CrawlPending,
     CrawlNext, Reads

(* ... and so are the phases of a run, ...                                 *)
LEMMA PhaseMoves ==
    ASSUME IInv, KInv, RunPhases
    PROVE  RunnerMove /\ Hidden
<1>0. RowTypes /\ RunInv /\ RunnerKnows /\ Status(Crawl) \in Open \cup {Sealed}
  BY NamesDiffer DEF IInv, RowInv, KInv, RowTypes, Copies, Status
<1> USE <1>0, NamesDiffer, ValuesDiffer
<1>1. CASE CreateRoots
  <2>1. Update(Roots, LAMBDA s : Queued, "now") /\ \A s \in Roots : Status(s) \in {Absent}
    BY <1>1 DEF CreateRoots, At, RunnerKnows, Existing, With, RowTypes, Copies, Status
  <2>2. Moves(Roots, {Absent}, Queued) /\ Hidden /\ Roots \in SUBSET Snaps
    BY <2>1, QueuesRows DEF Snaps
  <2> QED
    BY <1>1, <2>2 DEF RunnerMove, CreatesRows, CreateRoots
<1>2. CASE Setup
  <2>1. Set(Crawl, ~Blocked /\ Status(Crawl) \notin Inactive, Started, "later")
    BY <1>2 DEF Setup
  <2> QED
    BY <2>1, StartsOrStays
<1>3. CASE StartEvent
  <2>1. Set(Crawl, ~Blocked /\ Status(Crawl) \notin Inactive, Started, "later")
    BY <1>3 DEF StartEvent
  <2> QED
    BY <2>1, StartsOrStays
<1>4. CASE CleanupEvent
  BY <1>4, StartsOrStays DEF CleanupEvent
<1>5. CASE CompletedWrite
  <2>1. CASE At("completed_seal") /\ Set(Crawl, Status(Crawl) \notin Inactive, Sealed, "none")
    <3>1. (Stays \/ Moves({Crawl}, Runnable, Sealed)) /\ Hidden
      BY <2>1, SetMoves
    <3> QED
      BY <2>1, <3>1 DEF RunnerMove, SealsCrawl, At
  <2>2. CASE Set(Crawl, Status(Crawl) \notin Inactive, Started, "now")
    BY <2>2, StartsOrStays
  <2> QED
    BY <1>5, <2>1, <2>2 DEF CompletedWrite
<1>6. CASE FinalizeSeal
  <2>1. Same(Crawl, run.copy) => Status(Crawl) \in Runnable
    BY <1>6 DEF FinalizeSeal, At, Decided, RunnerKnows, Decision
  <2>2. (Stays \/ Moves({Crawl}, Runnable, Sealed)) /\ Hidden
    BY <1>6, <2>1, SetMoves DEF FinalizeSeal
  <2> QED
    BY <1>6, <2>2 DEF RunnerMove, SealsCrawl, FinalizeSeal, At
<1>7. CASE FinalizeRequeue
  <2>1. Same(Crawl, run.copy) => Status(Crawl) \in Runnable
    BY <1>7 DEF FinalizeRequeue, At, Decided, RunnerKnows, Decision
  <2>2. \A r \in Rows :
          row'[r] = IF r = Crawl /\ Same(Crawl, run.copy)
                    THEN [status |-> Started, retry |-> row[Crawl].retry] ELSE row[r]
    BY <1>7 DEF FinalizeRequeue, RowTypes, Copies
  <2>3. Hidden
    <3>1. Same(Crawl, run.copy) => row[Crawl].retry # RETRY_AT_MAX
      BY <1>7 DEF FinalizeRequeue, At, Decided, RunnerKnows, Decision, Same
    <3> QED
      BY <2>2, <3>1 DEF Hidden, Hides
  <2>4. CASE Same(Crawl, run.copy) /\ Status(Crawl) = Queued
    <3>1. Moves({Crawl}, {Queued}, Started)
      BY <2>2, <2>4 DEF Moves, Status
    <3> QED
      BY <2>3, <3>1 DEF RunnerMove
  <2>5. CASE ~(Same(Crawl, run.copy) /\ Status(Crawl) = Queued)
    <3>1. Stays
      BY <2>1, <2>2, <2>5 DEF Stays, Status
    <3> QED
      BY <2>3, <3>1, StaysMoves
  <2> QED
    BY <2>4, <2>5
<1>8. CASE UNCHANGED <<row, due>>
  BY <1>8, RowsHide, StaysMoves
<1> QED
  BY <1>1, <1>2, <1>3, <1>4, <1>5, <1>6, <1>7, <1>8 DEF RunPhases, RunLoad, TasksDone,
     CompletedRead, FinalizeRead, Reads

(* ... the recovery, ...                                                   *)
LEMMA RecoverMoves ==
    ASSUME IInv, Recover
    PROVE  RunnerMove /\ Hidden
<1>0. RowTypes
  BY DEF IInv, RowInv
<1>u. ExtensionOnly = Unserved
  BY DEF ExtensionOnly, Unserved, With
<1>1. CASE Repair(1) /\ Update(Unqueued({Crawl}, {Queued}), Status, "now")
  BY <1>0, <1>1, UpdateKeeps, StaysMoves
<1>2. CASE Repair(2) /\ Update(Of(Runnable, Unqueued(Snaps, {Queued})), Status, "now")
  BY <1>0, <1>2, UpdateKeeps, StaysMoves
<1>3. CASE Repair(3) /\ Update(IF ExtensionOnly = {} THEN {} ELSE With({Crawl}, {Sealed}),
                               LAMBDA r : Started, "now")
  <2>0. At("recover_upload_crawl")
    BY <1>3 DEF Repair, Repairs
  <2>1. CASE ExtensionOnly # {} /\ Status(Crawl) = Sealed
    <3>1. /\ row'[Crawl].status = Started /\ row'[Crawl].retry \in Stamps
          /\ \A q \in Rows : q # Crawl => row'[q] = row[q]
      BY <1>3, <2>1, NamesDiffer, RetryAtIs DEF Update, With
    <3>2. Moves({Crawl}, {Sealed}, Started)
      BY <2>1, <3>1 DEF Moves, Status
    <3>3. Hidden
      BY <3>1, ValuesDiffer DEF Hidden, Hides
    <3> QED
      BY <1>u, <2>0, <2>1, <3>2, <3>3 DEF RunnerMove
  <2>2. CASE ~(ExtensionOnly # {} /\ Status(Crawl) = Sealed)
    <3>1. \A q \in Rows : row'[q] = row[q]
      BY <1>3, <2>2 DEF Update, With
    <3> QED
      BY <3>1, StaysMoves DEF Stays, Hidden, Hides, Status
  <2> QED
    BY <2>1, <2>2
<1>4. CASE Repair(4) /\ Update(Of({Queued, Started, Sealed}, ExtensionOnly),
                               LAMBDA s : Queued, "now")
  <2>0. At("recover_uploads")
    BY <1>4 DEF Repair, Repairs
  <2>1. CASE Status(Crawl) \in {Queued, Started, Sealed}
    <3>1. Update(Unserved, LAMBDA s : Queued, "now") /\ \A s \in Unserved : Status(s) \in {Sealed}
      BY <1>4, <1>u, <2>1 DEF Of, Unserved
    <3>2. Moves(Unserved, {Sealed}, Queued) /\ Hidden
      BY <1>0, <3>1, QueuesRows
    <3> QED
      BY <2>0, <2>1, <3>2, ValuesDiffer DEF RunnerMove
  <2>2. CASE Status(Crawl) \notin {Queued, Started, Sealed}
    <3>1. \A q \in Rows : row'[q] = row[q]
      BY <1>4, <2>2 DEF Update, Of
    <3> QED
      BY <3>1, StaysMoves DEF Stays, Hidden, Hides, Status
  <2> QED
    BY <2>1, <2>2
<1>5. CASE Repair(5) /\ Update(Unowned(Snaps) \ hooks, Status, "now")
  BY <1>0, <1>5, UpdateKeeps, StaysMoves
<1>6. CASE Repair(6) /\ Update(Unowned({Crawl}), Status, ParentRetry)
  <2>1. Unowned({Crawl}) \subseteq {Crawl} /\ run.at \in Parking
    BY <1>6 DEF Unowned, With, Parking, Repair, Repairs, At, Update
  <2> QED
    BY <1>0, <1>6, <2>1, UpdateKeeps, StaysMoves
<1> QED
  BY <1>1, <1>2, <1>3, <1>4, <1>5, <1>6 DEF Recover

(* ... the tasks and leases.                                               *)
LEMMA TaskMovesRows ==
    ASSUME IInv, KInv, NEW s \in Snaps, TaskStep(s) \/ Lease(s)
    PROVE  RunnerMove /\ Hidden
<1>0. RowTypes /\ RunInv /\ RunnerKnows /\ Status(Crawl) \in Open \cup {Sealed} /\ TasksKnow
  BY NamesDiffer DEF IInv, RowInv, KInv, RowTypes, Copies, Status
<1> USE <1>0, NamesDiffer, ValuesDiffer
<1>1. CASE StartProcessing(s)
  <2>1. (Stays \/ Moves({s}, {Queued}, Started)) /\ Hidden /\ s \in Rows
    BY <1>1, SetMoves DEF StartProcessing
  <2> QED
    BY <2>1, StaysMoves DEF RunnerMove
<1>2. CASE Create(s)
  <2>1. Update(Discovered(s), LAMBDA k : Queued, "now")
    BY <1>2 DEF Create
  <2>2. Discovered(s) \subseteq Snaps /\ \A k \in Discovered(s) : Status(k) \in {Absent}
    BY DEF Discovered, With
  <2>3. Moves(Discovered(s), {Absent}, Queued) /\ Hidden
    BY <2>1, <2>2, QueuesRows
  <2> QED
    BY <1>2, <2>2, <2>3 DEF RunnerMove, CreatesRows, Create
<1>3. CASE Finish(s)
  <2>1. PICK hit : Set(s, hit, Sealed, "none") /\ (hit => Status(s) = Started)
    BY <1>3 DEF Finish, TaskAt, TasksKnow, Attempt, AtWork
  <2>2. (Stays \/ Moves({s}, {Started}, Sealed)) /\ Hidden /\ TaskAt(s, "finish")
    BY <1>3, <2>1, SetMoves DEF Finish
  <2> QED
    BY <2>2, StaysMoves DEF RunnerMove
<1>4. CASE TaskMaintenance(s)
  BY <1>4, SetKeeps, StaysMoves DEF TaskMaintenance, Maintained, Status
<1>5. CASE LastSeal(s)
  <2>1. CASE Status(Crawl) \in Runnable
    <3>1. (Stays \/ Moves({Crawl}, Runnable, Sealed)) /\ Hidden
      BY <1>5, <2>1, SetMoves DEF LastSeal
    <3> QED
      BY <1>5, <3>1 DEF RunnerMove, SealsCrawl, LastSeal
  <2>2. CASE Status(Crawl) \notin Runnable
    BY <1>5, <2>2, SetKeeps, StaysMoves DEF LastSeal
  <2> QED
    BY <2>1, <2>2
<1>6. CASE LastWake(s)
  BY <1>6, UpdateKeeps, StaysMoves DEF LastWake, WakeOpenChildren
<1>7. CASE RenewLease(s)
  BY <1>7, SetKeeps, StaysMoves DEF RenewLease
<1>8. CASE HeartbeatCrawl
  BY <1>8, SetKeeps, StaysMoves DEF HeartbeatCrawl
<1>9. CASE UNCHANGED <<row, due>>
  BY <1>9, RowsHide, StaysMoves
<1> QED
  BY <1>1, <1>2, <1>3, <1>4, <1>5, <1>6, <1>7, <1>8, <1>9 DEF TaskStep, Task, Lease,
     Enqueue, Payload, Event, HooksEnd, Completed, Project, After, Last

(* The commands' statements are moves of the user.                         *)
LEMMA CommandMoves ==
    ASSUME IInv, KInv, Command
    PROVE  UserMove /\ Hidden
<1>0. RowTypes /\ CommandKnows /\ Status(Crawl) \in Open \cup {Sealed}
  BY NamesDiffer DEF IInv, RowInv, KInv, RowTypes, Copies, Status
<1>s. \A s \in Snaps : Status(s) # Absent => Status(s) \in Open \cup {Sealed}
  BY <1>0, NamesDiffer DEF RowTypes, Copies, Status
<1> USE <1>0, NamesDiffer, ValuesDiffer
<1>1. CASE CrawlPauseRow
  <2>1. cmd.copy.status \in Runnable
    BY <1>1 DEF CrawlPauseRow, Continue, CommandKnows
  <2>2. (Stays \/ Moves({Crawl}, Runnable, Paused)) /\ Hidden
    BY <1>1, <2>1, SetMoves DEF CrawlPauseRow
  <2> QED
    BY <2>2, StaysMoves DEF UserMove
<1>2. ASSUME NEW s \in Snaps, CrawlPauseChild(s)
      PROVE  UserMove /\ Hidden
  <2>1. cmd.seen[s] # Paused => cmd.seen[s] \in Runnable
    BY <1>2 DEF CrawlPauseChild, Continue, CommandKnows
  <2>2. (Stays \/ Moves({s}, Runnable, Paused)) /\ Hidden
    BY <1>2, <2>1, SetMoves DEF CrawlPauseChild
  <2> QED
    BY <2>2, StaysMoves DEF UserMove
<1>3. CASE CrawlResumeRow
  <2>1. (Stays \/ Moves({Crawl}, {Paused}, Queued)) /\ Hidden
    BY <1>3, SetMoves DEF CrawlResumeRow
  <2> QED
    BY <2>1, StaysMoves DEF UserMove
<1>4. CASE CrawlResumeChildren
  <2>1. PICK R : R = With(Snaps, {Paused})
    OBVIOUS
  <2>2. R \in SUBSET Rows /\ \A s \in R : Status(s) \in {Paused}
    BY <2>1 DEF With
  <2>3. Moves(R, {Paused}, Queued) /\ Hidden
    BY <1>4, <2>1, <2>2, QueuesRows DEF CrawlResumeChildren
  <2> QED
    BY <2>2, <2>3 DEF UserMove
<1>5. CASE CrawlCancel
  BY <1>5, UpdateKeeps, StaysMoves DEF CrawlCancel, WakeOpenChildren
<1>6. CASE CrawlCancelRow
  <2>1. (Stays \/ Moves({Crawl}, Open, Sealed)) /\ Hidden
    BY <1>6, SetMoves DEF CrawlCancelRow
  <2>2. "cancel" \in Commands
    BY <1>6 DEF CrawlCancelRow, Continue, CommandKnows
  <2> QED
    BY <2>1, <2>2, StaysMoves DEF UserMove
<1>7. CASE AdminPause
  <2>1. (Stays \/ Moves({Crawl}, Runnable, Paused)) /\ Hidden
    BY <1>7, SetMoves DEF AdminPause
  <2> QED
    BY <2>1, StaysMoves DEF UserMove
<1>8. CASE AdminResume
  <2>1. (Stays \/ Moves({Crawl}, Inactive, Queued)) /\ Hidden
    BY <1>8, SetMoves DEF AdminResume
  <2>2. "admin_resume" \in Commands
    BY <1>8 DEF AdminResume, Begin
  <2> QED
    BY <2>1, <2>2, StaysMoves DEF UserMove
<1>9. CASE SnapshotPauseRow
  <2>1. cmd.copy.status \in Runnable /\ cmd.on \in Rows
    BY <1>9 DEF SnapshotPauseRow, Continue, CommandKnows, OnSnapshot
  <2>2. (Stays \/ Moves({cmd.on}, Runnable, Paused)) /\ Hidden
    BY <1>9, <2>1, SetMoves DEF SnapshotPauseRow
  <2> QED
    BY <2>1, <2>2, StaysMoves DEF UserMove
<1>10. CASE SnapshotResumeRow
  <2>1. cmd.on \in Rows
    BY <1>10 DEF SnapshotResumeRow, Continue, CommandKnows, OnSnapshot
  <2>2. (Stays \/ Moves({cmd.on}, {Paused}, Queued)) /\ Hidden
    BY <1>10, <2>1, SetMoves DEF SnapshotResumeRow
  <2>3. {cmd.on} \in SUBSET Rows
    BY <2>1
  <2> QED
    BY <2>2, <2>3, StaysMoves DEF UserMove
<1>11. CASE SnapshotCancelRow
  <2>1. cmd.on \in Snaps /\ cmd.on \in Rows /\ "snapshot_cancel" \in Commands
    BY <1>11 DEF SnapshotCancelRow, Continue, CommandKnows, OnSnapshot
  <2>2. (Stays \/ Moves({cmd.on}, Open, Sealed)) /\ Hidden
    BY <1>11, <2>1, SetMoves DEF SnapshotCancelRow
  <2> QED
    BY <2>1, <2>2, StaysMoves DEF UserMove
<1>12. CASE QueueRow
  <2>1. /\ cmd.on \in Rows /\ "queue_for_extraction" \in Commands
        /\ Status(cmd.on) \in Open \cup {Sealed}
    BY <1>12, <1>s DEF QueueRow, Continue, CommandKnows, OnSnapshot
  <2>2. (Stays \/ Moves({cmd.on}, Open \cup {Sealed}, Queued)) /\ Hidden
    BY <1>12, <2>1, SetMoves DEF QueueRow
  <2> QED
    BY <2>1, <2>2, StaysMoves DEF UserMove
<1>13. CASE QueueCrawl
  <2>1. "queue_for_extraction" \in Commands
    BY <1>13 DEF QueueCrawl, Continue, CommandKnows
  <2>2. PICK new \in Runnable : Set(Crawl, Same(Crawl, cmd.copy), new, "now")
    BY <1>13 DEF QueueCrawl
  <2>3. (Stays \/ Moves({Crawl}, Open \cup {Sealed}, new)) /\ Hidden
    BY <2>2, SetMoves
  <2> QED
    BY <2>1, <2>3, StaysMoves DEF UserMove
<1>14. CASE UploadRow
  <2>1. cmd.on \in Rows
    BY <1>14 DEF UploadRow, Continue, CommandKnows, OnSnapshot
  <2> QED
    BY <1>14, <2>1, SetKeeps, StaysMoves DEF UploadRow
<1>15. CASE UNCHANGED <<row, due>>
  BY <1>15, RowsHide, StaysMoves
<1> QED
  BY <1>1, <1>2, <1>3, <1>4, <1>5, <1>6, <1>7, <1>8, <1>9, <1>10, <1>11, <1>12, <1>13,
     <1>14, <1>15 DEF Command, OwnCommand, NextStatement, CrawlPause, CrawlPauseList, CrawlPauseEnd,
     CrawlResume, SnapshotPause, SnapshotResume, SnapshotCancel, QueueForExtraction,
     QueueReadCrawl, Upload, UploadRead

-----------------------------------------------------------------------------
(* Where the runner goes, and what it takes along.                         *)
LEMMA GoesTo ==
    ASSUME RunTyped(run), NEW at, GoTo(at)
    PROVE  /\ run'.at = at /\ run'.on = run.on /\ run'.copy = run.copy
           /\ run'.parent = run.parent /\ run'.ids = run.ids
           /\ run'.explicit = run.explicit /\ run'.stop = run.stop
BY DEF RunTyped, GoTo

LEMMA GoesOn ==
    ASSUME RunTyped(run), NEW at, NEW copy, GoOn(at, copy)
    PROVE  /\ run'.at = at /\ run'.on = run.on /\ run'.copy = copy
           /\ run'.parent = run.parent
BY DEF RunTyped, GoOn

LEMMA Returns ==
    ASSUME NEW progress, Return(progress)
    PROVE  run'.at \in {"idle", "down"}
BY DEF Return, Idle, Down

(* No row is deleted, and a row that can be worked on stays in the queue   *)
(* under a timestamp, unless the crawl waits for its children.             *)
LEMMA ExistStays ==
    ASSUME RowsStep
    PROVE  \A r \in Rows : Status(r) # Absent => Status(r)' # Absent
BY ValuesDiffer DEF RowsStep, RowStep, Status

LEMMA TimedStays ==
    ASSUME IInv, KInv, RowsStep, Hidden
    PROVE  SnapsTimed' /\ (CrawlTimed /\ run.at \notin Parking => CrawlTimed')
<1>1. ASSUME NEW r \in Rows, Status(r) \in Runnable => row[r].retry \in Stamps,
             r = Crawl => run.at \notin Parking,
             (Status(r) \in Runnable)'
      PROVE  (row[r].retry \in Stamps)'
  <2>1. RowStep(r) /\ Hides(r)
    BY DEF RowsStep, Hidden
  <2>2. CASE row'[r] = row[r]
    BY <1>1, <2>2 DEF Status
  <2>3. CASE row'[r].retry = RETRY_AT_MAX /\ row'[r] # row[r]
    BY <1>1, <2>1, <2>3, ValuesDiffer DEF Hides, Status
  <2>4. CASE row'[r].retry = NULL /\ row'[r].status = Sealed
    BY <1>1, <2>4, ValuesDiffer DEF Status
  <2>5. CASE At("finalize_requeue") /\ row'[r].retry = row[r].retry /\ row[r].retry = run.copy.retry
    BY <2>5 DEF KInv, RunnerKnows, Decision, Decided, At
  <2> QED
    BY <2>1, <2>2, <2>3, <2>4, <2>5 DEF RowStep
<1> QED
  BY <1>1, NamesDiffer, RowAssumption DEF KInv, SnapsTimed, CrawlTimed

(* What the runner has read and will write by compare-and-set stands as    *)
(* long as nobody else has written the row.                                *)
LEMMA DecisionStays ==
    ASSUME IInv, KInv, RowsStep, run.at \in Decided, run'.on = run.on, run'.copy = run.copy,
           run'.at = run.at \/ run.at # "finalize_requeue"
    PROVE  Decision'
<1>1. /\ run.on = Crawl /\ run.copy.status \in Runnable /\ run.copy.retry \in Stamps
      /\ Same(Crawl, run.copy) => Status(Crawl) \in Runnable
  BY DEF KInv, RunnerKnows, Decision
<1>2. run.copy.retry \in Remembered(Crawl)
  BY <1>1 DEF Remembered
<1>3. RowStep(Crawl)
  BY NamesDiffer DEF RowsStep
<1>4. row'[Crawl].retry = run.copy.retry => row'[Crawl] = row[Crawl]
  BY <1>1, <1>2, <1>3, ValuesDiffer DEF RowStep, At
<1> QED
  BY <1>1, <1>4 DEF Decision, Same, Status

LEMMA RunnerStays ==
    ASSUME IInv, KInv, RowsStep, Hidden, UNCHANGED run,
           At("create_roots") => \A s \in Snaps : Status(s) = Absent => Status(s)' = Absent
    PROVE  SnapsTimed' /\ RunnerKnows'
<1>0. RunnerKnows /\ RowTypes /\ RowTypes'
  BY DEF KInv, IInv, RowInv, RowsStep
<1>1. SnapsTimed' /\ (CrawlTimed /\ run.at \notin Parking => CrawlTimed')
  BY TimedStays
<1>2. Decision'
  BY DecisionStays DEF Decision
<1>3. At("create_roots") => Existing' = {}
  <2>1. ASSUME At("create_roots"), NEW s \in Snaps
        PROVE  Status(s)' = Absent
    <3>1. Status(s) = Absent
      BY <1>0, <2>1, NamesDiffer DEF RunnerKnows, Existing, With, RowTypes, Copies, Status
    <3> QED
      BY <2>1, <3>1
  <2> QED
    BY <2>1, ValuesDiffer DEF Existing, With
<1>4. run.at \in HandlesSnap => Status(run.on)' # Absent
  BY <1>0, ExistStays, NamesDiffer DEF RunnerKnows
<1>5. run.at \in Timed \/ (At("run_load") /\ ~run.explicit) => CrawlTimed'
  BY <1>0, <1>1 DEF RunnerKnows, Timed, Parking, At
<1> QED
  BY <1>0, <1>1, <1>2, <1>3, <1>4, <1>5 DEF RunnerKnows, At, Status

(* Nothing need be known at the other statements.                          *)
Knowing == HandlesSnap \cup Decided \cup Timed \cup {"run_load", "create_roots", "setup"}

LEMMA RunnerElsewhere ==
    ASSUME run'.at \notin Knowing
    PROVE  RunnerKnows'
BY DEF RunnerKnows, Knowing, Decision, At, HandlesSnap

(* At a statement of one kind, only what that kind says.                   *)
LEMMA RunnerHandles ==
    ASSUME run'.at \in HandlesSnap \ {"reconcile_seal", "reconcile_pause"},
           run'.on \in Snaps, row'[run.on].status # Absent, run'.on = run.on
    PROVE  RunnerKnows'
BY DEF RunnerKnows, HandlesSnap, OnSnap, Decided, Timed, Decision, At, Status

LEMMA RunnerTimed ==
    ASSUME run'.at \in Timed, CrawlTimed'
    PROVE  RunnerKnows'
BY DEF RunnerKnows, HandlesSnap, OnSnap, Decided, Timed, Decision, At

LEMMA RunnerDecided ==
    ASSUME run'.at \in Decided, Decision'
    PROVE  RunnerKnows'
BY DEF RunnerKnows, HandlesSnap, OnSnap, Decided, Timed, Decision, At

LEMMA RunnerLoads ==
    ASSUME run'.at = "run_load", run'.stop = "no", run'.explicit => run'.ids # {},
           ~run'.explicit => CrawlTimed'
    PROVE  RunnerKnows'
BY DEF RunnerKnows, HandlesSnap, OnSnap, Decided, Timed, Decision, At

(* Each query selects rows that are due and exist.                         *)
LEMMA QueryDue ==
    ASSUME IInv, FirstQuery # 0, NEW r \in Query(FirstQuery)
    PROVE  r \in due /\ row[r].retry \in Stamps /\ Status(r) # Absent
<1>1. FirstQuery \in 1..9
  BY QueryRows DEF IInv
<1>2. \A i \in 1..9 : \A q \in Query(i) : q \in due /\ (q = Crawl \/ Status(q) # Absent)
  BY ValuesDiffer DEF Query, Of, With, DueRunnable
<1> QED
  BY <1>1, <1>2 DEF IInv, RowInv, RowTypes

LEMMA RunnerSetsUp ==
    ASSUME run'.at = "setup", run'.stop = "no"
    PROVE  RunnerKnows'
BY DEF RunnerKnows, HandlesSnap, OnSnap, Decided, Timed, Decision, At

(* A lease that is taken is a timestamp.                                   *)
LEMMA ClaimTimes ==
    ASSUME RowTypes, NEW hit, hit, NEW new, Set(Crawl, hit, new, "later")
    PROVE  CrawlTimed'
BY NamesDiffer, RetryAtIs DEF Set, Update, CrawlTimed

-----------------------------------------------------------------------------
(* The scheduler's statements leave the runner knowing what it should, ... *)
LEMMA ScheduleKnows ==
    ASSUME IInv, KInv, RowsStep, Hidden, Schedule
    PROVE  SnapsTimed' /\ RunnerKnows'
<1>0. /\ RunTyped(run) /\ RunnerKnows /\ RunInv /\ RowTypes /\ RowTypes'
      /\ Status(Crawl) # Absent
  BY DEF IInv, RowInv, RunInv, KInv, RowsStep
<1>t. SnapsTimed' /\ (CrawlTimed /\ run.at \notin Parking => CrawlTimed')
  BY TimedStays
<1>e. \A r \in Rows : Status(r) # Absent => Status(r)' # Absent
  BY ExistStays
<1>h. run.at \in HandlesSnap => run.on \in Snaps /\ row'[run.on].status # Absent
  BY <1>0, <1>e, NamesDiffer DEF RunnerKnows, Status
<1>i. run'.at \in {"idle", "down"} => RunnerKnows'
  BY RunnerElsewhere DEF Knowing, HandlesSnap, OnSnap, Decided, Timed
<1>r. (Return(TRUE) \/ Return(FALSE) \/ \E p : Return(p)) => RunnerKnows'
  BY <1>i, Returns
<1> SUFFICES RunnerKnows'
  BY <1>t
<1> USE <1>0
<1>1. CASE Pick
  <2>1. PICK r \in Query(FirstQuery) :
           run' = [Idle EXCEPT !.at = IF r = Crawl THEN "crawl_load" ELSE "snapshot_load",
                               !.pass = FirstQuery, !.on = r]
    BY <1>1 DEF Pick
  <2>2. /\ FirstQuery # 0 /\ r \in {Crawl} \cup Snaps
        /\ row[r].retry \in Stamps /\ Status(r) # Absent /\ UNCHANGED row
    BY <1>1, <2>1, QueryRows, QueryDue DEF Pick, Reads
  <2>3. CASE r = Crawl
    <3>1. run'.at = "crawl_load" /\ CrawlTimed'
      BY <2>1, <2>2, <2>3 DEF Idle, CrawlTimed
    <3> QED
      BY <3>1, RunnerTimed DEF Timed
  <2>4. CASE r # Crawl
    <3>1. run'.at = "snapshot_load" /\ run'.on = r /\ r \in Snaps /\ Status(r)' # Absent
      BY <2>1, <2>2, <2>4 DEF Idle, Status
    <3> QED
      BY <3>1 DEF RunnerKnows, HandlesSnap, OnSnap, Decided, Timed, Decision, At, Status
  <2> QED
    BY <2>3, <2>4
<1>2. CASE EndPass
  BY <1>2, <1>i DEF EndPass, Idle
<1>3. CASE SnapshotLoad
  <2>1. PICK at \in {"reconcile_claim", "restore_marker", "maintenance_claim", "admit"} :
           SnapshotTo(at)
    BY <1>3 DEF SnapshotLoad
  <2>2. run'.at = at /\ run'.on = run.on
    BY <2>1 DEF SnapshotTo, RunTyped
  <2> QED
    BY <1>3, <1>h, <2>2, RunnerHandles DEF SnapshotLoad, At, HandlesSnap, OnSnap
<1>4. CASE ReconcileClaim
  <2>1. CASE GoOn("reconcile_recheck", row'[run.on])
    BY <1>4, <1>h, <2>1, GoesOn, RunnerHandles DEF ReconcileClaim, At, HandlesSnap, OnSnap
  <2> QED
    BY <1>4, <1>r, <2>1 DEF ReconcileClaim
<1>5. CASE ReconcileRecheck
  <2>1. CASE ~Return(TRUE)
    <3>1. /\ Follows(run.parent, Status(run.on)) /\ UNCHANGED row
          /\ GoOn(IF run.parent = Sealed THEN "reconcile_seal" ELSE "reconcile_pause", row[run.on])
      BY <1>5, <2>1 DEF ReconcileRecheck, Reads, Status
    <3>2. run.on \in Snaps /\ Status(run.on) # Absent /\ row'[run.on].status # Absent
      BY <1>5, <1>h DEF ReconcileRecheck, At, HandlesSnap, OnSnap, RunnerKnows
    <3>3. run.parent # Sealed => row[run.on].status \in Runnable
      BY <3>1, <3>2, ValuesDiffer, NamesDiffer DEF Follows, RowTypes, Copies, Status
    <3>4. /\ run'.at = IF run.parent = Sealed THEN "reconcile_seal" ELSE "reconcile_pause"
          /\ run'.on = run.on /\ run'.copy = row[run.on] /\ run'.parent = run.parent
      BY <3>1, GoesOn
    <3> QED
      BY <3>2, <3>3, <3>4
         DEF RunnerKnows, HandlesSnap, OnSnap, Decided, Timed, Decision, At, Status
  <2> QED
    BY <1>r, <2>1
<1>6. CASE ReconcileSeal \/ ReconcilePause \/ RestoreMarker \/ Maintenance
  BY <1>6, <1>r DEF ReconcileSeal, ReconcilePause, RestoreMarker, Maintenance
<1>7. CASE MaintenanceClaim
  <2>1. CASE GoOn("maintenance_check", row'[run.on])
    BY <1>7, <1>h, <2>1, GoesOn, RunnerHandles DEF MaintenanceClaim, At, HandlesSnap, OnSnap
  <2> QED
    BY <1>7, <1>r, <2>1 DEF MaintenanceClaim
<1>8. CASE MaintenanceCheck
  <2>1. CASE GoTo("maintenance_load")
    BY <1>8, <1>h, <2>1, GoesTo, RunnerHandles DEF MaintenanceCheck, At, HandlesSnap, OnSnap
  <2> QED
    BY <1>8, <1>r, <2>1 DEF MaintenanceCheck
<1>9. CASE MaintenanceLoad
  BY <1>9, <1>h, GoesOn, RunnerHandles DEF MaintenanceLoad, At, HandlesSnap, OnSnap
<1>10. CASE Admit
  <2>1. CASE GoTo("snapshot_claim")
    BY <1>10, <1>h, <2>1, GoesTo, RunnerHandles DEF Admit, At, HandlesSnap, OnSnap
  <2>2. CASE GoTo("requeue_live")
    BY <1>10, <1>h, <2>2, GoesTo, RunnerHandles DEF Admit, At, HandlesSnap, OnSnap
  <2>3. CASE run' = [run EXCEPT !.at = "crawl_admit", !.on = Crawl, !.copy = row[Crawl]]
    <3>1. run'.at = "crawl_admit"
      BY <2>3 DEF RunTyped
    <3> QED
      BY <3>1, RunnerElsewhere DEF Knowing, HandlesSnap, OnSnap, Decided, Timed
  <2> QED
    BY <1>10, <2>1, <2>2, <2>3 DEF Admit
<1>11. CASE CrawlAdmit
  <2>1. CASE Claims(Crawl, run.copy)
    <3>1. run' = [Idle EXCEPT !.at = "run_load"]
      BY <1>11, <2>1 DEF CrawlAdmit
    <3>2. CrawlTimed'
      BY <1>11, <2>1, ClaimTimes DEF CrawlAdmit
    <3> QED
      BY <3>1, <3>2, RunnerLoads DEF Idle
  <2> QED
    BY <1>11, <1>r, <2>1 DEF CrawlAdmit
<1>12. CASE SnapshotClaim
  <2>1. CASE GoOn("snapshot_refresh", row'[run.on])
    BY <1>12, <1>h, <2>1, GoesOn, RunnerHandles DEF SnapshotClaim, At, HandlesSnap, OnSnap
  <2> QED
    BY <1>12, <1>r, <2>1 DEF SnapshotClaim
<1>13. CASE SnapshotRefresh
  <2>1. PICK at \in {"requeue_live", "start"} : GoOn(at, row[run.on])
    BY <1>13 DEF SnapshotRefresh
  <2> QED
    BY <1>13, <1>h, <2>1, GoesOn, RunnerHandles DEF SnapshotRefresh, At, HandlesSnap, OnSnap
<1>14. CASE Start
  <2>1. CASE run' = [Idle EXCEPT !.at = "run_load", !.ids = {run.on}, !.explicit = TRUE]
    <3>1. run'.at = "run_load" /\ run'.stop = "no" /\ run'.explicit /\ run'.ids # {}
      BY <2>1 DEF Idle
    <3> QED
      BY <3>1, RunnerLoads
  <2> QED
    BY <1>14, <1>r, <2>1 DEF Start
<1>15. CASE RequeueLive
  <2>1. CASE GoOn("requeue_live_read", NoCopy)
    BY <2>1, GoesOn, RunnerElsewhere DEF Knowing, HandlesSnap, OnSnap, Decided, Timed
  <2> QED
    BY <1>15, <1>r, <2>1 DEF RequeueLive
<1>16. CASE RequeueLiveRead
  <2>1. run'.at = "requeue_live_crawl"
    BY <1>16 DEF RequeueLiveRead, RunTyped
  <2> QED
    BY <2>1, RunnerElsewhere DEF Knowing, HandlesSnap, OnSnap, Decided, Timed
<1>17. CASE RequeueLiveCrawl \/ CrawlExtend \/ SealChildren \/ CrawlAgain \/ CrawlWait \/ Cleanup
  BY <1>17, <1>r DEF RequeueLiveCrawl, CrawlExtend, SealChildren, CrawlAgain, CrawlWait, Cleanup
<1>18. CASE CrawlLoad
  <2>1. CASE row[Crawl].status = Sealed /\ GoOn("cleanup_claim", row[Crawl])
    BY <2>1, GoesOn, RunnerElsewhere DEF Knowing, HandlesSnap, OnSnap, Decided, Timed
  <2>2. CASE row[Crawl].status \in Runnable /\ GoOn("crawl_children", row[Crawl])
    <3>1. run.on = Crawl /\ row[Crawl].retry \in Stamps /\ UNCHANGED row
      BY <1>18, <2>2 DEF CrawlLoad, At, RunInv, OnCrawl, RunnerKnows, Timed, CrawlTimed, Status,
         Reads
    <3>2. run'.at = "crawl_children" /\ run'.on = Crawl /\ run'.copy = row[Crawl]
      BY <2>2, <3>1, GoesOn
    <3>3. Decision'
      BY <2>2, <3>1, <3>2 DEF Decision, Same, Status
    <3> QED
      BY <3>2, <3>3, RunnerDecided DEF Decided
  <2> QED
    BY <1>18, <1>r, <2>1, <2>2 DEF CrawlLoad
<1>19. CASE CrawlChildren
  <2>1. CASE \E at \in {"crawl_extend", "crawl_start"} : GoTo(at)
    BY <2>1, GoesTo, RunnerElsewhere DEF Knowing, HandlesSnap, OnSnap, Decided, Timed
  <2>2. CASE GoTo("crawl_pending")
    BY <1>19, <2>2, GoesTo, DecisionStays, RunnerDecided DEF CrawlChildren, At, Decided
  <2> QED
    BY <1>19, <1>r, <2>1, <2>2 DEF CrawlChildren
<1>20. CASE CrawlPending
  <2>1. CASE GoTo("crawl_finish")
    BY <2>1, GoesTo, RunnerElsewhere DEF Knowing, HandlesSnap, OnSnap, Decided, Timed
  <2>2. CASE GoTo("crawl_unlock")
    BY <1>20, <2>2, GoesTo, DecisionStays, RunnerDecided DEF CrawlPending, At, Decided
  <2> QED
    BY <1>20, <2>1, <2>2 DEF CrawlPending
<1>21. CASE CrawlClaim
  <2>1. CASE Claims(Crawl, run.copy) /\ At("crawl_finish")
    <3>1. GoOn("advance", row'[Crawl])
      BY <1>21, <2>1 DEF CrawlClaim
    <3> QED
      BY <3>1, GoesOn, RunnerElsewhere DEF Knowing, HandlesSnap, OnSnap, Decided, Timed
  <2>2. CASE Claims(Crawl, run.copy) /\ ~At("crawl_finish")
    <3>1. GoOn("advance_or_run", row'[Crawl])
      BY <1>21, <2>2 DEF CrawlClaim
    <3>2. CrawlTimed'
      BY <1>21, <2>2, ClaimTimes DEF CrawlClaim
    <3> QED
      BY <3>1, <3>2, GoesOn, RunnerTimed DEF Timed
  <2> QED
    BY <1>21, <1>r, <2>1, <2>2 DEF CrawlClaim
<1>22. CASE Advance
  <2>1. CASE GoTo("seal")
    BY <2>1, GoesTo, RunnerElsewhere DEF Knowing, HandlesSnap, OnSnap, Decided, Timed
  <2>2. CASE At("advance_or_run") /\ run' = [Idle EXCEPT !.at = "run_load"]
    <3>1. CrawlTimed'
      BY <1>t, <2>2 DEF At, RunnerKnows, Timed, Parking
    <3> QED
      BY <2>2, <3>1, RunnerLoads DEF Idle
  <2> QED
    BY <1>22, <1>r, <2>1, <2>2 DEF Advance
<1>23. CASE Seal
  <2>1. CASE GoOn("seal_children", NoCopy)
    BY <2>1, GoesOn, RunnerElsewhere DEF Knowing, HandlesSnap, OnSnap, Decided, Timed
  <2> QED
    BY <1>23, <1>r, <2>1 DEF Seal
<1>24. CASE CrawlUnlock
  <2>1. PICK at \in {"crawl_next", "crawl_again"} : GoTo(at)
    BY <1>24 DEF CrawlUnlock
  <2> QED
    BY <1>24, <2>1, GoesTo, DecisionStays, RunnerDecided DEF CrawlUnlock, At, Decided
<1>25. CASE CrawlNext
  <2>1. PICK at \in {"crawl_wait", "crawl_wait_max"} : GoTo(at)
    BY <1>25 DEF CrawlNext
  <2> QED
    BY <1>25, <2>1, GoesTo, DecisionStays, RunnerDecided DEF CrawlNext, At, Decided
<1>26. CASE CleanupClaim
  <2>1. CASE GoOn("cleanup", row'[Crawl])
    BY <2>1, GoesOn, RunnerElsewhere DEF Knowing, HandlesSnap, OnSnap, Decided, Timed
  <2> QED
    BY <1>26, <1>r, <2>1 DEF CleanupClaim
<1> QED
  BY <1>1, <1>2, <1>3, <1>4, <1>5, <1>6, <1>7, <1>8, <1>9, <1>10, <1>11, <1>12, <1>13,
     <1>14, <1>15, <1>16, <1>17, <1>18, <1>19, <1>20, <1>21, <1>22, <1>23, <1>24, <1>25,
     <1>26 DEF Schedule

(* ... the phases of a run do, ...                                         *)
LEMMA PhaseKnows ==
    ASSUME IInv, KInv, RowsStep, Hidden, RunPhases \/ Watch \/ Interrupt
    PROVE  SnapsTimed' /\ RunnerKnows'
<1>0. /\ RunTyped(run) /\ RunnerKnows /\ RunInv /\ RowTypes /\ RowTypes'
      /\ Status(Crawl) \in Open \cup {Sealed}
  BY NamesDiffer DEF IInv, RowInv, RunInv, KInv, RowsStep, RowTypes, Copies, Status
<1>t. SnapsTimed' /\ (CrawlTimed /\ run.at \notin Parking => CrawlTimed')
  BY TimedStays
<1>i. run'.at \in {"idle", "down"} => RunnerKnows'
  BY RunnerElsewhere DEF Knowing, HandlesSnap, OnSnap, Decided, Timed
<1>r. (Return(TRUE) \/ Return(FALSE)) => RunnerKnows'
  BY <1>i, Returns
<1>g. ASSUME run.at \in Timed, NEW at \in Timed, run'.at = at
      PROVE  RunnerKnows'
  BY <1>0, <1>t, <1>g, RunnerTimed DEF RunnerKnows, Timed, Parking
<1> SUFFICES RunnerKnows'
  BY <1>t
<1> USE <1>0
<1>1. CASE RunLoad
  <2>0. run.stop = "no" /\ UNCHANGED row /\ At("run_load")
    BY <1>1 DEF RunLoad, At, Reads, RunnerKnows
  <2>1. CASE Selected = {} /\ GoTo(IF Existing = {} /\ Status(Crawl) \in Runnable
                                   THEN "create_roots" ELSE "finalize_read")
    <3>1. CASE Existing = {} /\ Status(Crawl) \in Runnable
      <4>1. run'.at = "create_roots" /\ run'.stop = "no" /\ Existing' = {}
        BY <2>0, <2>1, <3>1, GoesTo DEF Existing, With, Status
      <4> QED
        BY <4>1 DEF RunnerKnows, HandlesSnap, OnSnap, Decided, Timed, Decision, At
    <3>2. CASE ~(Existing = {} /\ Status(Crawl) \in Runnable)
      <4>1. run'.at = "finalize_read"
        BY <2>1, <3>2, GoesTo
      <4>2. CrawlTimed'
        <5>1. CASE ~run.explicit
          BY <1>t, <2>0, <5>1 DEF RunnerKnows, At, Parking
        <5>2. CASE run.explicit
          <6>1. Status(Crawl) = Paused
            BY <2>0, <2>1, <5>2 DEF Selected, RunnerKnows, At
          <6> QED
            BY <2>0, <6>1, ValuesDiffer DEF CrawlTimed, Status
        <5> QED
          BY <5>1, <5>2
      <4> QED
        BY <4>1, <4>2, RunnerTimed DEF Timed
    <3> QED
      BY <3>1, <3>2
  <2>2. CASE \E s \in FirstOf(Selected) :
            run' = [run EXCEPT !.at = "setup", !.ids = {s}, !.on = NoRow, !.copy = NoCopy,
                               !.parent = Reload]
    <3>1. run'.at = "setup" /\ run'.stop = "no"
      BY <2>0, <2>2 DEF RunTyped
    <3> QED
      BY <3>1, RunnerSetsUp
  <2> QED
    BY <1>1, <2>1, <2>2 DEF RunLoad
<1>2. CASE CreateRoots
  <2>1. run'.at = "setup" /\ run'.stop = "no"
    BY <1>2 DEF CreateRoots, RunTyped, RunnerKnows, At
  <2> QED
    BY <2>1, RunnerSetsUp
<1>3. CASE Setup
  <2>1. run'.at = "start_event"
    BY <1>3 DEF Setup, RunTyped
  <2>2. CASE Status(Crawl) \in Runnable
    <3>1. ~Blocked /\ Status(Crawl) \notin Inactive
      BY <1>3, <2>2, ValuesDiffer DEF Setup, At, RunnerKnows, Blocked, Cancelled
    <3>2. row'[Crawl].retry \in Stamps
      BY <1>3, <3>1, NamesDiffer, RetryAtIs DEF Setup, Set, Update
    <3> QED
      BY <2>1, <3>2, RunnerTimed DEF Timed, CrawlTimed
  <2>3. CASE Status(Crawl) \notin Runnable
    <3>1. CrawlTimed
      BY <2>3 DEF CrawlTimed
    <3>2. CrawlTimed'
      BY <1>3, <1>t, <3>1 DEF Setup, At, Parking
    <3> QED
      BY <2>1, <3>2, RunnerTimed DEF Timed
  <2> QED
    BY <2>2, <2>3
<1>4. CASE StartEvent
  <2>1. PICK at \in {"cleanup_event", "tasks"} : GoTo(at)
    BY <1>4 DEF StartEvent
  <2> QED
    BY <1>4, <1>g, <2>1, GoesTo DEF StartEvent, At, Timed
<1>5. CASE TasksDone
  <2>1. run'.at = "cleanup_event"
    BY <1>5 DEF TasksDone, RunTyped
  <2> QED
    BY <1>5, <1>g, <2>1 DEF TasksDone, At, Timed
<1>6. CASE CleanupEvent
  <2>1. PICK at \in {"finalize_read", "completed_read"} : GoTo(at)
    BY <1>6 DEF CleanupEvent
  <2> QED
    BY <1>6, <1>g, <2>1, GoesTo DEF CleanupEvent, At, Timed
<1>7. CASE CompletedRead
  <2>1. PICK at \in {"finalize_read", "completed_seal", "completed_requeue"} : GoTo(at)
    BY <1>7 DEF CompletedRead
  <2> QED
    BY <1>7, <1>g, <2>1, GoesTo DEF CompletedRead, At, Timed
<1>8. CASE CompletedWrite
  BY <1>8, <1>g, GoesTo DEF CompletedWrite, At, Timed
<1>9. CASE FinalizeRead
  <2>1. CASE ~Return(TRUE)
    <3>1. /\ Status(Crawl) \in Runnable /\ row[Crawl].retry \in Stamps /\ UNCHANGED row
      BY <1>9, <2>1, ValuesDiffer
         DEF FinalizeRead, At, RunnerKnows, Timed, CrawlTimed, Reads
    <3>2. PICK at \in {"finalize_requeue", "seal", "finalize_seal"} :
            run' = [run EXCEPT !.on = Crawl, !.copy = row[Crawl], !.ids = {}, !.at = at]
      BY <1>9, <2>1 DEF FinalizeRead
    <3>3. run'.at = at /\ run'.on = Crawl /\ run'.copy = row[Crawl]
      BY <3>2 DEF RunTyped
    <3>4. CASE at = "seal"
      BY <3>3, <3>4, RunnerElsewhere DEF Knowing, HandlesSnap, OnSnap, Decided, Timed
    <3>5. CASE at # "seal"
      <4>1. Decision'
        BY <3>1, <3>3 DEF Decision, Same, Status
      <4> QED
        BY <3>3, <3>5, <4>1, RunnerDecided DEF Decided
    <3> QED
      BY <3>4, <3>5
  <2> QED
    BY <1>r, <2>1
<1>10. CASE FinalizeSeal \/ FinalizeRequeue
  BY <1>10, <1>r DEF FinalizeSeal, FinalizeRequeue
<1>11. CASE Watch \/ Interrupt
  <2>1. run'.at = run.at /\ run.at \in Timed
    BY <1>11 DEF Watch, Interrupt, Watched, Timed, RunTyped
  <2> QED
    BY <1>g, <2>1
<1> QED
  BY <1>1, <1>2, <1>3, <1>4, <1>5, <1>6, <1>7, <1>8, <1>9, <1>10, <1>11 DEF RunPhases

(* ... and the recovery needs to know nothing.                             *)
LEMMA RecoverKnows ==
    ASSUME IInv, KInv, RowsStep, Hidden, Recover \/ IdleRecovery \/ Restart
    PROVE  SnapsTimed' /\ RunnerKnows'
<1>1. SnapsTimed'
  BY TimedStays
<1>2. run'.at \in Recovering
  <2>1. CASE Recover
    <3>1. PICK at \in Recovering : GoTo(at)
      BY <2>1 DEF Recover, Repair, Repairs, Recovering
    <3> QED
      BY <3>1, GoesTo DEF IInv, RunInv
  <2>2. CASE IdleRecovery \/ Restart
    BY <2>2 DEF IdleRecovery, Restart, Repairs, Recovering, Idle
  <2> QED
    BY <2>1, <2>2
<1> QED
  BY <1>1, <1>2, RunnerElsewhere DEF Recovering, Knowing, HandlesSnap, OnSnap, Decided, Timed

-----------------------------------------------------------------------------
(* While the scheduler decides, no task is under way; a task is one only   *)
(* while its run waits for the tasks.                                      *)
LEMMA RunnerAlone ==
    ASSUME KInv, Schedule \/ RunPhases \/ Recover \/ IdleRecovery \/ Restart
    PROVE  Active = {}
<1>0. Active # {} => At("tasks")
  BY DEF KInv, TasksKnow
<1>1. CASE Schedule
  BY <1>0, <1>1 DEF Schedule, Pick, EndPass, SnapshotLoad, ReconcileClaim, ReconcileRecheck,
     ReconcileSeal, ReconcilePause, RestoreMarker, MaintenanceClaim, MaintenanceCheck,
     MaintenanceLoad, Maintenance, Admit, CrawlAdmit, SnapshotClaim, SnapshotRefresh, Start,
     RequeueLive, RequeueLiveRead, RequeueLiveCrawl, CrawlLoad, CrawlChildren, CrawlPending,
     CrawlExtend, CrawlClaim, Advance, Seal, SealChildren, CrawlUnlock, CrawlAgain, CrawlNext,
     CrawlWait, CleanupClaim, Cleanup, At
<1>2. CASE RunPhases
  BY <1>0, <1>2 DEF RunPhases, RunLoad, CreateRoots, Setup, StartEvent, TasksDone, CleanupEvent,
     CompletedRead, CompletedWrite, FinalizeRead, FinalizeSeal, FinalizeRequeue, At
<1>3. CASE Recover
  BY <1>0, <1>3 DEF Recover, Repair, Repairs, At
<1>4. CASE IdleRecovery \/ Restart
  BY <1>0, <1>4 DEF IdleRecovery, Restart, At
<1> QED
  BY <1>1, <1>2, <1>3, <1>4

LEMMA TaskAtWork ==
    ASSUME KInv, NEW s \in Snaps, TaskStep(s) \/ Lease(s)
    PROVE  At("tasks")
<1>0. task[s].at # "idle" => At("tasks")
  BY DEF KInv, TasksKnow, Active
<1>1. CASE task[s].at # "idle"
  BY <1>0, <1>1
<1>2. CASE task[s].at = "idle"
  BY <1>2 DEF TaskStep, Lease, Task, Payload, Event, StartProcessing, HooksEnd, Completed, Project,
     Create, Finish, After, TaskMaintenance, Last, LastSeal, LastWake, Enqueue, RenewLease,
     HeartbeatCrawl, TaskAt, Projecting, Creating
<1> QED
  BY <1>1, <1>2

(* The copy a task has read stands as long as nobody has written the row.  *)
LEMMA AttemptStays ==
    ASSUME IInv, KInv, RowsStep, NEW s \in Snaps, task[s].at \in AtWork,
           task'[s].copy = task[s].copy
    PROVE  Attempt(s)'
<1>1. Attempt(s) /\ s \in Rows /\ s # Crawl /\ RowStep(s)
  BY NamesDiffer, RowAssumption DEF KInv, TasksKnow, RowsStep
<1>2. task[s].copy.retry \in Remembered(s)
  BY DEF Remembered
<1>3. row'[s].retry = task[s].copy.retry /\ task[s].copy.retry \in Stamps => row'[s] = row[s]
  BY <1>1, <1>2, ValuesDiffer DEF RowStep
<1> QED
  BY <1>1, <1>3 DEF Attempt, Same, Status

LEMMA AttemptsStay ==
    ASSUME IInv, KInv, RowsStep, UNCHANGED task, run'.at = run.at \/ Active = {}
    PROVE  TasksKnow'
<1>1. ASSUME NEW s \in Snaps
      PROVE  Attempt(s)'
  BY <1>1, AttemptStays DEF Attempt
<1>2. Active' = Active
  BY DEF Active
<1> QED
  BY <1>1, <1>2 DEF TasksKnow, KInv, At

LEMMA TaskGoes ==
    ASSUME TaskInv, NEW s \in Snaps, NEW at, TaskTo(s, at)
    PROVE  /\ task'[s].at = at /\ task'[s].copy = task[s].copy /\ task'[s].own = task[s].own
           /\ \A r \in Snaps : r # s => task'[r] = task[r]
<1>1. TaskTyped(task[s])
  BY DEF TaskInv
<1>2. task'[s] = [task[s] EXCEPT !.at = at] /\ \A r \in Snaps : r # s => task'[r] = task[r]
  BY DEF TaskInv, TaskTo
<1> QED
  BY <1>1, <1>2 DEF TaskTyped

LEMMA TaskEnds ==
    ASSUME TaskInv, NEW s \in Snaps, TaskEnd(s)
    PROVE  task'[s] = NoTask /\ task'[s].at = "idle"
BY DEF TaskInv, TaskEnd, NoTask

LEMMA TasksStep ==
    ASSUME IInv, KInv, RowsStep, NEW s \in Snaps, TaskStep(s) \/ Lease(s)
    PROVE  TasksKnow' /\ run'.at = "tasks"
<1>0. At("tasks") /\ RunTyped(run) /\ TaskInv
  BY TaskAtWork DEF IInv, RunInv
<1>1. run'.at = "tasks"
  BY <1>0 DEF TaskStep, Lease, Task, Payload, Event, StartProcessing, HooksEnd, Completed, Project,
     Create, Finish, After, TaskMaintenance, Last, LastSeal, LastWake, Enqueue, RenewLease,
     HeartbeatCrawl, At, RunTyped
<1>2. ASSUME NEW r \in Snaps, r # s
      PROVE  Attempt(r)'
  <2>1. task'[r] = task[r]
    BY <1>0, <1>2 DEF TaskInv, TaskStep, Lease, Task, Payload, Event, StartProcessing, HooksEnd,
       Completed, Project, Create, Finish, After, TaskMaintenance, Last, LastSeal, LastWake,
       Enqueue, RenewLease, HeartbeatCrawl, TaskTo, TaskEnd
  <2> QED
    BY <2>1, AttemptStays DEF Attempt
<1>3. Attempt(s)'
  <2>1. CASE task'[s].at \notin AtWork
    BY <2>1 DEF Attempt
  <2>2. CASE Completed(s) /\ task'[s].at \in AtWork
    <3>1. task'[s].copy = row[s] /\ UNCHANGED row
      <4>1. CASE TaskTo(s, "after")
        BY <1>0, <2>2, <4>1, TaskGoes DEF AtWork
      <4>2. CASE ~TaskTo(s, "after")
        <5>1. task' = [task EXCEPT ![s].at = "project", ![s].copy = row[s]] /\ UNCHANGED row
          BY <2>2, <4>2 DEF Completed
        <5>2. task'[s] = [task[s] EXCEPT !.at = "project", !.copy = row[s]]
          BY <1>0, <5>1 DEF TaskInv
        <5> QED
          BY <1>0, <5>1, <5>2 DEF TaskInv, TaskTyped
      <4> QED
        BY <4>1, <4>2
    <3>2. task'[s].copy.status = Started => task'[s].copy.retry \in Stamps
      BY <3>1, ValuesDiffer DEF KInv, SnapsTimed, Status
    <3> QED
      BY <3>1, <3>2 DEF Attempt, Same, Status
  <2>3. CASE (Project(s) \/ Create(s)) /\ task'[s].at \in AtWork
    <3>1. task[s].at \in AtWork /\ task'[s].copy = task[s].copy
      <4>1. CASE Create(s)
        <5>1. task[s].at \in {"create", "create_again"} /\ TaskTo(s, Creating[task[s].at])
          BY <4>1 DEF Create, Creating
        <5>2. task'[s].at = Creating[task[s].at] /\ task'[s].copy = task[s].copy
          BY <1>0, <5>1, TaskGoes
        <5> QED
          BY <2>3, <5>1, <5>2 DEF Creating, AtWork
      <4>2. CASE Project(s)
        <5>1. PICK at : TaskTo(s, at)
          BY <4>2 DEF Project
        <5>2. task'[s].copy = task[s].copy
          BY <1>0, <5>1, TaskGoes
        <5>3. CASE task[s].at = "project_again"
          <6>1. TaskTo(s, "last") \/ TaskTo(s, "create_again")
            BY <4>2, <5>3 DEF Project, Projecting, TaskAt
          <6> QED
            BY <1>0, <2>3, <6>1, TaskGoes DEF AtWork
        <5> QED
          BY <4>2, <5>2, <5>3 DEF Project, Projecting, AtWork
      <4> QED
        BY <2>3, <4>1, <4>2
    <3> QED
      BY <3>1, AttemptStays
  <2>4. CASE HeartbeatCrawl
    BY <2>4, AttemptStays DEF HeartbeatCrawl, Attempt
  <2>5. CASE \/ Enqueue(s) \/ Payload(s) \/ Event(s) \/ StartProcessing(s) \/ HooksEnd(s)
             \/ RenewLease(s) \/ Finish(s) \/ After(s) \/ TaskMaintenance(s)
             \/ Last(s) \/ LastSeal(s) \/ LastWake(s)
    <3>1. \/ \E at \in {"payload", "completed", "last", "last_seal", "last_wake",
                         "project_again"} : TaskTo(s, at)
          \/ TaskEnd(s)
          \/ \E t : task' = [task EXCEPT ![s] = t]
                   /\ t.at \in {"event", "start", "hooks", "after", "maintenance"}
      <4>1. CASE Enqueue(s) \/ HooksEnd(s) \/ TaskMaintenance(s) \/ Last(s) \/ LastSeal(s) \/ LastWake(s)
        BY <4>1 DEF Enqueue, HooksEnd, TaskMaintenance, Last, LastSeal, LastWake, TaskTo
      <4>2. CASE Payload(s)
        <5>1. PICK t : t = [task[s] EXCEPT !.at = "event", !.loaded = Status(s) = Sealed]
          OBVIOUS
        <5>2. t.at = "event"
          BY <1>0, <5>1 DEF TaskInv, TaskTyped
        <5> QED
          BY <4>2, <5>1, <5>2 DEF Payload
      <4>3. CASE Event(s)
        <5>1. PICK t : t = IF Status(s) = Queued
                     THEN [task[s] EXCEPT !.at = "start", !.copy = row[s]]
                     ELSE [task[s] EXCEPT !.at = "hooks", !.sealed = Status(s) = Sealed,
                             !.own = IF Status(s) = Paused THEN @ ELSE row[s].retry]
          OBVIOUS
        <5>2. task' = [task EXCEPT ![s] = t] /\ t.at \in {"start", "hooks"}
          BY <1>0, <4>3, <5>1 DEF Event, TaskInv, TaskTyped
        <5> QED
          BY <5>2
      <4>4. CASE StartProcessing(s)
        <5>1. PICK t : t = [task[s] EXCEPT !.at = "hooks", !.own = row'[s].retry, !.copy = NoCopy]
          OBVIOUS
        <5>2. t.at = "hooks"
          BY <1>0, <5>1 DEF TaskInv, TaskTyped
        <5> QED
          BY <4>4, <5>1, <5>2 DEF StartProcessing
      <4>5. CASE RenewLease(s) /\ ~TaskEnd(s)
        <5>1. PICK t : t = [task[s] EXCEPT !.own = row'[s].retry]
          OBVIOUS
        <5>2. task' = [task EXCEPT ![s] = t] /\ t.at = "hooks"
          BY <1>0, <4>5, <5>1 DEF RenewLease, TaskAt, TaskInv, TaskTyped
        <5> QED
          BY <5>2
      <4>6. CASE Finish(s)
        <5>1. PICK t : t = [NoTask EXCEPT !.at = "after", !.loaded = task[s].loaded]
          OBVIOUS
        <5>2. task' = [task EXCEPT ![s] = t] /\ t.at = "after"
          BY <4>6, <5>1 DEF Finish, NoTask
        <5> QED
          BY <5>2
      <4>7. CASE After(s)
        <5>1. CASE TaskEnd(s) \/ TaskTo(s, "project_again")
          BY <5>1
        <5>2. CASE task' = [task EXCEPT ![s].at = "maintenance", ![s].copy = row[s]]
          <6>1. PICK t : t = [task[s] EXCEPT !.at = "maintenance", !.copy = row[s]]
            OBVIOUS
          <6>2. t.at = "maintenance"
            BY <1>0, <6>1 DEF TaskInv, TaskTyped
          <6> QED
            BY <5>2, <6>1, <6>2
        <5> QED
          BY <4>7, <5>1, <5>2 DEF After
      <4> QED
        BY <2>5, <4>1, <4>2, <4>3, <4>4, <4>5, <4>6, <4>7
    <3>2. task'[s].at \notin AtWork
      BY <1>0, <3>1, TaskGoes, TaskEnds DEF AtWork, TaskInv
    <3> QED
      BY <3>2 DEF Attempt
  <2> QED
    BY <2>1, <2>2, <2>3, <2>4, <2>5 DEF TaskStep, Lease, Task
<1> QED
  BY <1>1, <1>2, <1>3 DEF TasksKnow, At

-----------------------------------------------------------------------------
LEMMA CommandStays ==
    ASSUME KInv, RowsStep, UNCHANGED cmd
    PROVE  CommandKnows'
<1>1. cmd.at \in OnSnapshot => cmd.on \in Snaps /\ row'[cmd.on].status # Absent
  BY ExistStays, NamesDiffer DEF KInv, CommandKnows, Status
<1> QED
  BY <1>1 DEF KInv, CommandKnows, Status

(* A command knows what it has read.                                       *)
LEMMA CommandLearns ==
    ASSUME IInv, KInv, RowsStep, Command
    PROVE  CommandKnows'
<1>0. RowTypes /\ CmdTyped(cmd) /\ CommandKnows /\ Status(Crawl) # Absent
  BY DEF IInv, RowInv, CmdInv, KInv
<1>l. ASSUME NEW r, NEW at, Loaded(r, at)
      PROVE  cmd'.at = at /\ cmd'.on = r /\ cmd'.copy = row[r]
  BY <1>l DEF Loaded, NoCommand
<1>n. ASSUME cmd'.at \in {"none", "pause_list", "resume_children"}
      PROVE  CommandKnows'
  BY <1>n DEF CommandKnows, OnSnapshot
<1> USE <1>0, ValuesDiffer
<1>1. CASE CrawlPause
  BY <1>1, <1>l DEF CrawlPause, CommandKnows, OnSnapshot, Status
<1>2. CASE CrawlPauseList
  <2>1. /\ cmd'.at = "pause_child"
        /\ cmd'.seen = [s \in Snaps |-> IF Status(s) \in Open THEN Status(s) ELSE Absent]
    BY <1>2 DEF CrawlPauseList, NoCommand
  <2> QED
    BY <2>1 DEF CommandKnows, OnSnapshot
<1>3. ASSUME NEW s \in Snaps, CrawlPauseChild(s)
      PROVE  CommandKnows'
  <2>1. cmd'.at = "pause_child" /\ cmd'.seen = [cmd.seen EXCEPT ![s] = Absent]
    BY <1>3 DEF CrawlPauseChild, Continue, CmdTyped
  <2>2. cmd.seen \in [Snaps -> Open \cup {Absent}]
    BY <1>3 DEF CrawlPauseChild, Continue, CommandKnows
  <2>3. cmd'.seen \in [Snaps -> Open \cup {Absent}]
    BY <2>1, <2>2
  <2> QED
    BY <2>1, <2>3 DEF CommandKnows, OnSnapshot
<1>4. CASE CrawlResume
  BY <1>4, <1>l DEF CrawlResume, CommandKnows, OnSnapshot
<1>5. CASE CrawlCancel
  <2>1. cmd'.at = "cancel_row" /\ "cancel" \in Commands
    BY <1>5 DEF CrawlCancel, Begin, NoCommand
  <2> QED
    BY <2>1 DEF CommandKnows, OnSnapshot
<1>6. CASE AdminPause \/ AdminResume
  BY <1>6, CommandStays DEF AdminPause, AdminResume
<1>7. ASSUME NEW s \in Snaps, SnapshotPause(s)
      PROVE  CommandKnows'
  <2>1. /\ cmd'.at = "snapshot_pause_row" /\ cmd'.on = s /\ cmd'.copy = row[s]
        /\ Status(s) \in Runnable /\ UNCHANGED row
    BY <1>7, <1>l DEF SnapshotPause
  <2> QED
    BY <2>1 DEF CommandKnows, OnSnapshot, Status
<1>8. ASSUME NEW s \in Snaps, SnapshotResume(s)
      PROVE  CommandKnows'
  <2>1. /\ cmd'.at = "snapshot_resume_row" /\ cmd'.on = s
        /\ Status(s) # Absent /\ UNCHANGED row
    BY <1>8, <1>l DEF SnapshotResume
  <2> QED
    BY <2>1 DEF CommandKnows, OnSnapshot, Status
<1>9. ASSUME NEW s \in Snaps, SnapshotCancel(s)
      PROVE  CommandKnows'
  <2>1. /\ cmd'.at = "snapshot_cancel_row" /\ cmd'.on = s /\ "snapshot_cancel" \in Commands
        /\ Status(s) # Absent /\ UNCHANGED row
    BY <1>9, <1>l DEF SnapshotCancel, Begin
  <2> QED
    BY <2>1 DEF CommandKnows, OnSnapshot, Status
<1>10. ASSUME NEW s \in Snaps, QueueForExtraction(s)
       PROVE  CommandKnows'
  <2>1. /\ cmd'.at = "queue_row" /\ cmd'.on = s /\ "queue_for_extraction" \in Commands
        /\ Status(s) # Absent /\ UNCHANGED row
    BY <1>10, <1>l DEF QueueForExtraction, Begin
  <2> QED
    BY <2>1 DEF CommandKnows, OnSnapshot, Status
<1>11. ASSUME NEW s \in Snaps, Upload(s)
       PROVE  CommandKnows'
  <2>1. cmd'.at = "upload_read" /\ cmd'.on = s /\ Status(s) # Absent /\ UNCHANGED row
    BY <1>11 DEF Upload, NoCommand
  <2> QED
    BY <2>1 DEF CommandKnows, OnSnapshot, Status
<1>u. CASE UploadRead
  <2>1. /\ cmd'.at = "upload_row" /\ cmd'.on = cmd.on /\ cmd.on \in Snaps
        /\ Status(cmd.on) # Absent /\ UNCHANGED row
    BY <1>u, <1>l DEF UploadRead, Continue, CommandKnows, OnSnapshot
  <2> QED
    BY <2>1 DEF CommandKnows, OnSnapshot, Status
<1>12. CASE QueueRow
  <2>1. cmd'.at \in {"queue_read_crawl", "none"} /\ "queue_for_extraction" \in Commands
    BY <1>12 DEF QueueRow, Continue, NoCommand, CommandKnows
  <2> QED
    BY <2>1 DEF CommandKnows, OnSnapshot
<1>13. CASE QueueReadCrawl
  <2>1. cmd'.at = "queue_crawl" /\ "queue_for_extraction" \in Commands
    BY <1>13, <1>l DEF QueueReadCrawl, Continue, CommandKnows
  <2> QED
    BY <2>1 DEF CommandKnows, OnSnapshot
<1>14. CASE \/ CrawlPauseRow \/ CrawlPauseEnd \/ CrawlResumeRow \/ CrawlResumeChildren
            \/ CrawlCancelRow \/ SnapshotPauseRow \/ SnapshotResumeRow \/ SnapshotCancelRow
            \/ QueueCrawl \/ UploadRow
  <2>1. cmd'.at \in {"none", "pause_list", "resume_children"}
    BY <1>14 DEF CrawlPauseRow, CrawlPauseEnd, CrawlResumeRow, CrawlResumeChildren,
       CrawlCancelRow, SnapshotPauseRow, SnapshotResumeRow, SnapshotCancelRow, QueueCrawl,
       UploadRow, Finished, NoCommand
  <2> QED
    BY <1>n, <2>1
<1> QED
  BY <1>1, <1>2, <1>3, <1>4, <1>5, <1>6, <1>7, <1>8, <1>9, <1>10, <1>11, <1>12, <1>13, <1>14,
     <1>u DEF Command, OwnCommand, NextStatement

LEMMA InitiallyKnown ==
    ASSUME Init
    PROVE  KInv
<1>1. \A s \in Snaps : Status(s) = Absent
  BY RowAssumption, NamesDiffer DEF Init, Status, NoCopy
<1>2. SnapsTimed
  BY <1>1, ValuesDiffer DEF SnapsTimed
<1>3. RunnerKnows
  BY DEF Init, Idle, RunnerKnows, Decision, HandlesSnap, OnSnap, Decided, Timed, At
<1>4. TasksKnow
  BY DEF Init, NoTask, TasksKnow, Attempt, Active, AtWork
<1>5. CommandKnows /\ budget \in Int
  BY BudgetAssumption DEF Init, NoCommand, CommandKnows, OnSnapshot
<1> QED
  BY <1>2, <1>3, <1>4, <1>5 DEF KInv

LEMMA BudgetKept ==
    ASSUME budget \in Int, [Next]_vars
    PROVE  budget' \in Int
<1>1. CASE Command
  <2>1. budget' = budget \/ budget' = budget - 1
    BY <1>1 DEF Command, OwnCommand, NextStatement, CrawlPause, CrawlResume, CrawlCancel, AdminPause,
       AdminResume, SnapshotPause, SnapshotResume, SnapshotCancel, QueueForExtraction, Upload,
       CrawlPauseRow, CrawlPauseList, CrawlPauseEnd, CrawlPauseChild, CrawlResumeRow,
       CrawlResumeChildren, CrawlCancelRow, SnapshotPauseRow, SnapshotResumeRow,
       SnapshotCancelRow, QueueRow, QueueReadCrawl, QueueCrawl, UploadRead, UploadRow, Begin, Continue
  <2> QED
    BY <2>1
<1>2. CASE ~Command
  BY <1>2 DEF Next, Runner, OrphanEnds, Die, Signal, LeaseExpires, vars
<1> QED
  BY <1>1, <1>2

(* Every step is one of the runner's moves, or a command and a move of the *)
(* user's, and all that is known stays known.                              *)
LEMMA EveryStep ==
    ASSUME IInv, KInv, [Next]_vars
    PROVE  RowsStep /\ Hidden /\ (RunnerMove \/ (Command /\ UserMove)) /\ KInv'
<1>0. RowTypes /\ RunInv /\ budget' \in Int
  BY BudgetKept DEF IInv, RowInv, KInv
<1>1. ASSUME RowTypes', UNCHANGED row
      PROVE  RowsStep /\ Stays /\ Hidden /\ RunnerMove
  BY <1>0, <1>1, RowsHide, StaysMoves DEF RowsStep, RowStep
<1>2. CASE Runner(RunnerStep) \/ Runner(IdleRecovery) \/ Runner(Watch) \/ Signal
  <2>1. UNCHANGED <<task, hooks, cmd>>
    BY <1>2, RunnerLeaves
  <2>2. RowsStep
    BY <1>0, <1>2, ScheduleRows, PhaseRows, RecoverRows, NoRows
       DEF Runner, RunnerStep, Restart, IdleRecovery, Watch, Signal, Interrupt, Reads
  <2>3. RunnerMove /\ Hidden
    <3>1. CASE Schedule \/ RunPhases \/ Recover
      BY <3>1, ScheduleMoves, PhaseMoves, RecoverMoves
    <3>2. CASE Restart \/ IdleRecovery \/ Watch \/ Signal
      <4>1. UNCHANGED row
        BY <3>2 DEF Restart, IdleRecovery, Watch, Signal, Interrupt, Reads
      <4> QED
        BY <1>0, <4>1, RowsHide, StaysMoves
    <3> QED
      BY <1>2, <3>1, <3>2 DEF Runner, RunnerStep
  <2>4. SnapsTimed' /\ RunnerKnows'
    BY <1>2, <2>2, <2>3, ScheduleKnows, PhaseKnows, RecoverKnows DEF Runner, RunnerStep, Signal
  <2>5. TasksKnow'
    <3>1. CASE Watch \/ Signal
      <4>1. run'.at = run.at
        BY <1>0, <3>1 DEF Watch, Signal, Interrupt, RunInv, RunTyped
      <4> QED
        BY <2>1, <2>2, <4>1, AttemptsStay
    <3>2. CASE ~(Watch \/ Signal)
      <4>1. Active = {}
        BY <1>2, <3>2, RunnerAlone DEF Runner, RunnerStep
      <4> QED
        BY <2>1, <2>2, <4>1, AttemptsStay
    <3> QED
      BY <3>1, <3>2
  <2>6. CommandKnows'
    BY <2>1, <2>2, CommandStays
  <2> QED
    BY <1>0, <2>2, <2>3, <2>4, <2>5, <2>6 DEF KInv
<1>3. ASSUME NEW s \in Snaps, Runner(TaskStep(s)) \/ Runner(Lease(s))
      PROVE  RowsStep /\ Hidden /\ RunnerMove /\ KInv'
  <2>1. RowsStep /\ RunnerMove /\ Hidden
    BY <1>3, TaskRows, TaskMovesRows DEF Runner
  <2>2. TasksKnow' /\ run'.at = "tasks"
    BY <1>3, <2>1, TasksStep DEF Runner
  <2>3. SnapsTimed' /\ CrawlTimed'
    <3>1. At("tasks") /\ CrawlTimed
      BY <1>3, TaskAtWork DEF Runner, KInv, RunnerKnows, Timed, At
    <3> QED
      BY <2>1, <3>1, TimedStays DEF At, Parking
  <2>4. RunnerKnows'
    BY <2>2, <2>3, RunnerTimed DEF Timed
  <2>5. CommandKnows'
    BY <1>3, <2>1, CommandStays DEF Runner
  <2> QED
    BY <1>0, <2>1, <2>2, <2>3, <2>4, <2>5 DEF KInv
<1>4. CASE Command
  <2>1. RowsStep /\ UserMove /\ Hidden /\ UNCHANGED <<run, task, hooks>>
    BY <1>4, CommandRows, CommandMoves DEF Command
  <2>2. \A s \in Snaps : Status(s) = Absent => Status(s)' = Absent
    BY <2>1, ValuesDiffer, NamesDiffer, RowAssumption DEF UserMove, Moves, Stays
  <2>3. SnapsTimed' /\ RunnerKnows'
    BY <2>1, <2>2, RunnerStays
  <2>4. TasksKnow' /\ CommandKnows'
    BY <1>4, <2>1, AttemptsStay, CommandLearns
  <2> QED
    BY <1>0, <1>4, <2>1, <2>3, <2>4 DEF KInv
<1>5. CASE Die
  <2>1. RowsStep /\ Stays /\ Hidden /\ RunnerMove
    BY <1>0, <1>1, <1>5 DEF Die, RowTypes
  <2>2. SnapsTimed' /\ RunnerKnows'
    BY <1>5, <2>1, TimedStays, RunnerElsewhere
       DEF Die, Down, Idle, Knowing, HandlesSnap, OnSnap, Decided, Timed
  <2>3. TasksKnow'
    BY <1>5 DEF Die, TasksKnow, Attempt, Active, AtWork, NoTask
  <2> QED
    BY <1>0, <1>5, <2>1, <2>2, <2>3, CommandStays DEF KInv, Die
<1>6. CASE (\E s \in Snaps : OrphanEnds(s)) \/ (\E r \in Rows : LeaseExpires(r)) \/ UNCHANGED vars
  <2>1. UNCHANGED <<row, run, task, cmd>>
    BY <1>6 DEF OrphanEnds, LeaseExpires, vars
  <2>2. RowTypes'
    BY <1>0, <1>6 DEF OrphanEnds, LeaseExpires, vars, RowTypes
  <2>3. RowsStep /\ Stays /\ Hidden /\ RunnerMove
    BY <1>1, <2>1, <2>2
  <2>4. SnapsTimed' /\ RunnerKnows'
    BY <2>1, <2>3, NamesDiffer, RunnerStays DEF Stays
  <2> QED
    BY <1>0, <2>1, <2>3, <2>4, AttemptsStay, CommandStays DEF KInv
<1> QED
  BY <1>2, <1>3, <1>4, <1>5, <1>6 DEF Next

(* What the runner, its tasks and the command know holds throughout.       *)
THEOREM Knowledge == Spec => [](IInv /\ KInv)
<1>1. Init => IInv /\ KInv
  BY Initially, InitiallyKnown
<1>2. IInv /\ KInv /\ [Next]_vars => (IInv /\ KInv)'
  BY Inductive, EveryStep
<1> QED
  BY <1>1, <1>2, PTL DEF Spec

(* A queued or started snapshot is in the queue under a timestamp: it is   *)
(* never hidden by RETRY_AT_MAX, which only pauses write to snapshots.     *)
THEOREM SnapshotsTimed == Spec => []SnapsTimed
<1>1. KInv => SnapsTimed
  BY DEF KInv
<1> QED
  BY <1>1, Knowledge, PTL

-----------------------------------------------------------------------------
(* Every statement of a command shows in cmd or budget: a step that leaves *)
(* both alone is the runner's, a task's, a lease's or a hook process's.    *)
LEMMA CommandTells ==
    ASSUME IInv, KInv, Command
    PROVE  ~ByRunner
<1>0. CmdTyped(cmd) /\ CommandKnows /\ budget \in Int
  BY DEF IInv, CmdInv, KInv
<1>1. ASSUME NEW kind, Begin(kind)
      PROVE  ~ByRunner
  BY <1>0, <1>1 DEF Begin, ByRunner
<1>2. ASSUME NEW s \in Snaps, CrawlPauseChild(s)
      PROVE  ~ByRunner
  <2>1. cmd.seen \in [Snaps -> Open \cup {Absent}] /\ cmd.seen[s] # Absent
    BY <1>0, <1>2 DEF CrawlPauseChild, Continue, CommandKnows
  <2>2. cmd'.seen[s] = Absent
    <3>1. cmd'.seen = [cmd.seen EXCEPT ![s] = Absent]
      BY <1>0, <1>2 DEF CrawlPauseChild, CmdTyped
    <3> QED
      BY <2>1, <3>1
  <2> QED
    BY <2>1, <2>2 DEF ByRunner
<1>3. ASSUME NextStatement, ~\E s \in Snaps : CrawlPauseChild(s)
      PROVE  cmd'.at # cmd.at
  <2>1. CASE CrawlPauseList
    <3>1. cmd'.at = "pause_child"
      BY <2>1 DEF CrawlPauseList, NoCommand
    <3> QED
      BY <2>1, <3>1 DEF CrawlPauseList, Continue
  <2>2. CASE CrawlPauseEnd \/ CrawlResumeChildren \/ QueueCrawl
    <3>1. cmd'.at = "none"
      BY <2>2, Typed DEF CrawlPauseEnd, CrawlResumeChildren, QueueCrawl, Finished
    <3> QED
      BY <2>2, <3>1 DEF CrawlPauseEnd, CrawlResumeChildren, QueueCrawl, Continue
  <2>3. CASE QueueReadCrawl
    <3>1. cmd'.at = "queue_crawl"
      BY <2>3 DEF QueueReadCrawl, Loaded, NoCommand
    <3> QED
      BY <2>3, <3>1 DEF QueueReadCrawl, Continue
  <2>6. CASE UploadRead
    <3>1. cmd'.at = "upload_row"
      BY <2>6 DEF UploadRead, Loaded, NoCommand
    <3> QED
      BY <2>6, <3>1 DEF UploadRead, Continue
  <2>4. CASE \/ CrawlPauseRow \/ CrawlResumeRow \/ CrawlCancelRow \/ SnapshotPauseRow
             \/ SnapshotResumeRow \/ SnapshotCancelRow \/ UploadRow
    <3>1. cmd'.at \in {"none", "pause_list", "resume_children"}
      BY <2>4 DEF CrawlPauseRow, CrawlResumeRow, CrawlCancelRow, SnapshotPauseRow,
         SnapshotResumeRow, SnapshotCancelRow, UploadRow, Finished, NoCommand
    <3> QED
      BY <2>4, <3>1 DEF CrawlPauseRow, CrawlResumeRow, CrawlCancelRow, SnapshotPauseRow,
         SnapshotResumeRow, SnapshotCancelRow, UploadRow, Continue
  <2>5. CASE QueueRow
    <3>1. cmd'.at \in {"none", "queue_read_crawl"}
      BY <2>5 DEF QueueRow, NoCommand
    <3> QED
      BY <2>5, <3>1 DEF QueueRow, Continue
  <2> QED
    BY <1>3, <2>1, <2>2, <2>3, <2>4, <2>5, <2>6 DEF NextStatement
<1>4. CASE NextStatement
  BY <1>2, <1>3, <1>4 DEF ByRunner
<1> QED
  BY <1>1, <1>4 DEF Command, OwnCommand, CrawlPause, CrawlResume, CrawlCancel, AdminPause, AdminResume,
     SnapshotPause, SnapshotResume, SnapshotCancel, QueueForExtraction, Upload

(* What the runner may do to a row the user has sealed or paused: nothing, *)
(* but for four of its statements.                                         *)
RespectsUser(r) ==
    /\ Status(r) = Sealed =>
         \/ Status(r)' = Sealed
         \/ r = Crawl /\ At("requeue_live_crawl")
         \/ Reopens(r) /\ At(IF r = Crawl THEN "recover_upload_crawl" ELSE "recover_uploads")
    /\ Status(r) = Paused /\ Status(r)' # Paused =>
         \/ r = Crawl /\ At("requeue_live_crawl")
         \/ r # Crawl /\ Status(r)' = Sealed /\ At("reconcile_seal") /\ run.parent = Sealed

LEMMA MoveRespects ==
    ASSUME RunnerMove, NEW r \in Rows
    PROVE  RespectsUser(r)
<1> USE ValuesDiffer, NamesDiffer, RowAssumption DEF RespectsUser, Moves
<1>0. CASE Stays
  BY <1>0 DEF Stays
<1>1. CASE \E R \in SUBSET Snaps : Moves(R, {Absent}, Queued)
  BY <1>1
<1>2. CASE \E q \in Rows : Moves({q}, {Queued}, Started)
  BY <1>2
<1>3. CASE \E s \in Snaps : Moves({s}, Runnable, Paused)
  BY <1>3
<1>4. CASE Moves({Crawl}, Runnable, Sealed)
  BY <1>4
<1>5. CASE \E s \in Snaps : TaskAt(s, "finish") /\ Moves({s}, {Started}, Sealed)
  BY <1>5
<1>6. CASE /\ At("reconcile_seal") /\ run.parent = Sealed
           /\ \E s \in Snaps : Moves({s}, Open, Sealed)
  BY <1>6
<1>7. CASE At("requeue_live_crawl") /\ \E new \in Runnable : Moves({Crawl}, Open \cup {Sealed}, new)
  BY <1>7
<1>8. CASE At("recover_upload_crawl") /\ Unserved # {} /\ Moves({Crawl}, {Sealed}, Started)
  BY <1>8 DEF Reopens
<1>9. CASE At("recover_uploads") /\ Status(Crawl) # Paused /\ Moves(Unserved, {Sealed}, Queued)
  BY <1>9 DEF Reopens, Unserved
<1> QED
  BY <1>0, <1>1, <1>2, <1>3, <1>4, <1>5, <1>6, <1>7, <1>8, <1>9 DEF RunnerMove

(* The runner overrules the user by four statements at most, whatever the  *)
(* commands, deaths and slots: update_and_requeue may write a crawl that   *)
(* it read sealed or paused back as queued, Snapshot.seal may end the      *)
(* pause of a snapshot whose crawl the runner has read sealed, and the     *)
(* recovery opens sealed snapshots that have nothing but uploads, never in *)
(* a paused crawl, and a sealed crawl while there are such snapshots.      *)
THEOREM RunnerRespectsUser == Spec => [][ByRunner => \A r \in Rows : RespectsUser(r)]_vars
<1>1. IInv /\ KInv /\ [Next]_vars => [ByRunner => \A r \in Rows : RespectsUser(r)]_vars
  BY EveryStep, CommandTells, MoveRespects
<1> QED
  BY <1>1, Knowledge, PTL DEF Spec

-----------------------------------------------------------------------------
(* The control flow of the scheduler, as far as the theorems below ask:    *)
(* what it has just read or written when it comes to a statement.          *)
Requeueing == {"requeue_live", "requeue_live_read", "requeue_live_crawl"}
Phases     == {"run_load", "create_roots", "setup", "start_event", "tasks"}
Sealing    == {"completed_seal", "finalize_seal"}

ScheduleFlow ==
    /\ run'.at \in Requeueing => run.at \in Requeueing \/ run.on \in hooks
    /\ run'.at = "reconcile_claim" =>
         At("snapshot_load") /\ UNCHANGED row /\ run.on \in Snaps /\ run'.parent = Status(Crawl)
           /\ Follows(Status(Crawl), Status(run.on))
    /\ run'.at = "reconcile_recheck" => At("reconcile_claim") /\ run'.parent = run.parent
    /\ run'.at = "reconcile_seal" =>
         At("reconcile_recheck") /\ UNCHANGED row /\ run.parent = Sealed /\ Status(Crawl) = Sealed
    /\ run'.at = "start" => run'.on \notin hooks
    /\ run'.at = "crawl_admit" => CrawlIsolation
    /\ run'.at = "crawl_start" => UNCHANGED row /\ Existing = {}
    /\ run'.at = "advance_or_run" => At("crawl_start") /\ Stays
    /\ run'.at = "seal" => UNCHANGED row /\ IsFinished
    /\ run'.at = "run_load" =>
         IF run'.explicit
         THEN At("start") /\ run'.ids = {run.on} /\ row'[run.on].status = Started
         ELSE run.at \in {"crawl_admit", "advance_or_run"} /\ run'.ids = {}
    /\ run'.at \notin (Phases \ {"run_load"}) \cup Sealing

(* Where most of the statements lead, nothing is asked.                    *)
Elsewhere == Requeueing \cup Phases \cup Sealing \cup
    {"reconcile_claim", "reconcile_recheck", "reconcile_seal", "start", "crawl_admit",
     "crawl_start", "advance_or_run", "seal"}

LEMMA ScheduleFlows ==
    ASSUME IInv, KInv, Schedule
    PROVE  ScheduleFlow
<1>0. RunTyped(run) /\ RowTypes /\ (run.at \in OnSnap => run.on \in Snaps)
  BY DEF IInv, RowInv, RunInv
<1>e. ASSUME run'.at \notin Elsewhere
      PROVE  ScheduleFlow
  BY <1>e DEF ScheduleFlow, Elsewhere, Requeueing, Phases, Sealing
<1>g. ASSUME NEW at, GoTo(at) \/ \E copy : GoOn(at, copy), at \notin Elsewhere
      PROVE  ScheduleFlow
  BY <1>0, <1>e, <1>g, GoesTo, GoesOn
<1>n. /\ {"idle", "down", "crawl_load", "snapshot_load", "maintenance_check", "maintenance_load",
          "maintenance", "snapshot_claim", "snapshot_refresh", "cleanup_claim", "cleanup",
          "crawl_children", "crawl_extend", "crawl_pending", "crawl_finish", "crawl_unlock",
          "crawl_next", "crawl_again", "crawl_wait", "crawl_wait_max", "advance",
          "seal_children"} \cap Elsewhere = {}
  BY DEF Elsewhere, Requeueing, Phases, Sealing
<1>r. (Return(TRUE) \/ Return(FALSE) \/ \E p : Return(p)) => ScheduleFlow
  BY <1>e, Returns DEF Elsewhere, Requeueing, Phases, Sealing
<1> USE <1>0
<1>1. CASE Pick \/ EndPass
  <2>1. run'.at \in {"crawl_load", "snapshot_load", "idle"}
    <3>1. CASE Pick
      <4>1. PICK r : run' = [Idle EXCEPT !.at = IF r = Crawl THEN "crawl_load" ELSE "snapshot_load",
                                         !.pass = FirstQuery, !.on = r]
        BY <3>1 DEF Pick
      <4> QED
        BY <4>1 DEF Idle
    <3>2. CASE EndPass
      BY <3>2 DEF EndPass, Idle
    <3> QED
      BY <1>1, <3>1, <3>2
  <2> QED
    BY <1>e, <1>n, <2>1
<1>2. CASE SnapshotLoad
  <2>1. PICK at \in {"reconcile_claim", "restore_marker", "maintenance_claim", "admit"} :
           SnapshotTo(at) /\ (at = "reconcile_claim" => Follows(Status(Crawl), Status(run.on)))
    BY <1>2 DEF SnapshotLoad
  <2>2. /\ run'.at = at /\ run'.parent = Status(Crawl) /\ run.on \in Snaps
        /\ At("snapshot_load") /\ UNCHANGED row
    BY <1>2, <2>1 DEF SnapshotTo, RunTyped, SnapshotLoad, At, OnSnap, Reads
  <2> QED
    BY <2>1, <2>2 DEF ScheduleFlow, Requeueing, Phases, Sealing
<1>3. CASE ReconcileClaim
  <2>1. CASE GoOn("reconcile_recheck", row'[run.on])
    BY <1>3, <2>1, GoesOn DEF ReconcileClaim, At, ScheduleFlow, Requeueing, Phases, Sealing
  <2> QED
    BY <1>3, <1>r, <2>1 DEF ReconcileClaim
<1>4. CASE ReconcileRecheck
  <2>1. CASE ~Return(TRUE)
    <3>1. /\ Status(Crawl) = run.parent /\ UNCHANGED row /\ At("reconcile_recheck")
          /\ GoOn(IF run.parent = Sealed THEN "reconcile_seal" ELSE "reconcile_pause", row[run.on])
      BY <1>4, <2>1 DEF ReconcileRecheck, Reads
    <3>2. run'.at = IF run.parent = Sealed THEN "reconcile_seal" ELSE "reconcile_pause"
      BY <3>1, GoesOn
    <3> QED
      BY <3>1, <3>2 DEF ScheduleFlow, Requeueing, Phases, Sealing
  <2> QED
    BY <1>r, <2>1
<1>5. CASE MaintenanceClaim
  <2>1. CASE GoOn("maintenance_check", row'[run.on])
    BY <1>g, <1>n, <2>1
  <2> QED
    BY <1>5, <1>r, <2>1 DEF MaintenanceClaim
<1>6. CASE MaintenanceCheck
  <2>1. CASE GoTo("maintenance_load")
    BY <1>g, <1>n, <2>1
  <2> QED
    BY <1>6, <1>r, <2>1 DEF MaintenanceCheck
<1>7. CASE MaintenanceLoad
  BY <1>7, <1>g, <1>n DEF MaintenanceLoad
<1>8. CASE Admit
  <2>1. CASE ~CrawlIsolation
    BY <1>8, <1>g, <1>n, <2>1 DEF Admit
  <2>2. CASE CrawlIsolation /\ run.on \in hooks
    <3>1. run'.at = "requeue_live"
      BY <1>8, <2>2, GoesTo DEF Admit
    <3> QED
      BY <2>2, <3>1 DEF ScheduleFlow, Requeueing, Phases, Sealing
  <2>3. CASE CrawlIsolation /\ run.on \notin hooks
    <3>1. run'.at = "crawl_admit"
      BY <1>8, <2>3 DEF Admit, RunTyped
    <3> QED
      BY <2>3, <3>1 DEF ScheduleFlow, Requeueing, Phases, Sealing
  <2> QED
    BY <2>1, <2>2, <2>3
<1>9. CASE CrawlAdmit
  <2>1. CASE run' = [Idle EXCEPT !.at = "run_load"]
    <3>1. run'.at = "run_load" /\ ~run'.explicit /\ run'.ids = {} /\ At("crawl_admit")
      BY <1>9, <2>1 DEF Idle, CrawlAdmit
    <3> QED
      BY <3>1 DEF ScheduleFlow, Requeueing, Phases, Sealing, At
  <2> QED
    BY <1>9, <1>r, <2>1 DEF CrawlAdmit
<1>10. CASE SnapshotClaim
  <2>1. CASE GoOn("snapshot_refresh", row'[run.on])
    BY <1>g, <1>n, <2>1
  <2> QED
    BY <1>10, <1>r, <2>1 DEF SnapshotClaim
<1>11. CASE SnapshotRefresh
  <2>1. CASE run.on \in hooks
    <3>1. run'.at = "requeue_live"
      BY <1>11, <2>1, GoesOn DEF SnapshotRefresh
    <3> QED
      BY <2>1, <3>1 DEF ScheduleFlow, Requeueing, Phases, Sealing
  <2>2. CASE run.on \notin hooks
    <3>1. run'.at = "start" /\ run'.on = run.on
      BY <1>11, <2>2, GoesOn DEF SnapshotRefresh
    <3> QED
      BY <2>2, <3>1 DEF ScheduleFlow, Requeueing, Phases, Sealing
  <2> QED
    BY <2>1, <2>2
<1>12. CASE Start
  <2>1. CASE ~Return(TRUE)
    <3>1. /\ run' = [Idle EXCEPT !.at = "run_load", !.ids = {run.on}, !.explicit = TRUE]
          /\ row'[run.on].status = Started /\ At("start")
      BY <1>12, <2>1 DEF Start
    <3>2. run'.at = "run_load" /\ run'.explicit /\ run'.ids = {run.on}
      BY <3>1 DEF Idle
    <3> QED
      BY <3>1, <3>2 DEF ScheduleFlow, Requeueing, Phases, Sealing
  <2> QED
    BY <1>r, <2>1
<1>13. CASE RequeueLive
  <2>1. CASE GoOn("requeue_live_read", NoCopy)
    <3>1. run'.at = "requeue_live_read" /\ run.at \in Requeueing
      BY <1>13, <2>1, GoesOn DEF RequeueLive, At, Requeueing
    <3> QED
      BY <3>1 DEF ScheduleFlow, Requeueing, Phases, Sealing
  <2> QED
    BY <1>13, <1>r, <2>1 DEF RequeueLive
<1>14. CASE RequeueLiveRead
  <2>1. run'.at = "requeue_live_crawl" /\ run.at \in Requeueing
    BY <1>14 DEF RequeueLiveRead, RunTyped, At, Requeueing
  <2> QED
    BY <2>1 DEF ScheduleFlow, Requeueing, Phases, Sealing
<1>15. CASE CrawlLoad
  <2>1. CASE GoOn("cleanup_claim", row[Crawl]) \/ GoOn("crawl_children", row[Crawl])
    BY <1>g, <1>n, <2>1
  <2> QED
    BY <1>15, <1>r, <2>1 DEF CrawlLoad
<1>16. CASE CrawlChildren
  <2>1. CASE GoTo("crawl_extend") \/ GoTo("crawl_pending")
    BY <1>g, <1>n, <2>1
  <2>2. CASE GoTo("crawl_start") /\ Existing = {} /\ UNCHANGED row
    BY <2>2, GoesTo DEF ScheduleFlow, Requeueing, Phases, Sealing
  <2> QED
    BY <1>16, <1>r, <2>1, <2>2 DEF CrawlChildren, Reads
<1>17. CASE CrawlPending
  BY <1>17, <1>g, <1>n DEF CrawlPending
<1>18. CASE CrawlClaim
  <2>1. CASE At("crawl_finish")
    <3>1. CASE GoOn("advance", row'[Crawl])
      BY <1>g, <1>n, <3>1
    <3> QED
      BY <1>18, <1>r, <2>1, <3>1 DEF CrawlClaim
  <2>2. CASE At("crawl_start")
    <3>1. Stays
      BY <1>18, SetKeeps, NamesDiffer DEF CrawlClaim
    <3>2. CASE GoOn("advance_or_run", row'[Crawl])
      BY <2>2, <3>1, <3>2, GoesOn DEF ScheduleFlow, Requeueing, Phases, Sealing
    <3> QED
      BY <1>18, <1>r, <2>2, <3>2 DEF CrawlClaim, At
  <2> QED
    BY <1>18, <2>1, <2>2 DEF CrawlClaim
<1>19. CASE Advance
  <2>1. CASE Seals /\ GoTo("seal") /\ UNCHANGED <<row, due>>
    BY <2>1, GoesTo DEF Seals, ScheduleFlow, Requeueing, Phases, Sealing
  <2>2. CASE At("advance_or_run") /\ run' = [Idle EXCEPT !.at = "run_load"]
    <3>1. run'.at = "run_load" /\ ~run'.explicit /\ run'.ids = {}
      BY <2>2 DEF Idle
    <3> QED
      BY <2>2, <3>1 DEF ScheduleFlow, Requeueing, Phases, Sealing, At
  <2> QED
    BY <1>19, <1>r, <2>1, <2>2 DEF Advance
<1>20. CASE Seal
  <2>1. CASE GoOn("seal_children", NoCopy)
    BY <1>g, <1>n, <2>1
  <2> QED
    BY <1>20, <1>r, <2>1 DEF Seal
<1>21. CASE CrawlUnlock \/ CrawlNext
  <2>1. PICK at \in {"crawl_next", "crawl_again", "crawl_wait", "crawl_wait_max"} : GoTo(at)
    BY <1>21 DEF CrawlUnlock, CrawlNext
  <2> QED
    BY <1>g, <1>n, <2>1
<1>22. CASE CleanupClaim
  <2>1. CASE GoOn("cleanup", row'[Crawl])
    BY <1>g, <1>n, <2>1
  <2> QED
    BY <1>22, <1>r, <2>1 DEF CleanupClaim
<1>23. CASE \/ ReconcileSeal \/ ReconcilePause \/ RestoreMarker \/ Maintenance
            \/ RequeueLiveCrawl \/ CrawlExtend \/ SealChildren \/ CrawlAgain \/ CrawlWait
            \/ Cleanup
  BY <1>23, <1>r DEF ReconcileSeal, ReconcilePause, RestoreMarker, Maintenance,
     RequeueLiveCrawl, CrawlExtend, SealChildren, CrawlAgain, CrawlWait, Cleanup
<1> QED
  BY <1>1, <1>2, <1>3, <1>4, <1>5, <1>6, <1>7, <1>8, <1>9, <1>10, <1>11, <1>12, <1>13,
     <1>14, <1>15, <1>16, <1>17, <1>18, <1>19, <1>20, <1>21, <1>22, <1>23 DEF Schedule

(* ... of a run and of the recovery, ...                                   *)
PhaseFlow ==
    /\ run'.at \in Phases =>
         /\ run.at \in Phases /\ run'.explicit = run.explicit
         /\ run'.ids \subseteq run.ids \cup Existing'
         /\ run.explicit /\ ~At("create_roots") => run'.ids \subseteq run.ids
         /\ run'.at = run.at => run'.ids = run.ids
    /\ run'.at = "create_roots" => UNCHANGED row /\ ~run.explicit /\ Status(Crawl) \in Runnable
    /\ run'.at = "seal" => UNCHANGED row /\ IsFinished
    /\ run'.at \in Sealing => UNCHANGED row /\ IsFinished
    /\ run'.at \notin Requeueing \cup
         {"run_load", "reconcile_claim", "reconcile_recheck", "reconcile_seal", "start",
          "crawl_admit", "crawl_start", "advance_or_run"}

LEMMA PhaseFlows ==
    ASSUME IInv, KInv, RunPhases \/ Watch \/ Interrupt
    PROVE  PhaseFlow
<1>0. RunTyped(run) /\ RowTypes /\ RunnerKnows
  BY DEF IInv, RowInv, RunInv, KInv
<1>e. ASSUME run'.at \notin Elsewhere
      PROVE  PhaseFlow
  BY <1>e DEF PhaseFlow, Elsewhere, Requeueing, Phases, Sealing
<1>n. {"idle", "down", "cleanup_event", "completed_read", "completed_requeue", "finalize_read",
       "finalize_requeue"} \cap Elsewhere = {}
  BY DEF Elsewhere, Requeueing, Phases, Sealing
<1>r. Return(TRUE) => PhaseFlow
  BY <1>e, <1>n, Returns
<1>g. ASSUME NEW at, GoTo(at), at \notin Elsewhere
      PROVE  PhaseFlow
  BY <1>0, <1>e, <1>g, GoesTo
<1>p. ASSUME run.at \in Phases, run'.at \in Phases \ {"run_load", "create_roots"},
             run'.explicit = run.explicit, run'.ids = run.ids
      PROVE  PhaseFlow
  BY <1>p DEF PhaseFlow, Elsewhere, Requeueing, Phases, Sealing
<1> USE <1>0
<1>1. CASE RunLoad
  <2>0. UNCHANGED row /\ At("run_load") /\ (run.explicit => run.ids # {})
    BY <1>1 DEF RunLoad, At, Reads, RunnerKnows
  <2>1. CASE Selected = {} /\ GoTo(IF Existing = {} /\ Status(Crawl) \in Runnable
                                   THEN "create_roots" ELSE "finalize_read")
    <3>1. CASE Existing = {} /\ Status(Crawl) \in Runnable
      <4>1. run'.at = "create_roots" /\ run'.explicit = run.explicit /\ run'.ids = run.ids
        BY <2>1, <3>1, GoesTo
      <4>2. ~run.explicit
        BY <2>0, <2>1, <3>1, ValuesDiffer DEF Selected
      <4> QED
        BY <2>0, <3>1, <4>1, <4>2 DEF PhaseFlow, Requeueing, Phases, Sealing, At
    <3>2. CASE ~(Existing = {} /\ Status(Crawl) \in Runnable)
      BY <1>g, <1>n, <2>1, <3>2
    <3> QED
      BY <3>1, <3>2
  <2>2. CASE \E s \in FirstOf(Selected) :
            run' = [run EXCEPT !.at = "setup", !.ids = {s}, !.on = NoRow, !.copy = NoCopy,
                               !.parent = Reload]
    <3>1. PICK s \in Selected :
            run' = [run EXCEPT !.at = "setup", !.ids = {s}, !.on = NoRow, !.copy = NoCopy,
                               !.parent = Reload]
      BY <2>2 DEF FirstOf
    <3>2. run'.at = "setup" /\ run'.explicit = run.explicit /\ run'.ids = {s}
      BY <3>1 DEF RunTyped
    <3>3. s \in run.ids \cup Existing /\ (run.explicit => s \in run.ids)
      BY <2>0, ValuesDiffer DEF Selected, DueRunnable, Existing, With
    <3>4. Existing' = Existing
      BY <2>0 DEF Existing, With, Status
    <3> QED
      BY <2>0, <3>2, <3>3, <3>4 DEF PhaseFlow, Requeueing, Phases, Sealing, At
  <2> QED
    BY <1>1, <2>1, <2>2 DEF RunLoad
<1>2. CASE CreateRoots
  <2>1. PICK s \in Roots : run' = [run EXCEPT !.at = "setup", !.ids = {s}]
    BY <1>2 DEF CreateRoots
  <2>2. run'.at = "setup" /\ run'.explicit = run.explicit /\ run'.ids = {s}
    BY <2>1 DEF RunTyped
  <2>3. s \in Existing'
    <3>1. row'[s].status = Queued
      BY <1>2, NamesDiffer DEF CreateRoots, Update, Snaps
    <3> QED
      BY <3>1, ValuesDiffer DEF Existing, With, Status, Snaps
  <2> QED
    BY <1>2, <2>2, <2>3 DEF CreateRoots, PhaseFlow, Requeueing, Phases, Sealing, At
<1>3. CASE Setup
  <2>1. run'.at = "start_event" /\ run'.explicit = run.explicit /\ run'.ids = run.ids
    BY <1>3 DEF Setup, RunTyped
  <2> QED
    BY <1>3, <1>p, <2>1 DEF Setup, At, Phases
<1>4. CASE StartEvent
  <2>1. PICK at \in {"cleanup_event", "tasks"} : GoTo(at)
    BY <1>4 DEF StartEvent
  <2> QED
    BY <1>4, <1>g, <1>n, <1>p, <2>1, GoesTo DEF StartEvent, At, Phases
<1>5. CASE TasksDone
  <2>1. run'.at = "cleanup_event"
    BY <1>5 DEF TasksDone, RunTyped
  <2> QED
    BY <1>e, <1>n, <2>1
<1>6. CASE CleanupEvent
  BY <1>6, <1>g, <1>n DEF CleanupEvent
<1>7. CASE CompletedRead
  <2>1. CASE GoTo("completed_seal") /\ IsFinished /\ UNCHANGED row
    BY <2>1, GoesTo DEF PhaseFlow, Requeueing, Phases, Sealing
  <2> QED
    BY <1>7, <1>g, <1>n, <2>1 DEF CompletedRead, Reads
<1>8. CASE CompletedWrite
  BY <1>8, <1>g, <1>n DEF CompletedWrite
<1>9. CASE FinalizeRead
  <2>1. CASE ~Return(TRUE)
    <3>1. PICK at \in {"finalize_requeue", "seal", "finalize_seal"} :
            /\ run' = [run EXCEPT !.on = Crawl, !.copy = row[Crawl], !.ids = {}, !.at = at]
            /\ at # "finalize_requeue" => IsFinished
            /\ UNCHANGED row
      BY <1>9, <2>1 DEF FinalizeRead, Reads
    <3>2. run'.at = at
      BY <3>1 DEF RunTyped
    <3> QED
      BY <3>1, <3>2 DEF PhaseFlow, Requeueing, Phases, Sealing
  <2> QED
    BY <1>r, <2>1
<1>10. CASE FinalizeSeal \/ FinalizeRequeue
  BY <1>10, <1>r DEF FinalizeSeal, FinalizeRequeue
<1>11. CASE Watch \/ Interrupt
  <2>1. /\ run'.at = run.at /\ run'.explicit = run.explicit /\ run'.ids = run.ids
        /\ run.at \in {"start_event", "tasks", "cleanup_event"}
    BY <1>11 DEF Watch, Interrupt, Watched, RunTyped
  <2> QED
    BY <1>e, <1>n, <1>p, <2>1 DEF Phases
<1> QED
  BY <1>1, <1>2, <1>3, <1>4, <1>5, <1>6, <1>7, <1>8, <1>9, <1>10, <1>11 DEF RunPhases

LEMMA RecoverFlows ==
    ASSUME IInv, Recover \/ IdleRecovery \/ Restart
    PROVE  run'.at \notin Elsewhere
<1>1. CASE Recover
  <2>1. PICK at \in Recovering : GoTo(at)
    BY <1>1 DEF Recover, Repair, Repairs, Recovering
  <2> QED
    BY <2>1, GoesTo DEF Recovering, IInv, RunInv, Elsewhere, Requeueing, Phases, Sealing
<1>2. CASE IdleRecovery \/ Restart
  <2>1. run'.at = "recover_crawl"
    BY <1>2 DEF IdleRecovery, Restart, Repairs, Idle
  <2> QED
    BY <2>1 DEF Elsewhere, Requeueing, Phases, Sealing
<1> QED
  BY <1>1, <1>2

(* ... and of the tasks.                                                   *)
Hooked == {s \in Snaps : TaskAt(s, "hooks")}

TaskFlow(s) ==
    LET from == task[s].at
        to   == task'[s].at IN
    /\ run'.at = "tasks" /\ run'.explicit = run.explicit /\ run'.ids \subseteq run.ids
    /\ \A r \in Snaps : r # s => task'[r] = task[r] /\ (r \in hooks' <=> r \in hooks)
    /\ s \in hooks' /\ to # "hooks" => s \in hooks /\ from # "hooks"
    /\ from = "idle" => Enqueue(s) /\ s \notin run'.ids
    /\ to = "payload" => from = "idle"
    /\ to = "event" => from = "payload" /\ UNCHANGED hooks
    /\ to = "start" => from = "event" /\ UNCHANGED hooks
    /\ to = "hooks" => from \in {"event", "start", "hooks"}
    /\ to \in DOMAIN Creating =>
         Status(Crawl) \in Runnable /\ Discovered(s) # {} /\ UNCHANGED row
    /\ to = "last_seal" => IsFinished /\ UNCHANGED row

Beyond == {"idle", "completed", "project", "project_again", "finish", "after", "maintenance",
           "last", "last_wake"}

LEMMA TaskFlows ==
    ASSUME IInv, KInv, NEW s \in Snaps, TaskStep(s) \/ Lease(s)
    PROVE  At("tasks") /\ (TaskFlow(s) \/ UNCHANGED <<run, task, hooks>>)
<1>0. At("tasks") /\ RunTyped(run) /\ TaskInv /\ TaskTyped(task[s])
  BY TaskAtWork DEF IInv, RunInv, TaskInv
<1>1. ASSUME NEW t, task' = [task EXCEPT ![s] = t]
      PROVE  task'[s] = t /\ \A r \in Snaps : r # s => task'[r] = task[r]
  BY <1>0, <1>1 DEF TaskInv
<1>b. ASSUME NEW t, task' = [task EXCEPT ![s] = t], t.at \in Beyond, task[s].at # "idle",
             run' = [run EXCEPT !.stop = "lost"] \/ UNCHANGED run,
             hooks' = hooks \ {s} \/ (UNCHANGED hooks /\ task[s].at # "hooks")
      PROVE  TaskFlow(s)
  <2>1. run'.at = "tasks" /\ run'.explicit = run.explicit /\ run'.ids = run.ids
    BY <1>0, <1>b DEF RunTyped, At
  <2> QED
    BY <1>1, <1>b, <2>1 DEF TaskFlow, Beyond, Creating
<1>g. ASSUME NEW at \in Beyond, TaskTo(s, at), task[s].at # "idle", UNCHANGED run,
             hooks' = hooks \ {s} \/ (UNCHANGED hooks /\ task[s].at # "hooks")
      PROVE  TaskFlow(s)
  <2>1. PICK t : t = [task[s] EXCEPT !.at = at]
    OBVIOUS
  <2>2. task' = [task EXCEPT ![s] = t] /\ t.at = at
    BY <1>0, <1>g, <2>1 DEF TaskTo, TaskTyped
  <2> QED
    BY <1>b, <1>g, <2>2
<1>e. ASSUME TaskEnd(s), task[s].at \notin {"idle", "hooks"}, UNCHANGED <<run, hooks>>
      PROVE  TaskFlow(s)
  <2>1. NoTask.at \in Beyond
    BY DEF NoTask, Beyond
  <2> QED
    BY <1>b, <1>e, <2>1 DEF TaskEnd
<1> SUFFICES TaskFlow(s) \/ UNCHANGED <<run, task, hooks>>
  BY <1>0
<1> USE <1>0
<1>2. CASE Enqueue(s)
  <2>1. PICK t : t = [task[s] EXCEPT !.at = "payload"]
    OBVIOUS
  <2>2. task' = [task EXCEPT ![s] = t] /\ t.at = "payload" /\ UNCHANGED hooks
    BY <1>2, <2>1 DEF Enqueue, TaskTyped
  <2>3. run'.at = "tasks" /\ run'.explicit = run.explicit /\ run'.ids = run.ids \ {s}
    BY <1>2 DEF Enqueue, RunTyped, At
  <2>4. task[s].at = "idle"
    BY <1>2 DEF Enqueue
  <2> QED
    BY <1>1, <1>2, <2>2, <2>3, <2>4 DEF TaskFlow, Creating
<1>3. CASE Payload(s)
  <2>1. PICK t : t = [task[s] EXCEPT !.at = "event", !.loaded = Status(s) = Sealed]
    OBVIOUS
  <2>2. /\ task' = [task EXCEPT ![s] = t] /\ t.at = "event" /\ UNCHANGED hooks
        /\ task[s].at = "payload"
    BY <1>3, <2>1 DEF Payload, TaskTyped, TaskAt
  <2>3. run'.at = "tasks" /\ run'.explicit = run.explicit /\ run'.ids = run.ids
    BY <1>3 DEF Payload, RunTyped, At
  <2> QED
    BY <1>1, <2>2, <2>3 DEF TaskFlow, Creating
<1>4. CASE Event(s)
  <2>1. PICK t : t = IF Status(s) = Queued
                     THEN [task[s] EXCEPT !.at = "start", !.copy = row[s]]
                     ELSE [task[s] EXCEPT !.at = "hooks", !.sealed = Status(s) = Sealed,
                             !.own = IF Status(s) = Paused THEN @ ELSE row[s].retry]
    OBVIOUS
  <2>2. /\ task' = [task EXCEPT ![s] = t] /\ task[s].at = "event" /\ UNCHANGED run
        /\ \/ t.at = "start" /\ UNCHANGED hooks
           \/ t.at = "hooks" /\ hooks' = hooks \cup {s}
    BY <1>4, <2>1 DEF Event, Launch, TaskTyped, TaskAt
  <2>3. task'[s] = t /\ \A r \in Snaps : r # s => task'[r] = task[r]
    BY <1>1, <2>2
  <2>4. CASE t.at = "start" /\ UNCHANGED hooks
    BY <2>2, <2>3, <2>4 DEF TaskFlow, At, Creating
  <2>5. CASE t.at = "hooks" /\ hooks' = hooks \cup {s}
    BY <2>2, <2>3, <2>5 DEF TaskFlow, At, Creating
  <2> QED
    BY <2>2, <2>4, <2>5
<1>5. CASE StartProcessing(s)
  <2>1. PICK t : t = [task[s] EXCEPT !.at = "hooks", !.own = row'[s].retry, !.copy = NoCopy]
    OBVIOUS
  <2>2. /\ task' = [task EXCEPT ![s] = t] /\ task[s].at = "start" /\ UNCHANGED run
        /\ t.at = "hooks" /\ hooks' = hooks \cup {s}
    BY <1>5, <2>1 DEF StartProcessing, Launch, TaskTyped, TaskAt
  <2> QED
    BY <1>1, <2>2 DEF TaskFlow, At, Creating
<1>6. CASE HooksEnd(s)
  BY <1>6, <1>g DEF HooksEnd, HooksStop, TaskAt, Beyond
<1>7. CASE RenewLease(s)
  <2>1. CASE UNCHANGED <<run, hooks>> /\ task' = [task EXCEPT ![s].own = row'[s].retry]
    <3>1. PICK t : t = [task[s] EXCEPT !.own = row'[s].retry]
      OBVIOUS
    <3>2. task' = [task EXCEPT ![s] = t] /\ t.at = "hooks" /\ task[s].at = "hooks"
      BY <1>7, <2>1, <3>1 DEF RenewLease, TaskTyped, TaskAt
    <3> QED
      BY <1>1, <2>1, <3>2 DEF TaskFlow, At, Creating
  <2>2. CASE TaskEnd(s) /\ hooks' = hooks \ {s} /\ run' = [run EXCEPT !.stop = "lost"]
    <3>1. NoTask.at \in Beyond /\ task[s].at = "hooks"
      BY <1>7 DEF NoTask, Beyond, RenewLease, TaskAt
    <3> QED
      BY <1>b, <2>2, <3>1 DEF TaskEnd
  <2> QED
    BY <1>7, <2>1, <2>2 DEF RenewLease, HooksStop
<1>8. CASE Completed(s)
  <2>1. CASE TaskTo(s, "after")
    BY <1>8, <1>g, <2>1 DEF Completed, TaskAt, Beyond
  <2>2. CASE ~TaskTo(s, "after")
    <3>1. PICK t : t = [task[s] EXCEPT !.at = "project", !.copy = row[s]]
      OBVIOUS
    <3>2. task' = [task EXCEPT ![s] = t] /\ t.at = "project"
      BY <1>8, <2>2, <3>1 DEF Completed, TaskTyped
    <3> QED
      BY <1>8, <1>b, <3>2 DEF Completed, TaskAt, Beyond
  <2> QED
    BY <2>1, <2>2
<1>9. CASE Project(s)
  <2>1. task[s].at \in {"project", "project_again"} /\ UNCHANGED <<row, run, hooks>>
    BY <1>9 DEF Project, Projecting
  <2>2. CASE TaskTo(s, "finish") \/ TaskTo(s, "last")
    BY <1>g, <2>1, <2>2 DEF Beyond
  <2>3. CASE /\ Status(Crawl) \in Runnable /\ Discovered(s) # {}
             /\ \E at \in {"create", "create_again"} : TaskTo(s, at)
    <3>1. PICK at \in {"create", "create_again"} : TaskTo(s, at)
      BY <2>3
    <3>2. task'[s].at = at /\ \A r \in Snaps : r # s => task'[r] = task[r]
      BY <3>1, TaskGoes
    <3> QED
      BY <2>1, <2>3, <3>2 DEF TaskFlow, At
  <2> QED
    BY <1>9, <2>1, <2>2, <2>3 DEF Project, Projecting, TaskAt
<1>10. CASE Create(s)
  <2>1. PICK at \in {"finish", "last"} : TaskTo(s, at)
    BY <1>10 DEF Create, Creating
  <2> QED
    BY <1>10, <1>g, <2>1 DEF Create, Creating, Beyond
<1>11. CASE Finish(s)
  <2>1. PICK t : t = [NoTask EXCEPT !.at = "after", !.loaded = task[s].loaded]
    OBVIOUS
  <2>2. task' = [task EXCEPT ![s] = t] /\ t.at = "after"
    BY <1>11, <2>1 DEF Finish, NoTask
  <2> QED
    BY <1>11, <1>b, <2>2 DEF Finish, TaskAt, Beyond
<1>12. CASE After(s)
  <2>1. CASE TaskEnd(s) \/ TaskTo(s, "project_again")
    BY <1>12, <1>e, <1>g, <2>1 DEF After, TaskAt, Beyond
  <2>2. CASE task' = [task EXCEPT ![s].at = "maintenance", ![s].copy = row[s]]
    <3>1. PICK t : t = [task[s] EXCEPT !.at = "maintenance", !.copy = row[s]]
      OBVIOUS
    <3>2. task' = [task EXCEPT ![s] = t] /\ t.at = "maintenance"
      BY <2>2, <3>1 DEF TaskTyped
    <3> QED
      BY <1>12, <1>b, <3>2 DEF After, TaskAt, Beyond
  <2> QED
    BY <1>12, <2>1, <2>2 DEF After
<1>13. CASE TaskMaintenance(s) \/ LastWake(s)
  BY <1>13, <1>e DEF TaskMaintenance, LastWake, TaskAt
<1>14. CASE Last(s)
  <2>1. CASE IsFinished /\ TaskTo(s, "last_seal")
    BY <1>14, <2>1, TaskGoes DEF Last, TaskFlow, TaskAt, At, Creating
  <2> QED
    BY <1>14, <1>e, <2>1 DEF Last, TaskAt
<1>15. CASE LastSeal(s)
  BY <1>15, <1>e, <1>g DEF LastSeal, TaskAt, Beyond
<1>16. CASE HeartbeatCrawl
  BY <1>16 DEF HeartbeatCrawl
<1> QED
  BY <1>2, <1>3, <1>4, <1>5, <1>6, <1>7, <1>8, <1>9, <1>10, <1>11, <1>12, <1>13, <1>14,
     <1>15, <1>16 DEF TaskStep, Task, Lease

-----------------------------------------------------------------------------
(* The steps of the system by what they may change: the scheduler and the  *)
(* phases of a run, and the recovery, leave the tasks alone; a task makes  *)
(* a step of its own; commands, hook processes that end and time leave the *)
(* runner and its tasks alone; a death ends them.                          *)
SchedulerTurn == Schedule /\ ScheduleFlow /\ Active = {} /\ UNCHANGED <<task, hooks>>
PhaseTurn ==
    PhaseFlow /\ (Active = {} \/ run'.at = run.at) /\ UNCHANGED <<task, hooks>>
TaskTurn(s)   == At("tasks") /\ TaskFlow(s)
AsideTurn     == UNCHANGED <<run, task>> /\ hooks' \subseteq hooks
Death         == deaths > 0 /\ run'.at = "down" /\ Active' = {} /\ hooks' \subseteq hooks /\ UNCHANGED row

LEMMA Turns ==
    ASSUME IInv, KInv, [Next]_vars
    PROVE  /\ deaths' = deaths \/ deaths > 0
           /\ \/ SchedulerTurn \/ PhaseTurn \/ AsideTurn \/ Death
              \/ \E s \in Snaps : TaskTurn(s)
<1>1. deaths' = deaths \/ deaths > 0
  BY DEF Next, Runner, OrphanEnds, Die, Signal, LeaseExpires, vars
<1> SUFFICES \/ SchedulerTurn \/ PhaseTurn \/ AsideTurn \/ Death
             \/ \E s \in Snaps : TaskTurn(s)
  BY <1>1
<1>2. CASE Runner(RunnerStep) \/ Runner(IdleRecovery) \/ Runner(Watch) \/ Signal
  <2>1. UNCHANGED <<task, hooks>>
    BY <1>2, RunnerLeaves
  <2>2. CASE Schedule
    BY <2>1, <2>2, RunnerAlone, ScheduleFlows DEF SchedulerTurn
  <2>3. CASE RunPhases
    BY <2>1, <2>3, RunnerAlone, PhaseFlows DEF PhaseTurn
  <2>4. CASE Watch \/ Signal
    <3>1. run'.at = run.at
      BY <2>4 DEF Watch, Signal, Interrupt, IInv, RunInv, RunTyped
    <3> QED
      BY <2>1, <2>4, <3>1, PhaseFlows DEF PhaseTurn, Signal
  <2>5. CASE Recover \/ IdleRecovery \/ Restart
    <3>1. run'.at \notin Elsewhere
      BY <2>5, RecoverFlows
    <3>2. PhaseFlow
      BY <3>1 DEF PhaseFlow, Elsewhere, Requeueing, Phases, Sealing
    <3> QED
      BY <2>1, <2>5, <3>2, RunnerAlone DEF PhaseTurn
  <2> QED
    BY <1>1, <1>2, <2>2, <2>3, <2>4, <2>5 DEF Runner, RunnerStep
<1>3. ASSUME NEW s \in Snaps, Runner(TaskStep(s)) \/ Runner(Lease(s))
      PROVE  TaskTurn(s) \/ AsideTurn
  BY <1>3, TaskFlows DEF TaskTurn, AsideTurn, Runner
<1>4. CASE Command
  BY <1>1, <1>4 DEF Command, AsideTurn
<1>5. CASE Die
  BY <1>5 DEF Die, Death, Down, Idle, NoTask, Active
<1>6. CASE (\E s \in Snaps : OrphanEnds(s)) \/ (\E r \in Rows : LeaseExpires(r)) \/ UNCHANGED vars
  BY <1>1, <1>6 DEF OrphanEnds, LeaseExpires, vars, AsideTurn
<1> QED
  BY <1>1, <1>2, <1>3, <1>4, <1>5, <1>6 DEF Next

(* Without a death every hook process is one that a task waits for.        *)
Owned == MaxDeaths = 0 => deaths = 0 /\ hooks \subseteq Hooked

LEMMA OwnedStays ==
    ASSUME IInv, KInv, Owned, [Next]_vars
    PROVE  Owned'
<1> SUFFICES ASSUME MaxDeaths = 0
             PROVE  deaths' = 0 /\ hooks' \subseteq Hooked'
  BY DEF Owned
<1>0. deaths = 0 /\ hooks \subseteq Hooked
  BY DEF Owned
<1>1. deaths' = 0
  BY <1>0, Turns
<1>2. CASE SchedulerTurn \/ PhaseTurn \/ AsideTurn
  BY <1>0, <1>1, <1>2 DEF SchedulerTurn, PhaseTurn, AsideTurn, Hooked, TaskAt
<1>3. ASSUME NEW s \in Snaps, TaskTurn(s)
      PROVE  hooks' \subseteq Hooked'
  <2>1. hooks' \subseteq Snaps
    BY Inductive DEF IInv, TaskInv
  <2> QED
    BY <1>0, <1>3, <2>1 DEF TaskTurn, TaskFlow, Hooked, TaskAt
<1>4. CASE Death
  BY <1>0, <1>4 DEF Death
<1> QED
  BY <1>1, <1>2, <1>3, <1>4, Turns

(* If the runner does not die and the user opens no sealed row, only the   *)
(* recovery opens one: the runner finds no hook process to leave a         *)
(* snapshot to, and what it read of a sealed crawl stays true until it has *)
(* sealed the snapshot that follows it.                                    *)
NothingReopens ==
    MaxDeaths = 0 /\ Commands \cap {"admin_resume", "queue_for_extraction"} = {}

Closed ==
    /\ run.at \notin Requeueing
    /\ At("reconcile_seal") => Status(Crawl) = Sealed

LEMMA SealedStays ==
    ASSUME NothingReopens, Closed, RunnerMove \/ UserMove, NEW r \in Rows, Status(r) = Sealed,
           run.at \notin {"recover_upload_crawl", "recover_uploads"}
    PROVE  Status(r)' = Sealed
<1>1. CASE RunnerMove
  BY <1>1, MoveRespects DEF RespectsUser, Closed, Requeueing, At
<1>2. CASE UserMove
  BY <1>2, ValuesDiffer, NamesDiffer DEF UserMove, Moves, Stays, NothingReopens
<1> QED
  BY <1>1, <1>2

LEMMA ClosedStays ==
    ASSUME NothingReopens, IInv, KInv, Owned, Closed, [Next]_vars
    PROVE  Closed'
<1>1. CASE SchedulerTurn
  <2>1. hooks = {}
    BY <1>1 DEF NothingReopens, Owned, SchedulerTurn, Hooked, TaskAt, Active
  <2> QED
    BY <1>1, <2>1 DEF SchedulerTurn, ScheduleFlow, Closed, At, Status
<1>2. CASE PhaseTurn
  BY <1>2 DEF PhaseTurn, PhaseFlow, Closed, At
<1>3. CASE \E s \in Snaps : TaskTurn(s)
  BY <1>3 DEF TaskTurn, TaskFlow, Closed, At, Requeueing
<1>4. CASE AsideTurn
  <2>1. At("reconcile_seal") /\ Status(Crawl) = Sealed => Status(Crawl)' = Sealed
    BY EveryStep, SealedStays, NamesDiffer DEF At
  <2> QED
    BY <1>4, <2>1 DEF AsideTurn, Closed, At
<1>5. CASE Death
  BY <1>5 DEF Death, Closed, At, Requeueing
<1> QED
  BY <1>1, <1>2, <1>3, <1>4, <1>5, Turns

LEMMA ClosedAlways ==
    ASSUME NothingReopens
    PROVE  Spec => [](IInv /\ KInv /\ Owned /\ Closed)
<1>1. Init => Owned /\ Closed
  BY DEF Init, Idle, Owned, Closed, Requeueing, At
<1>2. IInv /\ KInv /\ Owned /\ Closed /\ [Next]_vars => (Owned /\ Closed)'
  BY OwnedStays, ClosedStays
<1> QED
  BY <1>1, <1>2, Knowledge, PTL DEF Spec

(* The runner never overrules the user, but for the recovery's openings,   *)
(* if it does not die and no command but uploads has sealed rows opened:   *)
(* the other two statements that could never do.                           *)
THEOREM UserDecidesAlways ==
    ASSUME NothingReopens
    PROVE  Spec => UserDecides
<1>1. ASSUME IInv, KInv, Closed, [Next]_vars, ByRunner, NEW r \in Rows
      PROVE  /\ Status(r) = Sealed => Status(r)' = Sealed \/ Reopens(r)
             /\ Status(r) = Paused /\ Status(r)' # Paused =>
                  r # Crawl /\ Status(r)' = Sealed /\ Status(Crawl) = Sealed
  <2>1. RunnerMove
    BY <1>1, EveryStep, CommandTells
  <2> QED
    BY <1>1, <2>1, MoveRespects DEF RespectsUser, Closed, Requeueing, At
<1>2. IInv /\ KInv /\ Closed /\ [Next]_vars =>
        [ByRunner => \A r \in Rows :
           /\ Status(r) = Sealed => Status(r)' = Sealed \/ Reopens(r)
           /\ Status(r) = Paused /\ Status(r)' # Paused =>
                r # Crawl /\ Status(r)' = Sealed /\ Status(Crawl) = Sealed]_vars
  BY <1>1
<1> QED
  BY <1>2, ClosedAlways, PTL DEF Spec, UserDecides

-----------------------------------------------------------------------------
(* Each move is a step of the diagram, or the recovery's.                  *)
LEMMA MoveBecomes ==
    ASSUME NEW R, NEW from, NEW new, Moves(R, from, new)
    PROVE  Diagram!Becomes(R, new)
BY DEF Moves, Diagram!Becomes

LEMMA MovesFollow ==
    ASSUME NothingReopens, Closed, RunnerMove \/ UserMove
    PROVE  \/ [Diagram!DocumentedNext]_[r \in Rows |-> Status(r)]
           \/ Diagram!ReopenCrawl
           \/ Diagram!Reopen(Unserved)
<1> DEFINE Step == [Diagram!DocumentedNext]_[r \in Rows |-> Status(r)]
<1>1. CASE Stays
  BY <1>1 DEF Stays
<1>2. ASSUME NEW R \in SUBSET Rows, Moves(R, {Absent}, Queued)
      PROVE  Step
  <2>1. Diagram!Create(R)
    <3>1. Diagram!Becomes(R, "queued")
      BY <1>2, MoveBecomes DEF Queued
    <3>2. \A r \in R : r \in Rows /\ Status(r) = "absent"
      BY <1>2 DEF Moves, Absent
    <3> QED
      BY <3>1, <3>2 DEF Diagram!Create
  <2> QED
    BY <2>1 DEF Diagram!DocumentedNext
<1>3. ASSUME NEW R \in SUBSET Rows, Moves(R, {Paused}, Queued)
      PROVE  Step
  <2>1. Diagram!Resume(R)
    <3>1. Diagram!Becomes(R, "queued")
      BY <1>3, MoveBecomes DEF Queued
    <3>2. \A r \in R : r \in Rows /\ Status(r) = "paused"
      BY <1>3 DEF Moves, Paused
    <3> QED
      BY <3>1, <3>2 DEF Diagram!Resume
  <2> QED
    BY <2>1 DEF Diagram!DocumentedNext
<1>4. ASSUME NEW r \in Rows, Moves({r}, {Queued}, Started)
      PROVE  Step
  <2>1. Diagram!Start(r)
    BY <1>4, MoveBecomes DEF Diagram!Start, Moves, Queued, Started
  <2> QED
    BY <2>1 DEF Diagram!DocumentedNext
<1>5. ASSUME NEW r \in Rows, Moves({r}, Runnable, Paused)
      PROVE  Step
  <2>1. Diagram!Pause(r)
    BY <1>5, MoveBecomes DEF Diagram!Pause, Moves, Runnable, Queued, Started, Paused
  <2> QED
    BY <2>1 DEF Diagram!DocumentedNext
<1>6. ASSUME NEW r \in Rows, NEW from \in SUBSET Open, Moves({r}, from, Sealed)
      PROVE  Step
  <2>1. Diagram!Seal(r)
    BY <1>6, MoveBecomes DEF Diagram!Seal, Diagram!Open, Moves, Open, Queued, Started, Paused,
       Sealed
  <2> QED
    BY <2>1 DEF Diagram!DocumentedNext
<1>7. CASE RunnerMove
  <2>1. Crawl \in Rows /\ Snaps \subseteq Rows /\ Runnable \in SUBSET Open
        /\ {Started} \in SUBSET Open /\ Open \in SUBSET Open
    BY NamesDiffer, ValuesDiffer
  <2>2. ~At("requeue_live_crawl")
    BY DEF Closed, Requeueing, At
  <2>3. ASSUME Unserved # {}, Moves({Crawl}, {Sealed}, Started)
        PROVE  Diagram!ReopenCrawl
    BY <2>1, <2>3, MoveBecomes DEF Diagram!ReopenCrawl, Moves, Sealed, Started
  <2>4. ASSUME Status(Crawl) # Paused, Moves(Unserved, {Sealed}, Queued)
        PROVE  Diagram!Reopen(Unserved)
    BY <2>1, <2>4, MoveBecomes DEF Diagram!Reopen, Paused, Queued
  <2> QED
    BY <1>1, <1>2, <1>4, <1>5, <1>6, <1>7, <2>1, <2>2, <2>3, <2>4 DEF RunnerMove
<1>8. CASE UserMove
  <2>1. Crawl \in Rows /\ Snaps \subseteq Rows /\ Open \in SUBSET Open
    BY NamesDiffer, ValuesDiffer
  <2> QED
    BY <1>1, <1>3, <1>5, <1>6, <1>8, <2>1 DEF UserMove, NothingReopens
<1> QED
  BY <1>7, <1>8

LEMMA InitialStatuses == Init => Diagram!DiagramInit
<1>1. ASSUME Init
      PROVE  \A r \in Rows : Status(r) = IF r = Crawl THEN "queued" ELSE "absent"
  BY <1>1, NamesDiffer DEF Init, Status, NoCopy, Queued, Absent
<1> QED
  BY <1>1 DEF Diagram!DiagramInit

(* Under the same condition the two documented state diagrams, with the    *)
(* recovery's arrow, are implemented, whatever the interleaving of         *)
(* commands, scheduler, snapshot tasks and projectors, and however many    *)
(* snapshots there are.                                                    *)
THEOREM FollowsDiagramAlways ==
    ASSUME NothingReopens
    PROVE  Spec => FollowsDiagram
<1>1. Init => Diagram!DiagramInit
  BY InitialStatuses
<1>2. IInv /\ KInv /\ Closed /\ [Next]_vars =>
        [Diagram!DiagramNext]_[r \in Rows |-> Status(r)]
  <2> SUFFICES ASSUME IInv, KInv, Closed, [Next]_vars
               PROVE  [Diagram!DiagramNext]_[r \in Rows |-> Status(r)]
    OBVIOUS
  <2>1. \/ [Diagram!DocumentedNext]_[r \in Rows |-> Status(r)]
        \/ Diagram!ReopenCrawl
        \/ Diagram!Reopen(Unserved)
    BY EveryStep, MovesFollow
  <2>2. Unserved \in SUBSET Rows
    BY NamesDiffer DEF Unserved
  <2> QED
    BY <2>1, <2>2 DEF Diagram!DiagramNext
<1> QED
  BY <1>1, <1>2, ClosedAlways, PTL DEF Spec, FollowsDiagram, Diagram!DiagramSpec

(* Without uploads there is nothing for the recovery to open, and the      *)
(* documented diagrams are followed as they stand: a sealed row is final.  *)
THEOREM FollowsDocumentAlways ==
    ASSUME NothingReopens, "upload" \notin Commands
    PROVE  Spec => FollowsDocument
<1>1. Init => Diagram!DiagramInit
  BY InitialStatuses
<1>2. IInv /\ KInv /\ Closed /\ [Next]_vars =>
        [Diagram!DocumentedNext]_[r \in Rows |-> Status(r)]
  <2> SUFFICES ASSUME IInv, KInv, Closed, [Next]_vars
               PROVE  [Diagram!DocumentedNext]_[r \in Rows |-> Status(r)]
    OBVIOUS
  <2>1. \/ [Diagram!DocumentedNext]_[r \in Rows |-> Status(r)]
        \/ Diagram!ReopenCrawl
        \/ Diagram!Reopen(Unserved)
    BY EveryStep, MovesFollow
  <2>2. Unserved = {}
    BY DEF IInv, ResInv, Unserved
  <2>3. ~Diagram!ReopenCrawl
    BY <2>2 DEF Diagram!ReopenCrawl
  <2>4. Diagram!Reopen(Unserved) => UNCHANGED [r \in Rows |-> Status(r)]
    BY <2>2 DEF Diagram!Reopen, Diagram!Becomes
  <2> QED
    BY <2>1, <2>3, <2>4
<1> QED
  BY <1>1, <1>2, ClosedAlways, PTL DEF Spec, FollowsDocument, Diagram!DocumentedSpec

-----------------------------------------------------------------------------
(* No attempt beside a hook process that outlived its runner: either every *)
(* snapshot is claimed by itself, and looked at for hook processes before  *)
(* it is run, or the runner does not die.                                  *)
HooksLookedFor == ~CrawlIsolation \/ MaxDeaths = 0

(* A run of the due snapshots begins when all hook processes are those of  *)
(* its own tasks, and a run of explicit ones when these have none; a task  *)
(* is enqueued once.                                                       *)
Launching ==
    /\ hooks \cup Active \subseteq Existing
    /\ run.at \in {"crawl_start", "advance_or_run"} => Existing = {}
    /\ At("crawl_admit") => CrawlIsolation
    /\ At("start") => run.on \notin hooks
    /\ At("create_roots") => ~run.explicit
    /\ run.at \in Phases =>
         /\ run.ids \subseteq Existing
         /\ \A s \in run.ids : TaskAt(s, "idle")
         /\ IF run.explicit THEN run.ids \cap hooks = {} ELSE hooks \subseteq Hooked
    /\ \A s \in Snaps : task[s].at \in {"payload", "event", "start"} => s \notin hooks

LEMMA ExistingStay ==
    ASSUME RowTypes, RowsStep
    PROVE  Existing \subseteq Existing'
<1>1. \A s \in Snaps : s \in Existing => Status(s)' # Absent /\ row'[s] \in Copies
  BY ExistStays, NamesDiffer, ValuesDiffer DEF Existing, With, RowsStep, RowTypes
<1>2. \A s \in Snaps : s \in Existing => Status(s)' \in Open \cup {Sealed}
  BY <1>1 DEF Copies, Status
<1> QED
  BY <1>2 DEF Existing, With

(* Rows are created by a run or its tasks alone.                           *)
LEMMA NoneCreated ==
    ASSUME IInv, RunnerMove \/ UserMove, ~CreatesRows, Existing = {}
    PROVE  Existing' = {}
<1>1. ASSUME NEW s \in Snaps
      PROVE  Status(s)' = Absent
  <2>1. Status(s) = Absent /\ s # Crawl
    BY NamesDiffer, RowAssumption DEF IInv, RowInv, RowTypes, Copies, Existing, With, Status
  <2>2. CASE RunnerMove
    BY <2>1, <2>2, ValuesDiffer, NamesDiffer DEF RunnerMove, Moves, Stays
  <2>3. CASE UserMove
    BY <2>1, <2>3, ValuesDiffer, NamesDiffer DEF UserMove, Moves, Stays
  <2> QED
    BY <2>2, <2>3
<1> QED
  BY <1>1, ValuesDiffer DEF Existing, With

LEMMA EnqueuesExisting ==
    ASSUME IInv, Launching, NEW s \in Snaps, At("tasks"), Enqueue(s)
    PROVE  s \in Existing /\ s \notin hooks
<1>1. run.at \in Phases /\ TaskAt(s, "idle") /\ s \in Pending
  BY DEF At, Phases, Enqueue, TaskAt
<1>2. s \in Existing
  BY <1>1 DEF Launching, Pending, DueRunnable, Existing, With, Runnable, Open
<1>3. s \notin hooks
  BY <1>1 DEF Launching, Pending, Hooked, TaskAt
<1> QED
  BY <1>2, <1>3

LEMMA LaunchingStays ==
    ASSUME HooksLookedFor, IInv, KInv, Owned, Launching, [Next]_vars
    PROVE  Launching'
<1>0. /\ RowsStep /\ Existing \subseteq Existing' /\ (RunnerMove \/ UserMove)
      /\ hooks' \subseteq Snaps /\ RunTyped(run) /\ TaskInv /\ TaskInv'
  BY EveryStep, ExistingStay, Inductive DEF IInv, RowInv, RunInv, TaskInv
<1>1. CASE SchedulerTurn
  <2>1. Active = {} /\ UNCHANGED <<task, hooks>> /\ ScheduleFlow /\ Active' = {}
    BY <1>1 DEF SchedulerTurn, Active
  <2>2. hooks' \cup Active' \subseteq Existing'
    BY <1>0, <2>1 DEF Launching
  <2>3. run'.at \in {"crawl_start", "advance_or_run"} => Existing' = {}
    BY <2>1 DEF ScheduleFlow, Launching, Existing, With, Stays, Status, At, Snaps, Rows
  <2>4. /\ run'.at = "crawl_admit" => CrawlIsolation
        /\ run'.at = "start" => run'.on \notin hooks'
        /\ run'.at # "create_roots"
    BY <2>1 DEF ScheduleFlow, Phases
  <2>5. \A s \in Snaps : TaskAt(s, "idle")'
    BY <2>1 DEF Active, TaskAt
  <2>6. ASSUME run'.at \in Phases
        PROVE  /\ run'.ids \subseteq Existing'
               /\ IF run'.explicit THEN run'.ids \cap hooks' = {} ELSE hooks' \subseteq Hooked'
    <3>1. run'.at = "run_load"
      BY <2>1, <2>6 DEF ScheduleFlow
    <3>2. CASE run'.explicit
      <4>1. At("start") /\ run'.ids = {run.on} /\ row'[run.on].status = Started
        BY <2>1, <3>1, <3>2 DEF ScheduleFlow
      <4>2. run.on \in Snaps
        BY <4>1 DEF IInv, RunInv, OnSnap, At
      <4>3. run.on \in Existing'
        BY <4>1, <4>2, ValuesDiffer DEF Existing, With, Status
      <4> QED
        BY <2>1, <3>2, <4>1, <4>3 DEF Launching
    <3>3. CASE ~run'.explicit
      <4>1. run.at \in {"crawl_admit", "advance_or_run"} /\ run'.ids = {}
        BY <2>1, <3>1, <3>3 DEF ScheduleFlow
      <4>2. hooks = {}
        <5>1. CASE At("crawl_admit")
          BY <2>1, <5>1 DEF Launching, HooksLookedFor, Owned, Hooked, TaskAt, Active
        <5>2. CASE At("advance_or_run")
          BY <5>2 DEF Launching, At
        <5> QED
          BY <4>1, <5>1, <5>2 DEF At
      <4> QED
        BY <2>1, <3>3, <4>1, <4>2
    <3> QED
      BY <3>2, <3>3
  <2>7. \A s \in Snaps : task'[s].at \in {"payload", "event", "start"} => s \notin hooks'
    BY <2>5 DEF TaskAt
  <2>8. run'.at \in Phases => \A s \in run'.ids : TaskAt(s, "idle")'
    BY <2>5, <2>6 DEF Existing, With
  <2> QED
    BY <2>2, <2>3, <2>4, <2>6, <2>7, <2>8 DEF Launching, At
<1>2. CASE PhaseTurn
  <2>1. PhaseFlow /\ UNCHANGED <<task, hooks>> /\ (Active = {} \/ run'.at = run.at)
    BY <1>2 DEF PhaseTurn
  <2>2. hooks' \cup Active' \subseteq Existing'
    BY <1>0, <2>1 DEF Launching, Active
  <2>3. /\ run'.at \notin {"crawl_start", "advance_or_run", "crawl_admit", "start"}
        /\ run'.at = "create_roots" => ~run'.explicit
    BY <2>1 DEF PhaseFlow, Phases
  <2>4. ASSUME run'.at \in Phases
        PROVE  /\ run'.ids \subseteq Existing' /\ run'.explicit = run.explicit
               /\ run.explicit => run'.ids \subseteq run.ids
               /\ IF run.explicit THEN run.ids \cap hooks = {} ELSE hooks \subseteq Hooked
    BY <1>0, <2>1, <2>4 DEF PhaseFlow, Launching
  <2>5. run'.at \in Phases => \A s \in run'.ids : TaskAt(s, "idle")'
    <3>1. CASE Active = {}
      BY <2>1, <2>4, <3>1 DEF Active, TaskAt, Existing, With
    <3>2. CASE run'.at = run.at
      BY <2>1, <3>2 DEF Launching, TaskAt, PhaseFlow
    <3> QED
      BY <2>1, <3>1, <3>2
  <2>6. Hooked' = Hooked
    BY <2>1 DEF Hooked, TaskAt
  <2> QED
    BY <2>1, <2>2, <2>3, <2>4, <2>5, <2>6 DEF Launching, At
<1>3. ASSUME NEW s \in Snaps, TaskTurn(s)
      PROVE  Launching'
  <2>1. /\ TaskFlow(s) /\ run.at \in Phases /\ run'.at \in Phases /\ run'.at = "tasks"
        /\ At("tasks")
    BY <1>3 DEF TaskTurn, TaskFlow, Phases, At
  <2>2. /\ run.ids \subseteq Existing /\ \A r \in run.ids : TaskAt(r, "idle")
        /\ IF run.explicit THEN run.ids \cap hooks = {} ELSE hooks \subseteq Hooked
        /\ hooks \cup Active \subseteq Existing
        /\ \A r \in Snaps : task[r].at \in {"payload", "event", "start"} => r \notin hooks
    BY <2>1 DEF Launching
  <2>3. \A r \in Snaps : r # s => task'[r] = task[r] /\ (r \in hooks' <=> r \in hooks)
    BY <2>1 DEF TaskFlow
  <2>4. s \in hooks' \/ task'[s].at # "idle" => s \in Existing
    BY <2>1, <2>2, EnqueuesExisting DEF TaskFlow, Active
  <2>5. hooks' \cup Active' \subseteq Existing'
    BY <1>0, <2>2, <2>3, <2>4 DEF Active
  <2>6. task'[s].at \in {"payload", "event", "start"} => s \notin hooks'
    <3>1. CASE task'[s].at = "payload"
      BY <2>1, <3>1, EnqueuesExisting DEF TaskFlow
    <3>2. CASE task'[s].at \in {"event", "start"}
      BY <2>1, <2>2, <3>2 DEF TaskFlow
    <3> QED
      BY <3>1, <3>2
  <2>8. run'.ids \subseteq Existing' /\ run'.ids \subseteq run.ids /\ s \notin run'.ids
    BY <1>0, <2>1, <2>2 DEF TaskFlow, TaskAt
  <2>7. ASSUME NEW r \in run'.ids
        PROVE  TaskAt(r, "idle")'
    <3>1. r \in run.ids /\ r # s /\ r \in Snaps /\ TaskAt(r, "idle")
      BY <2>2, <2>8 DEF Existing, With
    <3> QED
      BY <2>3, <3>1 DEF TaskAt
  <2>9. IF run'.explicit THEN run'.ids \cap hooks' = {} ELSE hooks' \subseteq Hooked'
    <3>1. CASE run.explicit
      BY <1>0, <2>1, <2>2, <2>3, <2>8, <3>1 DEF TaskFlow, RunTyped
    <3>2. CASE ~run.explicit
      BY <1>0, <2>1, <2>2, <2>3, <3>2 DEF TaskFlow, Hooked, TaskAt
    <3> QED
      BY <3>1, <3>2
  <2> QED
    BY <2>1, <2>3, <2>5, <2>2, <2>6, <2>7, <2>8, <2>9 DEF Launching, At, TaskAt
<1>4. CASE AsideTurn
  <2>1. Hooked' = Hooked /\ Active' = Active /\ hooks' \subseteq hooks
    BY <1>4 DEF AsideTurn, Hooked, Active, TaskAt
  <2>2. run.at \in {"crawl_start", "advance_or_run"} => Existing' = {}
    <3>1. run.at \in {"crawl_start", "advance_or_run"} => ~CreatesRows
      BY DEF KInv, TasksKnow, CreatesRows, Creating, Active, At
    <3> QED
      BY <1>0, <3>1, NoneCreated DEF Launching
  <2> QED
    BY <1>0, <1>4, <2>1, <2>2 DEF AsideTurn, Launching, At, TaskAt
<1>5. CASE Death
  <2>1. Existing' = Existing /\ Active' = {} /\ run'.at = "down" /\ hooks' \subseteq hooks
    BY <1>5 DEF Death, Existing, With, Status
  <2> QED
    BY <2>1 DEF Launching, At, Active, Phases
<1> QED
  BY <1>1, <1>2, <1>3, <1>4, <1>5, Turns

(* No attempt launches hooks for a snapshot that has a running hook        *)
(* process, if snapshots are claimed one by one, or the runner does not    *)
(* die: for any slots, commands, discoveries and, in the first case, any   *)
(* deaths and hook processes that outlive them.                            *)
THEOREM OneAttemptAlways ==
    ASSUME HooksLookedFor
    PROVE  Spec => OneAttempt
<1>1. Init => Owned /\ Launching
  <2>1. ASSUME Init
        PROVE  Launching
    <3>1. Active = {} /\ hooks = {} /\ run.at = "idle" /\ \A s \in Snaps : task[s].at = "idle"
      BY <2>1 DEF Init, Idle, NoTask, Active
    <3> QED
      BY <3>1 DEF Launching, At, Phases
  <2> QED
    BY <2>1 DEF Init, Owned
<1>2. IInv /\ KInv /\ Owned /\ Launching /\ [Next]_vars => (Owned /\ Launching)'
  BY OwnedStays, LaunchingStays
<1>3. ASSUME IInv, KInv, Launching, [Next]_vars, NEW s \in Snaps, ~TaskAt(s, "hooks"),
             task'[s].at = "hooks"
      PROVE  s \notin hooks
  <2>1. CASE SchedulerTurn \/ PhaseTurn \/ AsideTurn
    BY <1>3, <2>1 DEF SchedulerTurn, PhaseTurn, AsideTurn, TaskAt
  <2>2. CASE Death
    BY <1>3, <2>2 DEF Death, Active
  <2>3. ASSUME NEW r \in Snaps, TaskTurn(r)
        PROVE  s \notin hooks
    <3>1. r = s
      BY <1>3, <2>3 DEF TaskTurn, TaskFlow, TaskAt
    <3>2. task[s].at \in {"event", "start"}
      BY <1>3, <2>3, <3>1 DEF TaskTurn, TaskFlow, TaskAt
    <3> QED
      BY <1>3, <3>2 DEF Launching
  <2> QED
    BY <1>3, <2>1, <2>2, <2>3, Turns
<1>4. IInv /\ KInv /\ Launching /\ [Next]_vars =>
        [\A s \in Snaps : ~TaskAt(s, "hooks") /\ task'[s].at = "hooks" => s \notin hooks]_vars
  BY <1>3
<1> QED
  BY <1>1, <1>2, <1>4, Knowledge, PTL DEF Spec, OneAttempt

-----------------------------------------------------------------------------
(* Nothing is added to a crawl that is about to be sealed: no command      *)
(* opens a snapshot, and a task that adds what it has discovered is alone, *)
(* or nothing is discovered.                                               *)
NothingAdded ==
    /\ "queue_for_extraction" \notin Commands
    /\ Slots = 1 \/ \A s \in DOMAIN Kids : Kids[s] = {}

(* Where the crawl is about to be sealed, it is finished.                  *)
Finishing ==
    /\ SealsCrawl => IsFinished
    /\ \A s \in Snaps : task[s].at \in DOMAIN Creating => Slots = 1
    /\ Slots = 1 => \A r, s \in Active : r = s

LEMMA NothingDiscovered ==
    ASSUME \A s \in DOMAIN Kids : Kids[s] = {}, NEW s
    PROVE  Discovered(s) = {}
BY DEF Discovered, With

(* With one slot there is one task.                                        *)
LEMMA OneSlot ==
    ASSUME Slots = 1, NEW s \in Snaps, Enqueue(s)
    PROVE  Active = {}
<1>1. IsFiniteSet(Active)
  BY RowAssumption, FS_Subset DEF Active
<1>2. Cardinality(Active) \in Nat /\ Cardinality(Active) < 1
  BY <1>1, FS_CardinalityType DEF Enqueue
<1>3. Cardinality(Active) = 0
  BY <1>2
<1> QED
  BY <1>1, <1>3, FS_EmptySet

(* A finished crawl stays so, unless it is added to.                       *)
LEMMA FinishedStays ==
    ASSUME NothingAdded, IInv, RunnerMove \/ UserMove, ~CreatesRows, IsFinished,
           ~At("recover_uploads") \/ Unserved = {}
    PROVE  IsFinished'
<1>1. ASSUME NEW s \in Snaps
      PROVE  Status(s)' \notin Open
  <2>1. Status(s) \in {Sealed, Absent} /\ s # Crawl /\ s \in Rows
    BY NamesDiffer, RowAssumption DEF IInv, RowInv, RowTypes, Copies, IsFinished, With, Status
  <2>2. CASE RunnerMove
    BY <2>1, <2>2, ValuesDiffer, NamesDiffer DEF RunnerMove, Moves, Stays
  <2>3. CASE UserMove
    BY <2>1, <2>3, ValuesDiffer, NamesDiffer DEF UserMove, Moves, Stays, NothingAdded
  <2> QED
    BY <2>2, <2>3
<1> QED
  BY <1>1 DEF IsFinished, With

(* What is about to be sealed is finished, and not added to.               *)
LEMMA SealsFinished ==
    ASSUME KInv, Finishing, SealsCrawl
    PROVE  IsFinished /\ ~CreatesRows /\ ~At("recover_uploads")
<1>1. IsFinished
  BY DEF Finishing
<1>2. CASE run.at \in {"seal", "completed_seal", "finalize_seal"}
  BY <1>1, <1>2 DEF CreatesRows, KInv, TasksKnow, Active, At, Creating
<1>3. ASSUME NEW s \in Snaps, TaskAt(s, "last_seal")
      PROVE  ~CreatesRows /\ ~At("recover_uploads")
  <2>1. ~At("create_roots") /\ ~At("recover_uploads") /\ s \in Active
    BY <1>3 DEF KInv, TasksKnow, Active, At, TaskAt
  <2>2. ASSUME NEW r \in Snaps, task[r].at \in DOMAIN Creating
        PROVE  FALSE
    BY <1>3, <2>1, <2>2 DEF Finishing, Active, Creating, TaskAt
  <2> QED
    BY <2>1, <2>2 DEF CreatesRows
<1> QED
  BY <1>1, <1>2, <1>3 DEF SealsCrawl

LEMMA FinishingStays ==
    ASSUME NothingAdded, IInv, KInv, Finishing, [Next]_vars
    PROVE  Finishing'
<1>0. (RunnerMove \/ UserMove) /\ TaskInv
  BY EveryStep DEF IInv
<1>u. UNCHANGED row => (IsFinished' <=> IsFinished)
  BY DEF IsFinished, With, Status
<1>s. SealsCrawl => IsFinished'
  BY <1>0, SealsFinished, FinishedStays
<1>1. CASE SchedulerTurn
  <2>1. ScheduleFlow /\ Active = {} /\ Active' = {}
    BY <1>1 DEF SchedulerTurn, Active
  <2>2. \A s \in Snaps : task'[s].at = "idle"
    BY <2>1 DEF Active
  <2> QED
    BY <1>u, <2>1, <2>2 DEF ScheduleFlow, Finishing, SealsCrawl, Sealing, TaskAt, Creating
<1>2. CASE PhaseTurn
  <2>1. /\ PhaseFlow /\ UNCHANGED task /\ Active' = Active
    BY <1>2 DEF PhaseTurn, Active
  <2>2. SealsCrawl' => IsFinished'
    <3>1. CASE run'.at \in {"seal", "completed_seal", "finalize_seal"}
      BY <1>u, <2>1, <3>1 DEF PhaseFlow, Sealing
    <3>2. ASSUME NEW s \in Snaps, TaskAt(s, "last_seal")'
          PROVE  IsFinished'
      BY <1>s, <2>1, <3>2 DEF TaskAt, SealsCrawl
    <3> QED
      BY <3>1, <3>2 DEF SealsCrawl
  <2> QED
    BY <2>1, <2>2 DEF Finishing
<1>3. ASSUME NEW s \in Snaps, TaskTurn(s)
      PROVE  Finishing'
  <2>1. TaskFlow(s) /\ At("tasks") /\ run'.at = "tasks"
    BY <1>3 DEF TaskTurn, TaskFlow
  <2>2. \A r \in Snaps : r # s => task'[r] = task[r]
    BY <2>1 DEF TaskFlow
  <2>3. Slots = 1 => Active \subseteq {s} /\ Active' \subseteq {s}
    <3>1. CASE task[s].at = "idle"
      BY <2>1, <2>2, <3>1, OneSlot DEF TaskFlow, Active
    <3>2. CASE task[s].at # "idle"
      BY <2>2, <3>2 DEF Finishing, Active
    <3> QED
      BY <3>1, <3>2
  <2>4. ASSUME NEW r \in Snaps, task'[r].at \in DOMAIN Creating
        PROVE  Slots = 1
    <3>1. CASE r = s
      BY <2>1, <2>4, <3>1, NothingDiscovered DEF TaskFlow, NothingAdded
    <3>2. CASE r # s
      BY <2>2, <2>4, <3>2 DEF Finishing
    <3> QED
      BY <3>1, <3>2
  <2>5. ASSUME NEW r \in Snaps, TaskAt(r, "last_seal")'
        PROVE  IsFinished'
    <3>1. CASE r = s
      BY <1>u, <2>1, <2>5, <3>1 DEF TaskFlow, TaskAt
    <3>2. CASE r # s
      BY <1>s, <2>2, <2>5, <3>2 DEF SealsCrawl, TaskAt
    <3> QED
      BY <3>1, <3>2
  <2>6. SealsCrawl' => IsFinished'
    BY <2>1, <2>5 DEF SealsCrawl
  <2> QED
    BY <2>3, <2>4, <2>6 DEF Finishing
<1>4. CASE AsideTurn
  <2>1. UNCHANGED task /\ Active' = Active /\ (SealsCrawl' <=> SealsCrawl)
    BY <1>4 DEF AsideTurn, Active, SealsCrawl, TaskAt
  <2> QED
    BY <1>s, <2>1 DEF Finishing
<1>5. CASE Death
  BY <1>5 DEF Death, Finishing, SealsCrawl, Active, TaskAt, Creating
<1> QED
  BY <1>1, <1>2, <1>3, <1>4, <1>5, Turns

LEMMA FinishingAlways ==
    ASSUME NothingAdded
    PROVE  Spec => [](IInv /\ KInv /\ Finishing)
<1>1. Init => Finishing
  <2>1. ASSUME Init
        PROVE  Finishing
    <3>1. Active = {} /\ run.at = "idle" /\ \A s \in Snaps : task[s].at = "idle"
      BY <2>1 DEF Init, Idle, NoTask, Active
    <3> QED
      BY <3>1 DEF Finishing, SealsCrawl, TaskAt, Creating
  <2> QED
    BY <2>1
<1>2. IInv /\ KInv /\ Finishing /\ [Next]_vars => Finishing'
  BY FinishingStays
<1> QED
  BY <1>1, <1>2, Knowledge, PTL DEF Spec

(* The runner seals a crawl only when it is finished, and leaves it so:    *)
(* each of its four seals is made some statements after is_finished was    *)
(* read, yet no pause, resume, cancel, death or hook process in between    *)
(* makes the reading wrong.                                                *)
THEOREM RunnerSealsFinished ==
    ASSUME NothingAdded
    PROVE  Spec => [][ByRunner /\ Status(Crawl) # Sealed /\ Status(Crawl)' = Sealed =>
                        IsFinished /\ IsFinished']_vars
<1>1. ASSUME IInv, KInv, Finishing, [Next]_vars, ByRunner, Status(Crawl) # Sealed,
             Status(Crawl)' = Sealed
      PROVE  IsFinished /\ IsFinished'
  <2>1. RunnerMove
    BY <1>1, EveryStep, CommandTells
  <2>2. SealsCrawl
    BY <1>1, <2>1, ValuesDiffer, NamesDiffer, RowAssumption DEF RunnerMove, Moves, Stays
  <2> QED
    BY <1>1, <2>1, <2>2, SealsFinished, FinishedStays
<1>2. IInv /\ KInv /\ Finishing /\ [Next]_vars =>
        [ByRunner /\ Status(Crawl) # Sealed /\ Status(Crawl)' = Sealed =>
           IsFinished /\ IsFinished']_vars
  BY <1>1
<1> QED
  BY <1>2, FinishingAlways, PTL DEF Spec

(* If besides no command gives work up, or has a snapshot of a sealed      *)
(* crawl opened, a sealed crawl is finished, and no statement adds a       *)
(* snapshot to one; the runner therefore never finds an open snapshot that *)
(* is to follow its crawl's seal.                                          *)
NothingAbandoned == NothingAdded /\ Commands \cap {"cancel", "snapshot_cancel", "upload"} = {}

LEMMA NothingUploaded ==
    ASSUME NothingAbandoned, IInv
    PROVE  Unserved = {}
BY DEF NothingAbandoned, IInv, ResInv, Unserved

Unfollowed ==
    /\ Status(Crawl) = Sealed => IsFinished
    /\ Status(Crawl) = Sealed => ~CreatesRows
    /\ run.at \in {"reconcile_claim", "reconcile_recheck"} => run.parent # Sealed
    /\ ~At("reconcile_seal")

LEMMA SealedBy ==
    ASSUME NothingAbandoned, RunnerMove \/ UserMove, Status(Crawl) # Sealed, Status(Crawl)' = Sealed
    PROVE  SealsCrawl
<1>1. CASE RunnerMove
  BY <1>1, ValuesDiffer, NamesDiffer, RowAssumption DEF RunnerMove, Moves, Stays
<1>2. CASE UserMove
  BY <1>2, ValuesDiffer, NamesDiffer, RowAssumption DEF UserMove, Moves, Stays, NothingAbandoned, NothingAdded
<1> QED
  BY <1>1, <1>2

(* The crawl that is sealed after a step was so before, or is sealed by it.*)
LEMMA SealedIsFinished ==
    ASSUME NothingAbandoned, IInv, KInv, Finishing, Unfollowed,
           RunnerMove \/ UserMove, Status(Crawl)' = Sealed
    PROVE  IsFinished' /\ ~CreatesRows
<1>1. CASE Status(Crawl) = Sealed
  <2>1. IsFinished /\ ~CreatesRows
    BY <1>1 DEF Unfollowed
  <2> QED
    BY <2>1, FinishedStays, NothingUploaded DEF NothingAbandoned
<1>2. CASE Status(Crawl) # Sealed
  BY <1>2, SealedBy, SealsFinished, FinishedStays DEF NothingAbandoned
<1> QED
  BY <1>1, <1>2

LEMMA UnfollowedStays ==
    ASSUME NothingAbandoned, IInv, KInv, Finishing, Unfollowed, [Next]_vars
    PROVE  Unfollowed'
<1>0. Status(Crawl)' = Sealed => IsFinished' /\ ~CreatesRows
  BY EveryStep, SealedIsFinished
<1>u. UNCHANGED row => Status(Crawl)' = Status(Crawl)
  BY DEF Status
<1>1. CASE SchedulerTurn
  <2>1. ScheduleFlow /\ \A s \in Snaps : task'[s].at = "idle"
    BY <1>1 DEF SchedulerTurn, Active
  <2>2. ~CreatesRows'
    BY <2>1 DEF ScheduleFlow, CreatesRows, At, Phases, Creating
  <2>3. run'.at = "reconcile_claim" => run'.parent # Sealed
    <3>1. ASSUME run'.at = "reconcile_claim", run'.parent = Sealed
          PROVE  FALSE
      <4>1. /\ At("snapshot_load") /\ run.on \in Snaps
            /\ Status(Crawl) = Sealed /\ Status(run.on) # Sealed
        BY <2>1, <3>1, ValuesDiffer DEF ScheduleFlow, Follows
      <4>2. Status(run.on) \in Open
        BY <4>1, NamesDiffer DEF KInv, RunnerKnows, HandlesSnap, OnSnap, At, IInv, RowInv,
           RowTypes, Copies, Status
      <4> QED
        BY <4>1, <4>2 DEF Unfollowed, IsFinished, With
    <3> QED
      BY <3>1
  <2> QED
    BY <1>0, <2>1, <2>2, <2>3 DEF ScheduleFlow, Unfollowed, At
<1>2. CASE PhaseTurn
  <2>1. PhaseFlow /\ UNCHANGED task
    BY <1>2 DEF PhaseTurn
  <2>2. Status(Crawl)' = Sealed => ~CreatesRows'
    BY <1>0, <1>u, <2>1, ValuesDiffer DEF PhaseFlow, CreatesRows, At
  <2> QED
    BY <1>0, <2>1, <2>2 DEF PhaseFlow, Unfollowed, At
<1>3. ASSUME NEW s \in Snaps, TaskTurn(s)
      PROVE  Unfollowed'
  <2>1. TaskFlow(s) /\ run'.at = "tasks" /\ \A r \in Snaps : r # s => task'[r] = task[r]
    BY <1>3 DEF TaskTurn, TaskFlow
  <2>2. ASSUME NEW r \in Snaps, task'[r].at \in DOMAIN Creating
        PROVE  Status(Crawl)' # Sealed
    <3>1. CASE r = s
      BY <1>u, <2>1, <2>2, <3>1, ValuesDiffer DEF TaskFlow
    <3>2. CASE r # s
      BY <1>0, <2>1, <2>2, <3>2 DEF CreatesRows
    <3> QED
      BY <3>1, <3>2
  <2> QED
    BY <1>0, <2>1, <2>2 DEF Unfollowed, CreatesRows, At
<1>4. CASE AsideTurn
  BY <1>0, <1>4 DEF AsideTurn, Unfollowed, CreatesRows, At
<1>5. CASE Death
  BY <1>0, <1>5 DEF Death, Unfollowed, CreatesRows, At, Active, Creating
<1> QED
  BY <1>1, <1>2, <1>3, <1>4, <1>5, Turns

LEMMA UnfollowedAlways ==
    ASSUME NothingAbandoned
    PROVE  Spec => [](IInv /\ KInv /\ Finishing /\ Unfollowed)
<1>1. Init => Unfollowed
  <2>1. ASSUME Init
        PROVE  Unfollowed
    <3>1. run.at = "idle" /\ Status(Crawl) = Queued
      BY <2>1, NamesDiffer DEF Init, Idle, Status
    <3> QED
      BY <3>1, ValuesDiffer DEF Unfollowed, At
  <2> QED
    BY <2>1
<1>2. IInv /\ KInv /\ Finishing /\ Unfollowed /\ [Next]_vars => Unfollowed'
  BY UnfollowedStays
<1> QED
  BY <1>1, <1>2, FinishingAlways, PTL DEF Spec, NothingAbandoned

(* Unless the user gives it up, a snapshot is sealed only by the           *)
(* completion of an attempt that ran its hooks: for any pauses and         *)
(* resumes, any deaths of the runner and hook processes that outlive it,   *)
(* and any number of snapshots, if those that are discovered are added by  *)
(* one task at a time.                                                     *)
THEOREM NoWorkLostAlways ==
    ASSUME NothingAbandoned
    PROVE  Spec => NoWorkLost
<1>1. ASSUME Unfollowed, RunnerMove \/ UserMove, NEW s \in Snaps, Status(s) \in Open,
             Status(s)' = Sealed
      PROVE  Status(s) = Started /\ TaskAt(s, "finish")
  <2>1. s \in Rows /\ s # Crawl
    BY NamesDiffer, RowAssumption
  <2>2. CASE RunnerMove
    BY <1>1, <2>1, <2>2, ValuesDiffer DEF RunnerMove, Moves, Stays, Unfollowed
  <2>3. CASE UserMove
    BY <1>1, <2>1, <2>3, ValuesDiffer DEF UserMove, Moves, Stays, NothingAbandoned, NothingAdded
  <2> QED
    BY <1>1, <2>2, <2>3
<1>2. IInv /\ KInv /\ Unfollowed /\ [Next]_vars =>
        [\A s \in Snaps : Status(s) \in Open /\ Status(s)' = Sealed =>
           Status(s) = Started /\ TaskAt(s, "finish")]_vars
  BY <1>1, EveryStep
<1> QED
  BY <1>2, UnfollowedAlways, PTL DEF Spec, NoWorkLost

(* In particular a sealed crawl has no open snapshot left: sealing it by   *)
(* the scheduler, the completion, the finalization or the last task ends   *)
(* no work that has not been done, and no row is added to it afterwards.   *)
THEOREM SealedCrawlFinished ==
    ASSUME NothingAbandoned
    PROVE  Spec => [](Status(Crawl) = Sealed => IsFinished)
<1>1. Unfollowed => (Status(Crawl) = Sealed => IsFinished)
  BY DEF Unfollowed
<1> QED
  BY <1>1, UnfollowedAlways, PTL
=============================================================================
