---------------------------- MODULE CrawlScheduler ----------------------------
(***************************************************************************)
(* The scheduler of services/runner.py: run_pending_crawls asks its        *)
(* queries in a fixed order, and hands the first due row to run_due_crawl  *)
(* or run_due_snapshot, which decide from loaded copies what the row       *)
(* needs.  run.at is the statement the runner makes next.  The SELECTs a   *)
(* decision rests on are one step and the UPDATE it leads to is another,   *)
(* so a command may come between what was read and what is written.        *)
(*                                                                         *)
(* A pass over the queries takes milliseconds and a lease a minute, so no  *)
(* lease runs out while a pass goes on after a handler that did nothing.   *)
(***************************************************************************)
EXTENDS CrawlRows

CONSTANT CrawlIsolation   \* CHROME_ISOLATION=crawl with chrome enabled, the default

ASSUME IsolationAssumption == CrawlIsolation \in BOOLEAN

Idle == [at |-> "idle", pass |-> 1, on |-> NoRow, copy |-> NoCopy,
         parent |-> Absent, ids |-> {}, explicit |-> FALSE, stop |-> "no"]

Down == [Idle EXCEPT !.at = "down"]

(* The due rows each query of a pass selects, in the order of the queries. *)
Of(parents, S) == IF Status(Crawl) \in parents THEN S ELSE {}

Query(i) ==
    <<Of({Queued}, DueRunnable),
      Of({Queued}, {Crawl} \cap due),
      Of(Runnable, DueRunnable),
      Of({Started}, {Crawl} \cap due),
      Of({Sealed}, With(Snaps, {Started}) \cap due),
      Of({Paused}, DueRunnable),
      With(Snaps, Open) \cap due,
      With(Snaps, {Sealed}) \cap due,
      Of({Sealed}, {Crawl} \cap due)>>[i]

FirstQuery ==
    LET found == {i \in run.pass..9 : Query(i) # {}} IN
    IF found = {} THEN 0 ELSE CHOOSE i \in found : \A j \in found : i <= j

-----------------------------------------------------------------------------
At(at) == run.at = at

(* The runner goes on to the statement "at", with the copy it now holds.   *)
GoOn(at, copy) == run' = [run EXCEPT !.at = at, !.copy = copy]
GoTo(at) == run' = [run EXCEPT !.at = at]

(* The handler returns: True starts a new pass, False tries later queries. *)
(* A signal that stopped a CrawlRunner ends the process when it is done; a *)
(* cancelled task may, its CancelledError being raised or not by the bus.  *)
Return(progress) ==
    \/ run.stop \in {"exit", "lost"} /\ run' = Down
    \/ run.stop # "exit" /\ run' = [Idle EXCEPT !.pass = IF progress THEN 1 ELSE run.pass + 1]

RowsOnly == UNCHANGED <<task, hooks, results>>
Reads    == UNCHANGED <<row, due, task, hooks, results>>

Pick ==
    /\ At("idle")
    /\ FirstQuery # 0
    /\ \E r \in Query(FirstQuery) :
         run' = [Idle EXCEPT !.at = IF r = Crawl THEN "crawl_load" ELSE "snapshot_load",
                             !.pass = FirstQuery, !.on = r]
    /\ Reads

(* Nothing is left in this pass.                                           *)
EndPass ==
    /\ At("idle") /\ run.pass > 1
    /\ FirstQuery = 0
    /\ run' = Idle
    /\ Reads

-----------------------------------------------------------------------------
(* Faulty: a parent's seal is followed, but not its pause.                 *)
FollowsSeal(parent, status) == parent = Sealed /\ status # Sealed

(* run_due_snapshot: load the row and the parent's status.  A sealed or    *)
(* paused parent is followed before any work.                              *)
Follows(parent, status) ==
    \/ parent = Sealed /\ status # Sealed
    \/ parent = Paused /\ status \notin Inactive

SnapshotTo(at) ==
    run' = [run EXCEPT !.at = at, !.copy = row[run.on], !.parent = Status(Crawl)]

SnapshotLoad ==
    LET status  == Status(run.on)
        follows == Follows(Status(Crawl), status) IN
    /\ At("snapshot_load")
    /\ \/ follows /\ SnapshotTo("reconcile_claim")
       \/ ~follows /\ status = Paused /\ SnapshotTo("restore_marker")
       \/ ~follows /\ status = Sealed /\ SnapshotTo("maintenance_claim")
       \/ ~follows /\ status \notin Inactive /\ SnapshotTo("admit")
    /\ Reads

(* reconcile_parent_lifecycle: claim the snapshot, read both rows again,   *)
(* and only then seal or pause it.                                         *)
ReconcileClaim ==
    LET hit == Claims(run.on, run.copy) IN
    /\ At("reconcile_claim")
    /\ Set(run.on, hit, Status(run.on), "later")
    /\ IF hit THEN GoOn("reconcile_recheck", row'[run.on]) ELSE Return(FALSE)
    /\ RowsOnly

ReconcileRecheck ==
    LET copy == row[run.on] IN
    /\ At("reconcile_recheck")
    /\ IF Status(Crawl) = run.parent /\ Follows(run.parent, copy.status)
         THEN GoOn(IF run.parent = Sealed THEN "reconcile_seal" ELSE "reconcile_pause", copy)
         ELSE Return(TRUE)
    /\ Reads

(* Snapshot.seal: by compare-and-set, from any open status.                *)
ReconcileSeal ==
    /\ At("reconcile_seal")
    /\ Set(run.on, Same(run.on, run.copy) /\ Status(run.on) \in Open, Sealed, "none")
    /\ Return(TRUE)
    /\ RowsOnly

(* Snapshot.pause: under the status it was loaded with.                    *)
ReconcilePause ==
    /\ At("reconcile_pause")
    /\ Set(run.on, Status(run.on) = run.copy.status, Paused, "max")
    /\ Return(TRUE)
    /\ RowsOnly

(* restore_paused_scheduler_marker.                                        *)
RestoreMarker ==
    /\ At("restore_marker")
    /\ Set(run.on, Status(run.on) = Paused, Paused, "max")
    /\ Return(TRUE)
    /\ RowsOnly

(* A sealed snapshot that is due: claim it; after the upload results, go   *)
(* on only if nobody wrote it meanwhile.  run_snapshot_maintenance loads   *)
(* the row, and takes it out of the queue if it is sealed.                 *)
MaintenanceClaim ==
    LET hit == Same(run.on, run.copy) /\ run.on \in due IN
    /\ At("maintenance_claim")
    /\ Set(run.on, hit, Status(run.on), "later")
    /\ IF hit THEN GoOn("maintenance_check", row'[run.on]) ELSE Return(FALSE)
    /\ RowsOnly

MaintenanceCheck ==
    /\ At("maintenance_check")
    /\ IF row[run.on] = run.copy THEN GoTo("maintenance_load") ELSE Return(TRUE)
    /\ Reads

MaintenanceLoad ==
    /\ At("maintenance_load")
    /\ GoOn("maintenance", row[run.on])
    /\ Reads

(* Faulty: out of the queue, whatever the row that was loaded asked for.   *)
MaintainedAnyway(s, copy) == Set(s, row[s] = copy, copy.status, "none")

Maintained(s, copy) ==
    Set(s, row[s] = copy, copy.status, IF copy.status = Sealed THEN "none" ELSE "now")

Maintenance ==
    /\ At("maintenance")
    /\ Maintained(run.on, run.copy)
    /\ Return(row[run.on] = run.copy)
    /\ RowsOnly

-----------------------------------------------------------------------------
(* A runnable snapshot.  With crawl isolation it is only the signal to run *)
(* its crawl, so the crawl is loaded and claimed; else it is claimed       *)
(* itself.  A live hook process postpones either.                          *)
Admit ==
    /\ At("admit")
    /\ IF ~CrawlIsolation THEN GoTo("snapshot_claim")
       ELSE IF run.on \in hooks THEN GoTo("requeue_live")
       ELSE run' = [run EXCEPT !.at = "crawl_admit", !.on = Crawl, !.copy = row[Crawl]]
    /\ Reads

CrawlAdmit ==
    LET hit == Claims(Crawl, run.copy) IN
    /\ At("crawl_admit")
    /\ Set(Crawl, hit, Status(Crawl), "later")
    /\ IF hit THEN run' = [Idle EXCEPT !.at = "run_load"] ELSE Return(FALSE)
    /\ RowsOnly

SnapshotClaim ==
    LET hit == Claims(run.on, run.copy) IN
    /\ At("snapshot_claim")
    /\ Set(run.on, hit, Status(run.on), "later")
    /\ IF hit THEN GoOn("snapshot_refresh", row'[run.on]) ELSE Return(FALSE)
    /\ RowsOnly

(* Faulty: the hook processes of the last owner are not looked for.        *)
SnapshotRefreshOnly ==
    /\ At("snapshot_refresh")
    /\ GoOn("start", row[run.on])
    /\ Reads

SnapshotRefresh ==
    /\ At("snapshot_refresh")
    /\ GoOn(IF run.on \in hooks THEN "requeue_live" ELSE "start", row[run.on])
    /\ Reads

(* Faulty: only what start_processing has started is run.                  *)
StartQueued ==
    LET hit == run.copy.status = Queued /\ Same(run.on, run.copy) /\ Status(run.on) = Queued IN
    /\ At("start")
    /\ Set(run.on, hit, Started, "later")
    /\ IF hit THEN run' = [Idle EXCEPT !.at = "run_load", !.ids = {run.on}, !.explicit = TRUE]
              ELSE Return(TRUE)
    /\ RowsOnly

(* start_processing if it is queued, refresh, run it if it is started.     *)
Start ==
    LET hit == run.copy.status = Queued /\ Same(run.on, run.copy) /\ Status(run.on) = Queued IN
    /\ At("start")
    /\ Set(run.on, hit, Started, "later")
    /\ IF row'[run.on].status = Started
         THEN run' = [Idle EXCEPT !.at = "run_load", !.ids = {run.on}, !.explicit = TRUE]
         ELSE Return(TRUE)
    /\ RowsOnly

(* Snapshot.update_and_requeue: the snapshot's lease, and, as it is still  *)
(* runnable, its crawl's, which is read again and written back as started  *)
(* if it was started and as queued if it was anything else.                *)
RequeueLive ==
    LET hit == Same(run.on, run.copy) IN
    /\ At("requeue_live")
    /\ Set(run.on, hit, Status(run.on), "later")
    /\ IF hit /\ Status(run.on) \in Runnable THEN GoOn("requeue_live_read", NoCopy)
                                             ELSE Return(TRUE)
    /\ RowsOnly

RequeueLiveRead ==
    /\ At("requeue_live_read")
    /\ run' = [run EXCEPT !.at = "requeue_live_crawl", !.on = Crawl, !.copy = row[Crawl]]
    /\ Reads

RequeueLiveCrawl ==
    /\ At("requeue_live_crawl")
    /\ Set(Crawl, Same(Crawl, run.copy),
           IF run.copy.status = Started THEN Started ELSE Queued, "later")
    /\ Return(TRUE)
    /\ RowsOnly

-----------------------------------------------------------------------------
(* run_due_crawl: the row's current copy decides.                          *)
CrawlLoad ==
    LET copy == row[Crawl] IN
    /\ At("crawl_load")
    /\ \/ copy.status = Paused /\ Return(TRUE)
       \/ copy.status = Sealed /\ GoOn("cleanup_claim", copy)
       \/ copy.status \in Runnable /\ GoOn("crawl_children", copy)
    /\ Reads

(* Due children own the work: a queued crawl waits for them, a started one *)
(* renews its lease.  Without due children it finishes, waits, or runs.    *)
CrawlChildren ==
    /\ At("crawl_children")
    /\ IF DueRunnable # {}
         THEN IF run.copy.status = Started THEN GoTo("crawl_extend") ELSE Return(FALSE)
         ELSE GoTo(IF Existing = {} THEN "crawl_start" ELSE "crawl_pending")
    /\ Reads

CrawlPending ==
    /\ At("crawl_pending")
    /\ GoTo(IF IsFinished THEN "crawl_finish" ELSE "crawl_unlock")
    /\ Reads

CrawlExtend ==
    LET hit == Status(Crawl) = Started IN
    /\ At("crawl_extend")
    /\ Set(Crawl, hit, Started, "later")
    /\ Return(hit)
    /\ RowsOnly

(* Claimed for finishing, or, without any snapshot yet, for a run.         *)
CrawlClaim ==
    LET hit == Claims(Crawl, run.copy) IN
    /\ At("crawl_finish") \/ At("crawl_start")
    /\ Set(Crawl, hit, Status(Crawl), "later")
    /\ IF hit THEN GoOn(IF At("crawl_finish") THEN "advance" ELSE "advance_or_run", row'[Crawl])
              ELSE Return(FALSE)
    /\ RowsOnly

(* refresh, then advance_lifecycle: seal a started crawl that is finished, *)
(* or a queued one whose snapshots are all sealed; start a queued one.     *)
Seals == IsFinished /\ (Status(Crawl) = Started \/ (Status(Crawl) = Queued /\ At("advance")))

Advance ==
    /\ At("advance") \/ At("advance_or_run")
    /\ \/ Seals /\ GoTo("seal") /\ UNCHANGED <<row, due>>
       \/ ~Seals /\ At("advance_or_run")
            /\ run' = [Idle EXCEPT !.at = "run_load"] /\ UNCHANGED <<row, due>>
       \/ ~Seals /\ At("advance")
            /\ Set(Crawl, Status(Crawl) = Queued, Started, "later") /\ Return(TRUE)
    /\ RowsOnly

(* Crawl.seal: unless it is paused, and without looking at retry_at; then  *)
(* the children that were opened meanwhile are woken to be sealed.         *)
Seal ==
    LET hit == Status(Crawl) # Paused IN
    /\ At("seal")
    /\ Set(Crawl, hit, Sealed, "none")
    /\ IF hit THEN GoOn("seal_children", NoCopy) ELSE Return(TRUE)
    /\ RowsOnly

SealChildren ==
    /\ At("seal_children")
    /\ WakeOpenChildren
    /\ Return(TRUE)
    /\ RowsOnly

(* Queued children without retry_at are made due, and the crawl with them. *)
CrawlUnlock ==
    LET locked == {s \in With(Snaps, {Queued}) : row[s].retry = NULL} IN
    /\ At("crawl_unlock")
    /\ Update(locked, Status, "now")
    /\ GoTo(IF locked = {} THEN "crawl_next" ELSE "crawl_again")
    /\ RowsOnly

CrawlAgain ==
    /\ At("crawl_again")
    /\ Set(Crawl, Same(Crawl, run.copy), Started, "now")
    /\ Return(TRUE)
    /\ RowsOnly

(* Otherwise the crawl waits as long as the first of its open children     *)
(* that is not due: for ever, if they are all paused.                      *)
Waiting == {s \in With(Snaps, Open) : row[s].retry # NULL /\ s \notin due}
NextRetry == IF Waiting # {} /\ \A s \in Waiting : row[s].retry = RETRY_AT_MAX
               THEN "max" ELSE "later"

CrawlNext ==
    /\ At("crawl_next")
    /\ GoTo(IF NextRetry = "max" THEN "crawl_wait_max" ELSE "crawl_wait")
    /\ Reads

CrawlWait ==
    /\ At("crawl_wait") \/ At("crawl_wait_max")
    /\ Set(Crawl, Same(Crawl, run.copy), Started, IF At("crawl_wait") THEN "later" ELSE "max")
    /\ Return(TRUE)
    /\ RowsOnly

(* A sealed crawl that is due: claim it, remove its runtime files, and     *)
(* take it out of the queue.                                               *)
CleanupClaim ==
    LET hit == Same(Crawl, run.copy) /\ Crawl \in due IN
    /\ At("cleanup_claim")
    /\ Set(Crawl, hit, Status(Crawl), "later")
    /\ IF hit THEN GoOn("cleanup", row'[Crawl]) ELSE Return(FALSE)
    /\ RowsOnly

(* Faulty: the lease that was claimed for it is left on the row.           *)
CleanupKeepsLease ==
    /\ At("cleanup")
    /\ Set(Crawl, Same(Crawl, run.copy), Status(Crawl), "later")
    /\ Return(TRUE)
    /\ RowsOnly

Cleanup ==
    /\ At("cleanup")
    /\ Set(Crawl, Same(Crawl, run.copy), Status(Crawl), "none")
    /\ Return(TRUE)
    /\ RowsOnly

-----------------------------------------------------------------------------
Schedule ==
    \/ Pick \/ EndPass
    \/ SnapshotLoad
    \/ ReconcileClaim \/ ReconcileRecheck \/ ReconcileSeal \/ ReconcilePause
    \/ RestoreMarker
    \/ MaintenanceClaim \/ MaintenanceCheck \/ MaintenanceLoad \/ Maintenance
    \/ Admit \/ CrawlAdmit \/ SnapshotClaim \/ SnapshotRefresh \/ Start
    \/ RequeueLive \/ RequeueLiveRead \/ RequeueLiveCrawl
    \/ CrawlLoad \/ CrawlChildren \/ CrawlPending \/ CrawlExtend \/ CrawlClaim
    \/ Advance \/ Seal \/ SealChildren
    \/ CrawlUnlock \/ CrawlAgain \/ CrawlNext \/ CrawlWait
    \/ CleanupClaim \/ Cleanup
=============================================================================
