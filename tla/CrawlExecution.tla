---------------------------- MODULE CrawlExecution ----------------------------
(***************************************************************************)
(* One CrawlRunner at work: CrawlRunner.run and run_crawl in               *)
(* services/runner.py, with the projectors CrawlService and                *)
(* SnapshotService that write what its events mean to the rows.  The crawl *)
(* goes through setup, start, cleanup, completion and finalization         *)
(* (run.at); between start and cleanup a task per snapshot is under way    *)
(* (task[s].at), each of whose database statements is one step.            *)
(*                                                                         *)
(* resource_admission never defers a crawl here, and grants between one    *)
(* slot, when no task is active, and "Slots"; no crawl limit is reached;   *)
(* URLs are valid; no plugin run (RETRY_PLUGINS) is pending.               *)
(***************************************************************************)
EXTENDS CrawlScheduler

CONSTANT Slots   \* snapshots captured at once

ASSUME SlotAssumption == Slots \in Nat \ {0}

Nobody == -2   \* the attempt owns no retry_at

NoTask == [at |-> "idle", own |-> Nobody, copy |-> NoCopy,
           loaded |-> FALSE,      \* load_snapshot_payload found it sealed
           sealed |-> FALSE]      \* was_sealed

Active == {s \in Snaps : task[s].at # "idle"}

Aside == UNCHANGED <<task, hooks, results>>

(* allow_maintenance_on_inactive_crawl: only a run of explicit snapshots,  *)
(* and only by the status the CrawlRunner last loaded (run.parent).        *)
MaintenanceAllowed == run.explicit /\ run.parent = Sealed
Reload == IF run.explicit THEN Status(Crawl) ELSE run.parent

(* crawl_is_cancelled and crawl_is_paused.                                 *)
Cancelled == run.stop \in {"abort", "exit"} \/ (Status(Crawl) = Sealed /\ ~MaintenanceAllowed)
Blocked   == Cancelled \/ (Status(Crawl) = Paused /\ ~MaintenanceAllowed)

(* execution_interrupted: the run is to leave its rows to the next owner.  *)
Interrupted == run.stop \in {"abort", "exit"}

-----------------------------------------------------------------------------
(* _run_crawl_locked and load_run_state: what the run begins with.         *)
Selected ==
    IF Status(Crawl) = Paused THEN {}
    ELSE IF run.ids # {} THEN run.ids
    ELSE IF DueRunnable # {} THEN DueRunnable
    ELSE IF With(Snaps, Runnable) # {} THEN {} ELSE Existing

FirstOf(S) == IF S \cap Roots # {} THEN S \cap Roots ELSE S   \* the least depth

RunLoad ==
    /\ At("run_load")
    /\ \/ /\ Selected = {}
          /\ GoTo(IF Existing = {} /\ Status(Crawl) \in Runnable THEN "create_roots" ELSE "finalize_read")
       \/ \E s \in FirstOf(Selected) :
            run' = [run EXCEPT !.at = "setup", !.ids = {s}, !.on = NoRow, !.copy = NoCopy,
                               !.parent = Reload]
    /\ Reads

(* create_initial_snapshots: the submitted URLs become queued, due rows.   *)
CreateRoots ==
    /\ At("create_roots")
    /\ Update(Roots, LAMBDA s : Queued, "now")
    /\ \E s \in Roots : run' = [run EXCEPT !.at = "setup", !.ids = {s}]
    /\ Aside

(* CrawlSetupEvent and CrawlStartEvent renew the lease of an active crawl; *)
(* a paused or sealed one goes straight to cleanup.                        *)
Setup ==
    /\ At("setup")
    /\ Set(Crawl, ~Blocked /\ Status(Crawl) \notin Inactive, Started, "later")
    /\ run' = [run EXCEPT !.at = "start_event", !.parent = Reload]
    /\ Aside

StartEvent ==
    /\ At("start_event")
    /\ Set(Crawl, ~Blocked /\ Status(Crawl) \notin Inactive, Started, "later")
    /\ GoTo(IF Blocked THEN "cleanup_event" ELSE "tasks")
    /\ Aside

(* watch_for_cancelled_crawl, polling while the run goes on.               *)
Watched == {"start_event", "tasks", "cleanup_event"}
Watch ==
    /\ run.at \in Watched /\ ~Interrupted
    /\ Cancelled
    /\ run' = [run EXCEPT !.stop = "abort"]
    /\ Reads

(* _request_abort_from_signal: the process is told to go.                  *)
Interrupt ==
    /\ run.at \in Watched /\ run.stop # "exit"
    /\ run' = [run EXCEPT !.stop = "exit"]
    /\ Reads

-----------------------------------------------------------------------------
(* enqueue_snapshot: a task for a selected snapshot, or, from              *)
(* enqueue_pending_snapshots_from_projection, for one that became due.     *)
Pending == run.ids \cup (IF run.explicit THEN {} ELSE DueRunnable)

Enqueue(s) ==
    /\ At("tasks") /\ run.stop = "no" /\ ~Blocked
    /\ task[s].at = "idle"
    /\ Cardinality(Active) < Slots
    /\ s \in Pending
    /\ task' = [task EXCEPT ![s].at = "payload"]
    /\ run' = [run EXCEPT !.ids = @ \ {s}]
    /\ UNCHANGED <<row, due, hooks, results>>

(* wait_for_snapshot_tasks: all done, and nothing left to enqueue.         *)
TasksDone ==
    /\ At("tasks")
    /\ Active = {}
    /\ run.stop # "no" \/ Blocked \/ Pending = {}
    /\ run' = [run EXCEPT !.at = "cleanup_event", !.ids = {}]
    /\ Reads

(* heartbeat_active_leases, the crawl's part.                              *)
HeartbeatCrawl ==
    /\ At("tasks") /\ Active # {} /\ run.stop = "no"
    /\ Status(Crawl) = Started
    /\ Set(Crawl, TRUE, Started, "later")
    /\ UNCHANGED <<run, task, hooks, results>>

(* Faulty: the lease is let go by clearing it.                             *)
CleanupEventForgets ==
    /\ At("cleanup_event")
    /\ Set(Crawl, Status(Crawl) \notin Inactive, Started, "none")
    /\ GoTo("finalize_read")
    /\ Aside

(* CrawlCleanupEvent makes the crawl due for whatever comes next.  There   *)
(* is no CrawlCompletedEvent after an interruption, nor, if the bus raises *)
(* it, after the CancelledError of a task.                                 *)
CleanupEvent ==
    /\ At("cleanup_event")
    /\ Set(Crawl, Status(Crawl) \notin Inactive, Started, "now")
    /\ \/ run.stop # "no" /\ GoTo("finalize_read")
       \/ ~Interrupted /\ GoTo("completed_read")
    /\ Aside

(* CrawlCompletedEvent: read, then seal the crawl or make it due, unless   *)
(* it was paused or sealed since.                                          *)
CompletedRead ==
    /\ At("completed_read")
    /\ GoTo(IF Status(Crawl) \in Inactive THEN "finalize_read"
            ELSE IF IsFinished THEN "completed_seal" ELSE "completed_requeue")
    /\ Reads

(* Faulty: what was read is written, whatever the user did since.          *)
CompletedWriteAnyway ==
    /\ At("completed_seal") \/ At("completed_requeue")
    /\ IF At("completed_seal") THEN Set(Crawl, TRUE, Sealed, "none")
                               ELSE Set(Crawl, TRUE, Started, "now")
    /\ GoTo("finalize_read")
    /\ Aside

CompletedWrite ==
    /\ At("completed_seal") \/ At("completed_requeue")
    /\ IF At("completed_seal") THEN Set(Crawl, Status(Crawl) \notin Inactive, Sealed, "none")
                               ELSE Set(Crawl, Status(Crawl) \notin Inactive, Started, "now")
    /\ GoTo("finalize_read")
    /\ Aside

(* finalize_run_state: an active crawl is sealed if it is finished, else   *)
(* started, with the retry_at it has.  The code's other choices of a       *)
(* retry_at are for an active crawl without one; NeverForgotten says that  *)
(* there is none.                                                          *)
FinalizeRead ==
    /\ At("finalize_read")
    /\ IF Status(Crawl) \in Inactive THEN Return(TRUE)
       ELSE run' = [run EXCEPT !.on = Crawl, !.copy = row[Crawl], !.ids = {},
               !.at = IF ~IsFinished THEN "finalize_requeue"
                      ELSE IF Status(Crawl) = Started THEN "seal" ELSE "finalize_seal"]
    /\ Reads

FinalizeSeal ==
    /\ At("finalize_seal")
    /\ Set(Crawl, Same(Crawl, run.copy), Sealed, "none")
    /\ Return(TRUE)
    /\ Aside

FinalizeRequeue ==
    /\ At("finalize_requeue")
    /\ row' = [row EXCEPT ![Crawl].status = IF Same(Crawl, run.copy) THEN Started ELSE @]
    /\ UNCHANGED due
    /\ Return(TRUE)
    /\ Aside

-----------------------------------------------------------------------------
TaskAt(s, at) == task[s].at = at

TaskTo(s, at) == task' = [task EXCEPT ![s].at = at]

TaskEnd(s) == task' = [task EXCEPT ![s] = NoTask]

(* load_snapshot_payload.                                                  *)
Payload(s) ==
    /\ TaskAt(s, "payload")
    /\ task' = [task EXCEPT ![s].at = "event", ![s].loaded = Status(s) = Sealed]
    /\ run' = [run EXCEPT !.parent = Reload]
    /\ UNCHANGED <<row, due, hooks, results>>

(* The first hook process of an attempt starts, and has an ArchiveResult.  *)
Launch(s) ==
    /\ hooks' = hooks \cup {s}
    /\ results' = [results EXCEPT ![s] = @ \cup {"server"}]

(* Hooks that are cancelled withdraw their results, and may be all there   *)
(* were.                                                                   *)
HooksStop(s, cancelled) ==
    /\ hooks' = hooks \ {s}
    /\ \/ UNCHANGED results
       \/ cancelled /\ results' = [results EXCEPT ![s] = @ \ {"server"}]

(* SnapshotEvent: SnapshotService loads the row.  The attempt owns a       *)
(* started or sealed row under the retry_at it has, and a paused one not   *)
(* at all; the hooks run for any.                                          *)
Event(s) ==
    /\ TaskAt(s, "event")
    /\ \/ /\ Status(s) = Queued
          /\ task' = [task EXCEPT ![s].at = "start", ![s].copy = row[s]]
          /\ UNCHANGED <<hooks, results>>
       \/ /\ Status(s) # Queued
          /\ task' = [task EXCEPT ![s].at = "hooks", ![s].sealed = Status(s) = Sealed,
                          ![s].own = IF Status(s) = Paused THEN @ ELSE row[s].retry]
          /\ Launch(s)
    /\ UNCHANGED <<row, due, run>>

(* start_processing, by compare-and-set; whatever retry_at the row then    *)
(* holds is the one the attempt owns.                                      *)
StartProcessing(s) ==
    LET hit == Same(s, task[s].copy) /\ Status(s) = Queued IN
    /\ TaskAt(s, "start")
    /\ Set(s, hit, Started, "later")
    /\ task' = [task EXCEPT ![s].at = "hooks", ![s].own = row'[s].retry, ![s].copy = NoCopy]
    /\ Launch(s)
    /\ UNCHANGED run

(* The hooks end, having run, timed out, or been told to abort.            *)
HooksEnd(s) ==
    /\ TaskAt(s, "hooks")
    /\ TaskTo(s, "completed")
    /\ HooksStop(s, Interrupted)
    /\ UNCHANGED <<row, due, run>>

(* renew_lease, under the retry_at the attempt owns.  A lost lease cancels *)
(* the task, and wait_for_snapshot_tasks enqueues no other.                *)
RenewLease(s) ==
    LET hit == Status(s) = Started /\ row[s].retry = task[s].own IN
    /\ At("tasks") /\ TaskAt(s, "hooks") /\ run.stop = "no"
    /\ task[s].own # Nobody /\ ~task[s].sealed
    /\ Set(s, hit, Started, "later")
    /\ IF hit THEN task' = [task EXCEPT ![s].own = row'[s].retry] ELSE TaskEnd(s)
    /\ IF hit THEN UNCHANGED <<run, hooks, results>>
              ELSE HooksStop(s, TRUE) /\ run' = [run EXCEPT !.stop = "lost"]

-----------------------------------------------------------------------------
(* SnapshotCompletedEvent, finalize_completed_snapshot: unless the owner   *)
(* was interrupted, load the row, ...                                      *)
Completed(s) ==
    /\ TaskAt(s, "completed")
    /\ IF task[s].own = Nobody \/ Interrupted
         THEN TaskTo(s, "after")
         ELSE task' = [task EXCEPT ![s].at = "project", ![s].copy = row[s]]
    /\ UNCHANGED <<row, due, run, hooks, results>>

(* ... read the crawl and, if it is active, create the discovered rows,    *)
(* which are queued and due whatever the crawl's status is by then, ...    *)
Projecting == [project |-> "finish", project_again |-> "last"]
Creating   == [create |-> "finish", create_again |-> "last"]
Discovered(s) == IF s \in DOMAIN Kids THEN With(Kids[s], {Absent}) ELSE {}

Project(s) ==
    LET found == Status(Crawl) \in Runnable /\ Discovered(s) # {} IN
    /\ task[s].at \in DOMAIN Projecting
    /\ TaskTo(s, IF ~found THEN Projecting[task[s].at]
                 ELSE IF TaskAt(s, "project") THEN "create" ELSE "create_again")
    /\ UNCHANGED <<row, due, run, hooks, results>>

Create(s) ==
    /\ task[s].at \in DOMAIN Creating
    /\ Update(Discovered(s), LAMBDA k : Queued, "now")
    /\ TaskTo(s, Creating[task[s].at])
    /\ UNCHANGED <<run, hooks, results>>

(* Faulty: the row is sealed even if it is no longer the attempt's.        *)
FinishAnyway(s) ==
    /\ TaskAt(s, "finish")
    /\ Set(s, ~task[s].sealed /\ Status(s) \in Open, Sealed, "none")
    /\ task' = [task EXCEPT ![s] = [NoTask EXCEPT !.at = "after", !.loaded = task[s].loaded]]
    /\ UNCHANGED <<run, hooks, results>>

(* ... and seal the row, if it is still the attempt's.                     *)
Finish(s) ==
    LET copy == task[s].copy
        hit == /\ ~task[s].sealed /\ copy.status = Started /\ copy.retry = task[s].own
               /\ Same(s, copy) /\ Status(s) \in Open IN
    /\ TaskAt(s, "finish")
    /\ Set(s, hit, Sealed, "none")
    /\ task' = [task EXCEPT ![s] = [NoTask EXCEPT !.at = "after", !.loaded = task[s].loaded]]
    /\ UNCHANGED <<run, hooks, results>>

(* Back in run_snapshot: nothing more if interrupted; maintenance, if the  *)
(* payload was sealed; else discovered rows again, and the crawl's seal.   *)
After(s) ==
    /\ TaskAt(s, "after")
    /\ IF Interrupted THEN TaskEnd(s)
       ELSE IF task[s].loaded
         THEN task' = [task EXCEPT ![s].at = "maintenance", ![s].copy = row[s]]
         ELSE TaskTo(s, "project_again")
    /\ UNCHANGED <<row, due, run, hooks, results>>

TaskMaintenance(s) ==
    /\ TaskAt(s, "maintenance")
    /\ Maintained(s, task[s].copy)
    /\ TaskEnd(s)
    /\ UNCHANGED <<run, hooks, results>>

(* _seal_when_last_snapshot_finished: two reads, then Crawl.seal.          *)
Last(s) ==
    /\ TaskAt(s, "last")
    /\ IF Status(Crawl) = Started /\ IsFinished THEN TaskTo(s, "last_seal") ELSE TaskEnd(s)
    /\ UNCHANGED <<row, due, run, hooks, results>>

LastSeal(s) ==
    /\ TaskAt(s, "last_seal")
    /\ Set(Crawl, Status(Crawl) # Paused, Sealed, "none")
    /\ IF Status(Crawl) # Paused THEN TaskTo(s, "last_wake") ELSE TaskEnd(s)
    /\ UNCHANGED <<run, hooks, results>>

LastWake(s) ==
    /\ TaskAt(s, "last_wake")
    /\ WakeOpenChildren
    /\ TaskEnd(s)
    /\ UNCHANGED <<run, hooks, results>>

-----------------------------------------------------------------------------
RunPhases ==
    \/ RunLoad \/ CreateRoots \/ Setup \/ StartEvent \/ TasksDone
    \/ CleanupEvent \/ CompletedRead \/ CompletedWrite
    \/ FinalizeRead \/ FinalizeSeal \/ FinalizeRequeue

Task(s) ==
    \/ Payload(s) \/ Event(s) \/ StartProcessing(s) \/ HooksEnd(s)
    \/ Completed(s) \/ Project(s) \/ Create(s) \/ Finish(s) \/ After(s) \/ TaskMaintenance(s)
    \/ Last(s) \/ LastSeal(s) \/ LastWake(s)
=============================================================================
