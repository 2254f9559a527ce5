----------------------------- MODULE CrawlSystem -----------------------------
(***************************************************************************)
(* A crawl, its snapshots, the elected runner and the users, together: the *)
(* queue that is nothing but the status and retry_at columns of the rows.  *)
(*                                                                         *)
(* The runner is a daemon.  It may die between any two statements; the     *)
(* hook processes of its tasks may outlive it, and supervisord starts the  *)
(* next runner, which first repairs the queue (recover_orchestrator_state).*)
(* An idle runner repairs it again every 30 seconds.                       *)
(***************************************************************************)
EXTENDS CrawlCommands, CrawlExecution

CONSTANTS
    MaxCommands,   \* bound on the commands of a behaviour
    MaxDeaths      \* bound on the deaths of the runner

ASSUME BudgetAssumption == MaxCommands \in Nat /\ MaxDeaths \in Nat

VARIABLE deaths    \* deaths the runner may still die

vars == <<row, due, run, task, hooks, results, cmd, budget, deaths>>

-----------------------------------------------------------------------------
(* A submitted crawl, queued and due, none of whose snapshots exists.      *)
Init ==
    /\ row = [r \in Rows |-> IF r = Crawl THEN [status |-> Queued, retry |-> 1] ELSE NoCopy]
    /\ due = {Crawl}
    /\ run = Idle
    /\ task = [s \in Snaps |-> NoTask]
    /\ hooks = {}
    /\ results = [s \in Snaps |-> {}]
    /\ cmd = NoCommand
    /\ budget = MaxCommands
    /\ deaths = MaxDeaths

-----------------------------------------------------------------------------
(* recover_orchestrator_state, one statement after the other: rows that    *)
(* can be worked on but are not in the queue, or are under the lease of an *)
(* owner that is gone, become due; and sealed snapshots that have nothing  *)
(* but uploads are opened again, after their crawl if that is sealed.      *)
Unqueued(S, statuses) == {r \in With(S, statuses) : row[r].retry = NULL}
Future(r) == row[r].retry # NULL /\ r \notin due
(* Faulty: only rows without retry_at, not those that wait for ever.       *)
UnownedNull(S) == {r \in With(S, {Started}) : row[r].retry = NULL}
Unowned(S) == {r \in With(S, {Started}) : row[r].retry = NULL \/ Future(r)}

Repairs == <<"recover_crawl", "recover_queued", "recover_upload_crawl", "recover_uploads",
             "recover_started", "recover_parent", "idle">>

(* A started crawl is due with its children; else it waits for the first   *)
(* of them that is due later.                                              *)
ChildDue == \E s \in With(Snaps, Runnable) : row[s].retry = NULL \/ s \in due
ParentRetry == IF ChildDue \/ Waiting = {} THEN "now" ELSE NextRetry

Repair(i) == At(Repairs[i]) /\ GoTo(Repairs[i + 1])

Recover ==
    /\ \/ Repair(1) /\ Update(Unqueued({Crawl}, {Queued}), Status, "now")
       \/ Repair(2) /\ Update(Of(Runnable, Unqueued(Snaps, {Queued})), Status, "now")
       \/ Repair(3) /\ Update(IF ExtensionOnly = {} THEN {} ELSE With({Crawl}, {Sealed}),
                               LAMBDA r : Started, "now")
       \/ Repair(4) /\ Update(Of({Queued, Started, Sealed}, ExtensionOnly),
                               LAMBDA s : Queued, "now")
       \/ Repair(5) /\ Update(Unowned(Snaps) \ hooks, Status, "now")
       \/ Repair(6) /\ Update(Unowned({Crawl}), Status, ParentRetry)
    /\ RowsOnly

(* A pass that has found nothing to do may repair the queue.               *)
IdleRecovery ==
    /\ At("idle")
    /\ FirstQuery = 0
    /\ run' = [Idle EXCEPT !.at = Repairs[1]]
    /\ Reads

Restart ==
    /\ At("down")
    /\ run' = [Idle EXCEPT !.at = Repairs[1]]
    /\ Reads

-----------------------------------------------------------------------------
Runner(A) == A /\ UNCHANGED <<cmd, budget, deaths>>

RunnerStep == Schedule \/ RunPhases \/ Recover \/ Restart

TaskStep(s) == Task(s) \/ Enqueue(s)

Lease(s) == RenewLease(s) \/ HeartbeatCrawl

(* The runner dies; the hook processes that its server still owns go on.   *)
Die ==
    /\ deaths > 0 /\ ~At("down")
    /\ run' = Down
    /\ task' = [s \in Snaps |-> NoTask]
    /\ hooks' \in SUBSET hooks
    /\ deaths' = deaths - 1
    /\ UNCHANGED <<row, due, results, cmd, budget>>

(* The runner is told to go, and goes when its run has wound up.           *)
Signal ==
    /\ deaths > 0
    /\ Interrupt
    /\ deaths' = deaths - 1
    /\ UNCHANGED <<cmd, budget>>

(* A hook process nobody waits for ends.                                   *)
OrphanEnds(s) ==
    /\ s \in hooks /\ ~TaskAt(s, "hooks")
    /\ hooks' = hooks \ {s}
    /\ UNCHANGED <<row, due, run, task, results, cmd, budget, deaths>>

(* Time reaches a retry_at.                                                *)
LeaseExpires(r) ==
    /\ row[r].retry \in Stamps /\ r \notin due
    /\ At("idle") => run.pass = 1
    /\ due' = due \cup {r}
    /\ UNCHANGED <<row, run, task, hooks, results, cmd, budget, deaths>>

Next ==
    \/ Runner(RunnerStep)
    \/ Runner(IdleRecovery)
    \/ Runner(Watch)
    \/ \E s \in Snaps : Runner(TaskStep(s)) \/ Runner(Lease(s)) \/ OrphanEnds(s)
    \/ Command /\ UNCHANGED deaths
    \/ Die \/ Signal
    \/ \E r \in Rows : LeaseExpires(r)

Spec == Init /\ [][Next]_vars

(* The runner and its tasks go on with what they are doing, supervisord    *)
(* starts the next runner, a command that has begun is carried out, hook   *)
(* processes end and time passes.  Nobody has to give a command, and no    *)
(* lease has to be renewed.                                                *)
Fairness ==
    /\ WF_vars(Runner(RunnerStep)) /\ SF_vars(Runner(IdleRecovery))
    /\ \A s \in Snaps : WF_vars(Runner(TaskStep(s))) /\ WF_vars(OrphanEnds(s))
    /\ WF_vars(Command /\ UNCHANGED <<budget, deaths>>)
    /\ \A r \in Rows : SF_vars(LeaseExpires(r))

FairSpec == Spec /\ Fairness

-----------------------------------------------------------------------------
Retries == Stamps \cup {NULL, RETRY_AT_MAX}
Copies  == [status : Open \cup {Sealed, Absent}, retry : Retries]

(* The variables hold values of their types, and only a row whose retry_at *)
(* is a timestamp is due: a row that is not in the queue (NULL) or hidden  *)
(* (RETRY_AT_MAX) is never picked.                                         *)
TypeOK ==
    /\ row \in [Rows -> Copies]
    /\ due \subseteq {r \in Rows : row[r].retry \in Stamps}
    /\ run.on \in Rows \cup {NoRow} /\ run.copy \in Copies /\ run.ids \subseteq Snaps
    /\ \A s \in Snaps : task[s].own \in Retries \cup {Nobody} /\ task[s].copy \in Copies
    /\ hooks \subseteq Snaps
    /\ results \in [Snaps -> SUBSET {"upload", "server"}]
    /\ cmd.on \in Rows \cup {NoRow} /\ cmd.copy \in Copies

(* A queued or started row is never out of the queue: retry_at is the only *)
(* signal the runner sees, and NULL on unfinished work hides it for ever.  *)
NeverForgotten ==
    \A r \in Rows : Status(r) \in Runnable => row[r].retry # NULL

ByRunner == UNCHANGED <<cmd, budget>>

(* The sealed snapshots no server hook has ever worked on.                 *)
Unserved == {s \in Snaps : Status(s) = Sealed /\ results[s] = {"upload"}}

(* The runner never overrules the user: it opens no sealed row, but a      *)
(* snapshot that has nothing but uploads, never in a paused crawl, and a   *)
(* sealed crawl for such a snapshot; and it ends no pause but that of a    *)
(* snapshot it seals after its crawl.                                      *)
Reopens(r) ==
    IF r = Crawl THEN Unserved # {} /\ Status(r)' = Started
    ELSE r \in Unserved /\ Status(r)' = Queued /\ Status(Crawl) # Paused

UserDecides ==
    [][ByRunner => \A r \in Rows :
         /\ Status(r) = Sealed => Status(r)' = Sealed \/ Reopens(r)
         /\ Status(r) = Paused /\ Status(r)' # Paused =>
              r # Crawl /\ Status(r)' = Sealed /\ Status(Crawl) = Sealed]_vars

(* Unless the user cancels, a snapshot is sealed only by the completion of *)
(* an attempt that ran its hooks, and only if it is still being attempted. *)
NoWorkLost ==
    [][\A s \in Snaps : Status(s) \in Open /\ Status(s)' = Sealed =>
          Status(s) = Started /\ TaskAt(s, "finish")]_vars

(* No attempt launches hooks for a snapshot that has a running hook        *)
(* process, left over from a runner that died.                             *)
OneAttempt ==
    [][\A s \in Snaps : ~TaskAt(s, "hooks") /\ task'[s].at = "hooks" => s \notin hooks]_vars

(* The statuses change along the documented state diagrams and the arrow   *)
(* they lack, that of the recovery, which only snapshots take that have    *)
(* nothing but uploads, and their crawl, whatever the interleaving of      *)
(* commands, scheduler, snapshot tasks and projectors.                     *)
Diagram == INSTANCE LifecycleDiagram WITH status <- [r \in Rows |-> Status(r)],
                                          unserved <- Unserved
FollowsDiagram == Diagram!DiagramSpec

(* Along the documented diagrams alone, where a sealed row is final: false *)
(* once something was uploaded.                                            *)
FollowsDocument == Diagram!DocumentedSpec

(* A cancelled crawl comes to rest: every snapshot it has, discovered ones *)
(* included, is sealed, and none of its rows is in the queue any more.     *)
CancelEnds ==
    Status(Crawl) = Sealed ~>
        /\ Existing = With(Snaps, {Sealed})
        /\ \A r \in Rows : row[r].retry = NULL

(* A crawl that can be worked on is worked on until it is sealed, or the   *)
(* user pauses it, through lost leases, orphaned hooks and new runners.    *)
WorkEnds == Status(Crawl) \in Runnable ~> Status(Crawl) \in Inactive

(* A paused crawl comes to rest: no snapshot of it stays runnable.         *)
PauseEnds ==
    Status(Crawl) = Paused ~> (Status(Crawl) # Paused \/ With(Snaps, Runnable) = {})

(* A queued or started snapshot is extracted, or put aside, however its    *)
(* own pauses and resumes fall between the steps of its crawl.             *)
SnapshotsEnd == \A s \in Snaps : Status(s) \in Runnable ~> Status(s) \in Inactive

(* Once a crawl is resumed, no snapshot of it stays paused while the crawl *)
(* is runnable, unless the snapshot was paused by itself.                  *)
ResumeReaches ==
    Status(Crawl) \in Runnable ~> (Status(Crawl) \in Inactive \/ With(Snaps, {Paused}) = {})
=============================================================================
