------------------------------ MODULE CrawlRows ------------------------------
(***************************************************************************)
(* The rows of one Crawl and its Snapshots, and everything that holds a    *)
(* loaded copy of them: the elected runner, the snapshot tasks of its      *)
(* CrawlRunner, and one user command.  CrawlCommands, CrawlScheduler and   *)
(* CrawlExecution say what each of the three does; CrawlSystem puts them   *)
(* together.                                                               *)
(*                                                                         *)
(* retry_at is NULL, RETRY_AT_MAX or a timestamp.  Timestamps are only     *)
(* compared for equality with the row's own copies (WorkQueue shows they   *)
(* are versions of the row), so a new one is the least number no copy of   *)
(* the row carries; whether it has passed is in "due".                     *)
(***************************************************************************)
EXTENDS Integers, FiniteSets

CONSTANTS
    Crawl,        \* the crawl's row
    Roots,        \* snapshots of the submitted URLs
    Kids,         \* Kids[s]: snapshots whose URLs the hooks of s discover
    NoRow,        \* no row
    MaxStamp      \* bound on the timestamps one row and its copies carry

Snaps == Roots \cup UNION {Kids[s] : s \in DOMAIN Kids}
Rows  == {Crawl} \cup Snaps

ASSUME RowAssumption == Crawl \notin Snaps /\ NoRow \notin Rows /\ IsFiniteSet(Snaps)
ASSUME StampAssumption == MaxStamp \in Nat /\ MaxStamp >= 6
ASSUME KidsAssumption == Roots \cap UNION {Kids[s] : s \in DOMAIN Kids} = {}

VARIABLES
    row,    \* row[r]: status and retry_at in the database
    due,    \* rows whose retry_at is a timestamp that has passed
    run,    \* the runner: at, pass, on, copy, parent, ids
    task,   \* task[s]: the runner's asyncio task for s: at, own, copy
    hooks,  \* snapshots with a running hook process
    results,\* results[s]: who made the ArchiveResults of s, "upload" or "server"
    cmd     \* the user command: at, on, copy, seen

-----------------------------------------------------------------------------
Queued  == "queued"
Started == "started"
Paused  == "paused"
Sealed  == "sealed"
Absent  == "absent"   \* not created yet

Runnable == {Queued, Started}
Open     == {Queued, Started, Paused}
Inactive == {Paused, Sealed}

NULL         == 0
RETRY_AT_MAX == -1
Stamps       == 1..MaxStamp

NoCopy == [status |-> Absent, retry |-> NULL]

Status(r) == row[r].status
With(S, statuses) == {s \in S : Status(s) \in statuses}

-----------------------------------------------------------------------------
(* retry_at values of r that some process still remembers.                 *)
Remembered(r) ==
    (IF run.on = r THEN {run.copy.retry} ELSE {})
      \cup (IF cmd.on = r THEN {cmd.copy.retry} ELSE {})
      \cup (IF r \in Snaps THEN {task[r].own, task[r].copy.retry} ELSE {})

Fresh(r) ==
    LET used == {row[r].retry} \cup Remembered(r) IN
    CHOOSE n \in Stamps : n \notin used /\ \A m \in 1..(n - 1) : m \in used

(* The values code writes to retry_at: None, RETRY_AT_MAX, the time now,   *)
(* or a lease that ends later.                                             *)
When == {"none", "max", "now", "later"}

RetryAt(r, when) ==
    CASE when = "none" -> NULL
      [] when = "max"  -> RETRY_AT_MAX
      [] OTHER         -> Fresh(r)

(* One UPDATE of the rows in R: new status and retry_at for each.          *)
Update(R, status(_), when) ==
    /\ row' = [r \in Rows |->
                 IF r \in R THEN [status |-> status(r), retry |-> RetryAt(r, when)]
                            ELSE row[r]]
    /\ due' = IF when = "now" THEN due \cup R ELSE due \ R

(* Faulty: the row stays in the queue's index whatever retry_at it gets.   *)
SetKeepsDue(r, hit, status, when) ==
    /\ row' = [row EXCEPT ![r] = IF hit THEN [status |-> status, retry |-> RetryAt(r, when)] ELSE @]
    /\ due' = IF hit /\ when = "now" THEN due \cup {r} ELSE due

(* An UPDATE of one row that matches it when "hit".                        *)
Set(r, hit, status, when) ==
    IF hit THEN Update({r}, LAMBDA x : status, when) ELSE UNCHANGED <<row, due>>

(* schedule_child_snapshots_for_sealing: open children that are not due    *)
(* become due, with the status they have.                                  *)
WakeOpenChildren == Update(With(Snaps, Open) \ due, Status, "now")

(* filter(retry_at=copy.retry_at): nobody wrote the row since it was read. *)
Same(r, copy) == row[r].retry = copy.retry

(* claim_processing_lock: a copy in the queue, still current, and due.     *)
Claims(r, copy) ==
    /\ copy.status # Sealed
    /\ copy.retry # NULL
    /\ Same(r, copy) /\ r \in due

(* is_finished: no open snapshot, or no snapshot at all.                   *)
IsFinished == With(Snaps, Open) = {}
Existing   == With(Snaps, Open \cup {Sealed})
DueRunnable == With(Snaps, Runnable) \cap due

(* Faulty: whatever the server's hooks have made of them.                  *)
Extended == {s \in With(Snaps, {Sealed}) : "upload" \in results[s]}

(* extension_only_snapshots: sealed, and all they have was uploaded.       *)
ExtensionOnly == {s \in With(Snaps, {Sealed}) : results[s] = {"upload"}}
=============================================================================
