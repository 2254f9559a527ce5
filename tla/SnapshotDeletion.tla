--------------------------- MODULE SnapshotDeletion ---------------------------
(***************************************************************************)
(* Deletion of snapshots and their files: Snapshot.delete and              *)
(* delete_requested in core/models.py, the retention sweep delete_expired  *)
(* of base_models/models.py, the deletion worker, and what runs beside     *)
(* them: the runner that captures, hook processes that write files, and    *)
(* users with copies of rows.                                              *)
(*                                                                         *)
(* A deletion is asked for by making the row "deleting", at RETRY_AT_MAX;  *)
(* the files go before the row does.  One action is one statement on the   *)
(* row or one step on the files.  Snapshots are numbered in the order the  *)
(* queries list them, delete_requested's in the order the database has.    *)
(***************************************************************************)
EXTENDS Integers, FiniteSets

CONSTANTS
    N,            \* snapshots
    Expired,      \* those whose delete_at is past
    Stuck,        \* those whose files cannot be removed
    Touched,      \* those users have copies of; others are sealed at first
    Batch,        \* batch_size
    MaxHooks,     \* hooks of one attempt
    MaxWrites,    \* timestamps after which runner and users write no new one
    MaxCrashes    \* deaths of the runner and of the deletion worker

Snaps == 1..N
ASSUME DeletionAssumption ==
    /\ N \in Nat \ {0} /\ Batch \in Nat \ {0}
    /\ Expired \subseteq Snaps /\ Stuck \subseteq Snaps /\ Touched \subseteq Snaps
    /\ MaxHooks \in Nat /\ MaxWrites \in Nat /\ MaxCrashes \in Nat

VARIABLES
    row,      \* row[s]: status and retry_at; "gone" when it is deleted
    files,    \* snapshots that have files
    writer,   \* snapshots a hook process writes files of
    worker,   \* the deletion worker is up
    pc,       \* pc[d]: where the runner, or the worker, is
    list,     \* list[d]: the snapshots it has listed and not done with
    cur,      \* cur[d]: the snapshot it is at
    lease,    \* the retry_at the runner has loaded or written
    hooks,    \* hooks its attempt has started
    copy,     \* the copy of a row a user holds
    late,     \* snapshots that were captured while a deletion was under way
    writes, crashes

disk == <<files, writer>>
run  == <<pc, list, cur, lease, hooks>>
vars == <<row, disk, worker, run, copy, late, writes, crashes>>

Deleters == {"runner", "worker"}
Open     == {"queued", "started", "paused"}
Status   == Open \cup {"sealed", "deleting", "gone"}
Stages   == {"idle", "sweep", "requested", "kill", "kill_sweep", "remove", "remove_sweep",
             "row", "row_sweep", "claim", "capture"}
NULL     == 0
MAX      == -1
NoCopy   == [snap |-> 0, status |-> "gone", retry |-> NULL]

IsDue(r) == r.status \in {"queued", "started"} /\ r.retry \notin {NULL, MAX}
Of(status) == {s \in Snaps : row[s].status = status}
Attempted == IF pc["runner"] = "capture" THEN {cur["runner"]} ELSE {}

(* Where the deleters are between their mark on a row and its end.         *)
Deleted == {cur[d] : d \in {e \in Deleters : pc[e] \notin {"idle", "sweep", "requested", "claim", "capture"}}}

(* The first Batch of a set, in the order of the query.                    *)
FirstOf(S) == {s \in S : Cardinality({t \in S : t < s}) < Batch}
MinOf(S) == CHOOSE s \in S : \A t \in S : s <= t

(* delete_expired takes the rows whose delete_at is past, whatever their   *)
(* status, and limits them before it picks those in the final status.      *)
Due == FirstOf({s \in Expired : row[s].status # "gone"})

-----------------------------------------------------------------------------
(* Captured snapshots, one to be captured, one that is paused; hooks of a  *)
(* runner that died may still write.                                       *)
Init ==
    /\ row \in [Snaps -> {[status |-> "sealed", retry |-> NULL], [status |-> "queued", retry |-> 1],
                          [status |-> "paused", retry |-> MAX]}]
    /\ \A s \in Snaps \ Touched : row[s].status = "sealed"
    /\ files = Snaps /\ writer \in SUBSET Of("queued")
    /\ worker \in BOOLEAN
    /\ pc = [d \in Deleters |-> "idle"]
    /\ list = [d \in Deleters |-> {}] /\ cur = [d \in Deleters |-> 1]
    /\ lease = NULL /\ hooks = 0 /\ copy = NoCopy /\ late = {}
    /\ writes = 1 /\ crashes = 0

Put(s, status, retry) == row' = [row EXCEPT ![s] = [status |-> status, retry |-> retry]]
Goto(d, stage) == pc' = [pc EXCEPT ![d] = stage]

(* Off to a stage in which d is at no snapshot, and the runner has no row. *)
Leave(d, stage) ==
    /\ Goto(d, stage)
    /\ cur' = [cur EXCEPT ![d] = 1]
    /\ IF d = "runner" THEN lease' = NULL /\ hooks' = 0 ELSE UNCHANGED <<lease, hooks>>
Stamp == writes + 1

(* A conditional write of a row, which counts if the row is there and has  *)
(* the retry_at its writer knows.                                          *)
Matches(s, known) == row[s].status # "gone" /\ row[s].retry = known

-----------------------------------------------------------------------------
(* delete_snapshots of the admin pages: an unconditional UPDATE.           *)
AskDelete(s) ==
    /\ row[s].status \notin {"deleting", "gone"}
    /\ Put(s, "deleting", MAX)
    /\ late' = late \cup ({s} \cap Attempted)
    /\ UNCHANGED <<disk, worker, run, copy, writes, crashes>>

(* A user's request loads a row, whatever its status, and writes it later. *)
LoadCopy(s) ==
    /\ s \in Touched /\ row[s].status # "gone"
    /\ copy' = [snap |-> s, status |-> row[s].status, retry |-> row[s].retry]
    /\ UNCHANGED <<row, disk, worker, run, late, writes, crashes>>

(* update_and_requeue, and schedule_plugin_run, which compares the status  *)
(* as well: a row at RETRY_AT_MAX is requeued like any other.              *)
Requeue ==
    /\ copy # NoCopy
    /\ \/ /\ Matches(copy.snap, copy.retry) /\ writes < MaxWrites
          /\ Put(copy.snap, "queued", Stamp) /\ writes' = Stamp
       \/ ~Matches(copy.snap, copy.retry) /\ UNCHANGED <<row, writes>>
    /\ copy' = NoCopy
    /\ UNCHANGED <<disk, worker, run, late, crashes>>

(* pause compares the status alone, and "deleting" is no final state: a    *)
(* crawl's pause, say, takes along what it has read of its snapshots.      *)
Pause ==
    /\ copy # NoCopy /\ copy.status \notin {"sealed", "paused"}
    /\ IF row[copy.snap].status = copy.status THEN Put(copy.snap, "paused", MAX) ELSE UNCHANGED row
    /\ copy' = NoCopy
    /\ UNCHANGED <<disk, worker, run, late, writes, crashes>>

(* resume: only a row that is still paused.                                *)
Resume ==
    /\ copy # NoCopy /\ copy.status = "paused"
    /\ \/ /\ row[copy.snap].status = "paused" /\ writes < MaxWrites
          /\ Put(copy.snap, "queued", Stamp) /\ writes' = Stamp
       \/ row[copy.snap].status # "paused" /\ UNCHANGED <<row, writes>>
    /\ copy' = NoCopy
    /\ UNCHANGED <<disk, worker, run, late, crashes>>

-----------------------------------------------------------------------------
(* delete_expired limits the rows that are due, then picks the sealed.     *)
Sweep ==
    /\ pc["runner"] = "idle"
    /\ Due \cap Of("sealed") # {}
    /\ list' = [list EXCEPT !["runner"] = Due \cap Of("sealed")]
    /\ Goto("runner", "sweep")
    /\ UNCHANGED <<row, disk, worker, cur, lease, hooks, copy, late, writes, crashes>>

(* delete_requested, by the worker or, while there is none, by the runner. *)
Requested(d) ==
    /\ pc[d] = "idle" /\ (d = "worker") = worker
    /\ Of("deleting") # {}
    /\ list' = [list EXCEPT ![d] = FirstOf(Of("deleting"))]
    /\ Goto(d, "requested")
    /\ UNCHANGED <<row, disk, worker, cur, lease, hooks, copy, late, writes, crashes>>

(* Faulty: a sweep marks the row only once its files are gone.             *)
MarkRequested(d) ==
    /\ pc[d] \in {"sweep", "requested"}
    /\ \/ list[d] = {} /\ Goto(d, "idle") /\ UNCHANGED cur
       \/ /\ list[d] # {}
          /\ cur' = [cur EXCEPT ![d] = MinOf(list[d])]
          /\ Goto(d, IF pc[d] = "sweep" THEN "kill_sweep" ELSE "kill")
    /\ UNCHANGED <<row, list, late, disk, worker, lease, hooks, copy, writes, crashes>>

(* The loops over the list; a sweep marks the row itself, delete() marks   *)
(* it again.                                                               *)
Mark(d) ==
    /\ pc[d] \in {"sweep", "requested"}
    /\ \/ list[d] = {} /\ Goto(d, "idle") /\ UNCHANGED <<row, list, cur, late>>
       \/ /\ list[d] # {}
          /\ cur' = [cur EXCEPT ![d] = MinOf(list[d])]
          /\ LET s == MinOf(list[d]) IN
               /\ IF row[s].status = "gone" THEN UNCHANGED row ELSE Put(s, "deleting", MAX)
               /\ late' = late \cup ({s} \cap Attempted)
          /\ Goto(d, IF pc[d] = "sweep" THEN "kill_sweep" ELSE "kill")
          /\ UNCHANGED list
    /\ UNCHANGED <<disk, worker, lease, hooks, copy, writes, crashes>>

(* Faulty: nobody is told to stop writing.                                 *)
KillNobody(d) ==
    /\ pc[d] \in {"kill", "kill_sweep"}
    /\ Goto(d, IF pc[d] = "kill" THEN "remove" ELSE "remove_sweep")
    /\ UNCHANGED <<row, disk, worker, list, cur, lease, hooks, copy, late, writes, crashes>>

(* kill_tree of the running processes of the snapshot's results.           *)
Kill(d) ==
    /\ pc[d] \in {"kill", "kill_sweep"}
    /\ writer' = writer \ {cur[d]}
    /\ Goto(d, IF pc[d] = "kill" THEN "remove" ELSE "remove_sweep")
    /\ UNCHANGED <<row, files, worker, list, cur, lease, hooks, copy, late, writes, crashes>>

(* Faulty: the loop ends at the first snapshot it cannot delete.           *)
RemoveOrStop(d) ==
    /\ pc[d] \in {"remove", "remove_sweep"}
    /\ \/ cur[d] \in Stuck /\ Goto(d, "idle") /\ list' = [list EXCEPT ![d] = {}] /\ UNCHANGED files
       \/ /\ cur[d] \notin Stuck
          /\ files' = files \ {cur[d]}
          /\ Goto(d, IF pc[d] = "remove" THEN "row" ELSE "row_sweep") /\ UNCHANGED list
    /\ UNCHANGED <<row, writer, worker, cur, lease, hooks, copy, late, writes, crashes>>

(* delete_output_paths.  A path that stays is an OSError, and so may be    *)
(* one that another deleter removes at the same time.  delete_requested    *)
(* goes on with the next, the sweep ends with its runner.                  *)
Remove(d) ==
    /\ pc[d] \in {"remove", "remove_sweep"}
    /\ LET contended == \E e \in Deleters \ {d} : cur[e] = cur[d] /\ pc[e] \notin {"idle", "capture"} IN
       \/ /\ cur[d] \in Stuck \/ contended
          /\ list' = [list EXCEPT ![d] = IF pc[d] = "remove" THEN @ \ {cur[d]} ELSE {}]
          /\ Leave(d, IF pc[d] = "remove" THEN "requested" ELSE "idle")
          /\ UNCHANGED files
       \/ /\ cur[d] \notin Stuck
          /\ files' = files \ {cur[d]}
          /\ Goto(d, IF pc[d] = "remove" THEN "row" ELSE "row_sweep")
          /\ UNCHANGED <<list, cur, lease, hooks>>
    /\ UNCHANGED <<row, writer, worker, copy, late, writes, crashes>>

(* super().delete(): the row goes, with all that hangs on it.              *)
DeleteRow(d) ==
    /\ pc[d] \in {"row", "row_sweep"}
    /\ Put(cur[d], "gone", NULL)
    /\ list' = [list EXCEPT ![d] = @ \ {cur[d]}]
    /\ Leave(d, IF pc[d] = "row" THEN "requested" ELSE "sweep")
    /\ UNCHANGED <<disk, worker, copy, late, writes, crashes>>

-----------------------------------------------------------------------------
(* The runner picks a due snapshot whose last hooks have ended.            *)
Pick(s) ==
    /\ pc["runner"] = "idle" /\ IsDue(row[s]) /\ s \notin writer /\ writes < MaxWrites
    /\ cur' = [cur EXCEPT !["runner"] = s] /\ lease' = row[s].retry
    /\ Goto("runner", "claim")
    /\ UNCHANGED <<row, disk, worker, list, hooks, copy, late, writes, crashes>>

(* Faulty: claims the row whatever has become of it.                       *)
ClaimAnyway ==
    /\ pc["runner"] = "claim" /\ row[cur["runner"]].status # "gone"
    /\ Put(cur["runner"], "started", Stamp) /\ writes' = Stamp /\ lease' = Stamp
    /\ Goto("runner", "capture")
    /\ UNCHANGED <<disk, worker, list, cur, hooks, copy, late, crashes>>

(* claim_processing_lock and start_processing.                             *)
Claim ==
    /\ pc["runner"] = "claim"
    /\ \/ /\ Matches(cur["runner"], lease)
          /\ Put(cur["runner"], "started", Stamp)
          /\ writes' = Stamp /\ lease' = Stamp /\ Goto("runner", "capture")
          /\ late' = late \cup ({cur["runner"]} \cap Deleted)
          /\ UNCHANGED <<cur, hooks>>
       \/ /\ ~Matches(cur["runner"], lease)
          /\ Leave("runner", "idle") /\ UNCHANGED <<row, late, writes>>
    /\ UNCHANGED <<disk, worker, list, copy, crashes>>

(* The attempt's hooks, one after the other, whatever the row says.        *)
HookStarts ==
    /\ pc["runner"] = "capture" /\ cur["runner"] \notin writer /\ hooks < MaxHooks
    /\ hooks' = hooks + 1
    /\ writer' = writer \cup {cur["runner"]}
    /\ UNCHANGED <<row, files, worker, pc, list, cur, lease, copy, late, writes, crashes>>

HookWrites(s) ==
    /\ s \in writer \ files
    /\ files' = files \cup {s}
    /\ UNCHANGED <<row, writer, worker, run, copy, late, writes, crashes>>

HookEnds(s) ==
    /\ s \in writer
    /\ writer' = writer \ {s}
    /\ UNCHANGED <<row, files, worker, run, copy, late, writes, crashes>>

(* The attempt completes, or has lost its lease: the row is sealed only if *)
(* it is as the attempt left it.                                           *)
Finish ==
    /\ pc["runner"] = "capture" /\ cur["runner"] \notin writer
    /\ IF Matches(cur["runner"], lease) THEN Put(cur["runner"], "sealed", NULL) ELSE UNCHANGED row
    /\ Leave("runner", "idle")
    /\ UNCHANGED <<disk, worker, list, copy, late, writes, crashes>>

(* A process dies and is started again; hooks outlive the runner.          *)
Crash(d) ==
    /\ pc[d] # "idle" /\ crashes < MaxCrashes
    /\ crashes' = crashes + 1
    /\ Leave(d, "idle") /\ list' = [list EXCEPT ![d] = {}]
    /\ UNCHANGED <<row, disk, worker, copy, late, writes>>

Runner  == Sweep \/ Claim \/ Finish \/ \E s \in Snaps : Pick(s)
Delete(d) == Requested(d) \/ Mark(d) \/ Kill(d) \/ Remove(d) \/ DeleteRow(d)

Next ==
    \/ Runner \/ HookStarts \/ Requeue \/ Pause \/ Resume
    \/ \E d \in Deleters : Delete(d) \/ Crash(d)
    \/ \E s \in Snaps : AskDelete(s) \/ LoadCopy(s) \/ HookWrites(s) \/ HookEnds(s)

(* The sweep has its turn every minute, whatever the runner captures.      *)
Fairness ==
    /\ WF_vars(Runner) /\ SF_vars(Sweep) /\ \A s \in Snaps : WF_vars(HookEnds(s))
    /\ \A d \in Deleters : WF_vars(Mark(d) \/ Kill(d) \/ Remove(d) \/ DeleteRow(d)) /\ SF_vars(Requested(d))
Spec == Init /\ [][Next]_vars /\ Fairness

-----------------------------------------------------------------------------
(* The types of the variables.  *)
TypeOK ==
    /\ row \in [Snaps -> [status : Status, retry : Nat \cup {MAX}]]
    /\ files \subseteq Snaps /\ writer \subseteq Snaps /\ late \subseteq Snaps
    /\ worker \in BOOLEAN /\ lease \in Nat /\ hooks \in 0..MaxHooks
    /\ pc \in [Deleters -> Stages]
    /\ list \in [Deleters -> SUBSET Snaps] /\ cur \in [Deleters -> Snaps]
    /\ copy \in [snap : 0..N, status : Status, retry : Nat \cup {MAX}]
    /\ writes \in Nat /\ crashes \in Nat

(* "Keep the rows until the deletion worker removes and verifies their     *)
(* files": where no capture was under way during the deletion, no file is  *)
(* left without its row, whatever the hooks of a dead runner write.        *)
GoneClean == \A s \in Snaps \ late : row[s].status = "gone" => s \notin files

(* What is to be deleted stays to be deleted: no scheduler, no completion  *)
(* and no copy of a row that ran takes it back.  Only a user can who has   *)
(* read the row when it was itself waiting at RETRY_AT_MAX, paused or to   *)
(* be deleted; and what is gone stays gone.                                *)
DeletionStands ==
    [][\A s \in Snaps :
         /\ row[s].status = "gone" => row'[s].status = "gone"
         /\ row[s].status = "deleting" /\ row'[s].status \notin {"deleting", "gone"}
              => copy.snap = s /\ copy.status \in {"paused", "deleting"} /\ copy' = NoCopy]_vars

(* What a reader of the admin page expects; the code does not have it.     *)
NeverTakenBack ==
    [][\A s \in Snaps : row[s].status \in {"deleting", "gone"} => row'[s].status \in {"deleting", "gone"}]_vars

(* A requested deletion is carried out or taken back, wherever a deleter   *)
(* dies, and also when the files of other snapshots cannot be removed,     *)
(* while these are fewer than a batch.                                     *)
RequestsEnd == \A s \in Snaps \ Stuck : row[s].status = "deleting" ~> row[s].status # "deleting"

(* A captured snapshot among the first batch of those whose time has come  *)
(* goes, or is captured again, whatever is the matter with the others of   *)
(* that batch.                                                             *)
RetentionEnds ==
    \A s \in Snaps \ Stuck : (s \in Due /\ row[s].status = "sealed") ~> row[s].status # "sealed"

(* It is not so of every snapshot whose time has come.                     *)
AllExpiredGo ==
    \A s \in Snaps \ Stuck : (s \in Expired /\ row[s].status = "sealed") ~> row[s].status # "sealed"
=============================================================================
