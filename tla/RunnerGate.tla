------------------------------ MODULE RunnerGate ------------------------------
(***************************************************************************)
(* The election of the one runner of a machine and data directory:         *)
(* enter_single_runner_gate in core/takeover_util.py over the Process rows *)
(* of machine/models.py, as run_runner and run_snapshot_worker use it.     *)
(*                                                                         *)
(* Rows are written by plain saves, so one action is one row write or one  *)
(* scan of the rows.  A row is judged by looking at the operating system:  *)
(* it is alive if its pid belongs to a process of the same start time.     *)
(* Pids are used again, by runners and by strangers; processes die without *)
(* a word; a container is replaced and with it the space of pids.          *)
(*                                                                         *)
(* Runners are numbered in the order their processes start.  The server    *)
(* whose daemons stand by is older than all of them.                       *)
(***************************************************************************)
EXTENDS Integers, FiniteSets

CONSTANTS
    N,            \* runner processes that are started
    Daemons,      \* those supervisord starts for the server
    Pids,         \* process ids of one namespace
    Nobody,       \* owner of a free pid
    Stranger,     \* a process that is no runner
    MaxCrashes,   \* runners that die by themselves
    MaxRestarts,  \* containers replaced
    AgesAt        \* stages a runner may stay in for more than PID_REUSE_WINDOW

Runners == 1..N

ASSUME NAssumption    == N \in Nat /\ Daemons \subseteq Runners
ASSUME PidAssumption  == Pids \subseteq Nat \ {0} /\ Nobody \notin Runners \cup {Stranger} /\ Stranger \notin Runners
ASSUME GateBounds     == MaxCrashes \in Nat /\ MaxRestarts \in Nat

VARIABLES
    pc,       \* pc[r]: where r is
    row,      \* row[r]: its Process row
    pid,      \* pid[r]: the pid it got, 0 before it starts
    owner,    \* owner[i]: the process that has pid i
    seen,     \* seen[r][v]: v's row as r's last scan found it, if v was alive
    termed,   \* runners that got a SIGTERM
    old,      \* runners started longer ago than PID_REUSE_WINDOW
    ns,       \* the pid namespace, a new one with every container
    crashes,  \* runners that died by themselves so far
    worked,   \* history: runners that have been let in
    strayed   \* history: runners whose victim's pid has been given to another
              \* process since kill_tree looked whose it was

vars == <<pc, row, pid, owner, seen, termed, old, ns, crashes, worked, strayed>>
history == <<worked, strayed>>

-----------------------------------------------------------------------------
Stages == {"unborn", "born", "standby", "enter", "cleanup", "list", "remark",
           "cleanup2", "list2", "decide", "kill", "signal", "wait", "bury",
           "promote", "working", "leave", "ended", "crashed", "killed"}
Gone   == {"ended", "crashed", "killed"}
InGate == {"enter", "cleanup", "list", "remark", "cleanup2", "list2",
           "decide", "kill", "signal", "wait", "bury", "promote"}

NoRow == [status |-> "none", role |-> "", ns |-> 0]
Rows  == [status : {"none", "running", "exited"},
          role : {"", "runner_waiting", "worker_runner"}, ns : Nat]

MinOf(S) == CHOOSE x \in S : \A y \in S : x <= y
MaxOf(S) == CHOOSE x \in S : \A y \in S : y <= x

Running(r) == row[r].status = "running"
SharesNamespace(r) == row[r].ns = ns

(* Faulty: believes the pid, whoever has it now.                           *)
IsRunningByPid(r) == SharesNamespace(r) /\ owner[pid[r]] # Nobody

(* Process.proc and is_running: the pid exists and its process started     *)
(* when the row says.                                                      *)
IsRunning(r) == SharesNamespace(r) /\ owner[pid[r]] = r

Exited(S) == [r \in Runners |-> IF r \in S THEN [row[r] EXCEPT !.status = "exited"] ELSE row[r]]

At(r, stage) == pc[r] = stage
Goto(r, stage) == pc' = [pc EXCEPT ![r] = stage]

(* Faulty: worker_type gets the process type.                              *)
MarkType(r, role) == row' = [row EXCEPT ![r] = [status |-> "running", role |-> "orchestrator", ns |-> ns]]

(* Process.mark_running: status and role, whatever they were.              *)
Mark(r, role) == row' = [row EXCEPT ![r] = [status |-> "running", role |-> role, ns |-> ns]]

Unseen == [v \in Runners |-> NoRow]

(* The process is gone from the system, and what it knew; its row stays.   *)
Vanish(r, stage) ==
    /\ Goto(r, stage)
    /\ owner' = [owner EXCEPT ![pid[r]] = Nobody]
    /\ seen' = [seen EXCEPT ![r] = Unseen]
    /\ termed' = termed \ {r}
    /\ strayed' = strayed \ {r}
    /\ UNCHANGED <<pid, old, ns, worked>>

-----------------------------------------------------------------------------
Init ==
    /\ pc = [r \in Runners |-> "unborn"]
    /\ row = [r \in Runners |-> NoRow]
    /\ pid = [r \in Runners |-> 0]
    /\ owner = [i \in Pids |-> Nobody]
    /\ seen = [r \in Runners |-> Unseen]
    /\ termed = {} /\ old = {} /\ ns = 1 /\ crashes = 0
    /\ worked = {} /\ strayed = {}

Used == {pid[r] : r \in Runners}

(* Pids no runner has had are all alike, and one of them stands for all.   *)
FreePid(i) ==
    /\ owner[i] = Nobody
    /\ i \in Used \/ \A j \in Pids \ Used : i <= j

(* The runners that r found alive in its scan, itself included.            *)
Live(r) == {v \in Runners : seen[r][v].status = "running"}

(* Whom r is stopping: the oldest that is left.                            *)
Victim(r) == MinOf(Live(r) \ {r})

(* Those that know a process by the pid i, and will signal whoever has it. *)
AimAt(i) == {r \in Runners : pc[r] \in {"signal", "wait"} /\ pid[Victim(r)] = i}

Start(r) ==
    /\ At(r, "unborn") /\ \A q \in 1..(r - 1) : ~At(q, "unborn")
    /\ \E i \in Pids :
         /\ FreePid(i)
         /\ pid' = [pid EXCEPT ![r] = i]
         /\ owner' = [owner EXCEPT ![i] = r]
         /\ strayed' = strayed \cup AimAt(i)
    /\ Goto(r, "born")
    /\ UNCHANGED <<row, seen, termed, old, ns, crashes, worked>>

(* Process.current: a row of its own, before the gate is reached.          *)
CreateRow(r) ==
    /\ At(r, "born")
    /\ Mark(r, "")
    /\ Goto(r, IF r \in Daemons THEN "standby" ELSE "enter")
    /\ UNCHANGED <<pid, owner, seen, termed, old, ns, crashes, history>>

(* foreground_runner_owner: the runs started by hand, newest first; dead   *)
(* ones are marked on the way to the first that lives.  Rows of an earlier *)
(* container are older than the server, which is then the owner itself.    *)
Foreground == {r \in Runners \ Daemons : Running(r) /\ SharesNamespace(r)}
LiveForeground == {r \in Foreground : IsRunning(r)}

(* standby_until_foreground_runner_needed                                  *)
StandBy(d) ==
    /\ At(d, "standby")
    /\ LET dead == {r \in Foreground \ LiveForeground : \A s \in LiveForeground : s < r} IN
         /\ row' = Exited(dead)
         /\ IF LiveForeground = {} THEN Goto(d, "enter") ELSE dead # {} /\ UNCHANGED pc
    /\ UNCHANGED <<pid, owner, seen, termed, old, ns, crashes, history>>

(* The gate opens with mark_running(runner_waiting); a runner that does    *)
(* not find itself in its own scan says so once more and scans again.      *)
Enter(r) ==
    /\ At(r, "enter") \/ At(r, "remark")
    /\ Mark(r, "runner_waiting")
    /\ Goto(r, IF At(r, "enter") THEN "cleanup" ELSE "cleanup2")
    /\ UNCHANGED <<pid, owner, seen, termed, old, ns, crashes, history>>

(* Process.cleanup_stale_running: the dead, and the very old.              *)
Stale == {r \in Runners : Running(r) /\ (r \in old \/ (SharesNamespace(r) /\ ~IsRunning(r)))}

Cleanup(r) ==
    /\ At(r, "cleanup") \/ At(r, "cleanup2")
    /\ row' = Exited(Stale)
    /\ Goto(r, IF At(r, "cleanup") THEN "list" ELSE "list2")
    /\ UNCHANGED <<pid, owner, seen, termed, old, ns, crashes, history>>

(* recover_orchestrator_state, at the start of work and when idle.         *)
Recover(r) ==
    /\ At(r, "working") /\ Stale # {}
    /\ row' = Exited(Stale)
    /\ UNCHANGED <<pc, pid, owner, seen, termed, old, ns, crashes, history>>

(* What a scan finds: the rows of those that are running and alive.        *)
Scan == [v \in Runners |-> IF Running(v) /\ IsRunning(v) THEN row[v] ELSE NoRow]

(* Faulty: leaves the rows of an earlier container alone.                  *)
ListKeepsForeign(r) ==
    /\ At(r, "list") \/ At(r, "list2")
    /\ seen' = [seen EXCEPT ![r] = Scan]
    /\ Goto(r, IF Scan[r] # NoRow \/ At(r, "list2") THEN "decide" ELSE "remark")
    /\ UNCHANGED <<row, pid, owner, termed, old, ns, crashes, history>>

(* live_runner_processes after its cleanup: who is alive, and the rows of  *)
(* an earlier container are retired.                                       *)
List(r) ==
    /\ At(r, "list") \/ At(r, "list2")
    /\ seen' = [seen EXCEPT ![r] = Scan]
    /\ Goto(r, IF Scan[r] # NoRow \/ At(r, "list2") THEN "decide" ELSE "remark")
    /\ row' = Exited({v \in Runners : Running(v) /\ ~SharesNamespace(v)})
    /\ UNCHANGED <<pid, owner, termed, old, ns, crashes, history>>

(* Faulty: the oldest goes on.                                             *)
DecideOldest(r) ==
    /\ At(r, "decide") /\ Live(r) # {}
    /\ Goto(r, CASE MinOf(Live(r)) # r -> "leave"
                 [] Live(r) = {r}      -> "promote"
                 [] OTHER              -> "kill")
    /\ UNCHANGED <<row, pid, owner, seen, termed, old, ns, crashes, history>>

(* The newest goes on, the others give way.  max() of no runners raises.   *)
Decide(r) ==
    /\ At(r, "decide")
    /\ \/ Live(r) = {} /\ crashes' = crashes /\ Vanish(r, "crashed")
       \/ /\ Live(r) # {}
          /\ Goto(r, CASE MaxOf(Live(r)) # r -> "leave"
                       [] Live(r) = {r}      -> "promote"
                       [] OTHER              -> "kill")
          /\ seen' = [seen EXCEPT ![r] = IF pc'[r] = "kill" THEN @ ELSE Unseen]
          /\ UNCHANGED <<pid, owner, termed, old, ns, crashes, history>>
    /\ UNCHANGED row

(* kill_tree of the next older runner.  It looks once whose the pid is;    *)
(* from then on it knows the process by its bare pid.                      *)
KillLook(r) ==
    /\ At(r, "kill")
    /\ Goto(r, IF IsRunning(Victim(r)) THEN "signal" ELSE "bury")
    /\ UNCHANGED <<row, pid, owner, seen, termed, old, ns, crashes, history>>

(* Faulty: the row is written before the process is gone.                  *)
KillTermMarks(r) ==
    /\ At(r, "signal") /\ owner[pid[Victim(r)]] = Victim(r)
    /\ termed' = termed \cup {Victim(r)}
    /\ row' = Exited({Victim(r)})
    /\ Goto(r, "wait")
    /\ UNCHANGED <<pid, owner, seen, old, ns, crashes, history>>

(* SIGTERM.  proc.children raises if it sees that the process is gone.     *)
KillTerm(r) ==
    /\ At(r, "signal")
    /\ LET i == pid[Victim(r)] IN
       \/ /\ owner[i] # Victim(r)
          /\ Goto(r, "bury")
          /\ UNCHANGED <<owner, termed>>
       \/ /\ termed' = termed \cup (Runners \cap {owner[i]})
          /\ owner' = [owner EXCEPT ![i] = IF @ = Stranger THEN Nobody ELSE @]
          /\ Goto(r, "wait")
    /\ UNCHANGED <<row, pid, seen, old, ns, crashes, history>>

(* Faulty: SIGTERM is thought to be enough.                                *)
KillPollsOnce(r) ==
    /\ At(r, "wait")
    /\ Goto(r, "bury")
    /\ UNCHANGED <<row, pid, owner, seen, termed, old, ns, crashes, history>>

(* Within graceful_timeout nobody has the pid any more.                    *)
KillPoll(r) ==
    /\ At(r, "wait") /\ owner[pid[Victim(r)]] = Nobody
    /\ Goto(r, "bury")
    /\ UNCHANGED <<row, pid, owner, seen, termed, old, ns, crashes, history>>

(* SIGKILL after graceful_timeout, for whoever has the pid then.           *)
KillHard(r) ==
    /\ At(r, "wait")
    /\ LET q == owner[pid[Victim(r)]] IN
         /\ q # Nobody
         /\ pc' = [p \in Runners |-> CASE p = r -> "bury" [] p = q -> "killed" [] OTHER -> pc[p]]
         /\ owner' = [owner EXCEPT ![pid[Victim(r)]] = Nobody]
         /\ seen' = [p \in Runners |-> IF p = q THEN Unseen ELSE seen[p]]
         /\ termed' = termed \ {q}
         /\ strayed' = strayed \ {q}
    /\ UNCHANGED <<row, pid, old, ns, crashes, worked>>

(* The save at the end of kill_tree writes the whole row as it was scanned.*)
Bury(r) ==
    /\ At(r, "bury")
    /\ row' = [row EXCEPT ![Victim(r)] = [seen[r][Victim(r)] EXCEPT !.status = "exited"]]
    /\ seen' = [seen EXCEPT ![r][Victim(r)] = NoRow]
    /\ Goto(r, IF Live(r) \ {r, Victim(r)} = {} THEN "cleanup" ELSE "kill")
    /\ strayed' = strayed \ {r}
    /\ UNCHANGED <<pid, owner, termed, old, ns, crashes, worked>>

(* mark_running(worker_runner) under the constraint                        *)
(* single_active_runner_per_data_dir; IntegrityError scans again.          *)
Promote(r) ==
    /\ At(r, "promote")
    /\ LET taken == \E v \in Runners \ {r} : Running(v) /\ row[v].role = "worker_runner" IN
       \/ taken /\ Goto(r, "cleanup") /\ UNCHANGED <<row, worked>>
       \/ ~taken /\ Goto(r, "working") /\ Mark(r, "worker_runner") /\ worked' = worked \cup {r}
    /\ UNCHANGED <<pid, owner, seen, termed, old, ns, crashes, strayed>>

-----------------------------------------------------------------------------
(* The runner has nothing left to do, or heeds a signal.                   *)
Finish(r) ==
    /\ At(r, "working")
    /\ Goto(r, "leave")
    /\ UNCHANGED <<row, pid, owner, seen, termed, old, ns, crashes, history>>

(* mark_exited in run_runner and run_snapshot_worker, and the exit.        *)
Leave(r) ==
    /\ At(r, "leave")
    /\ row' = Exited({r})
    /\ Vanish(r, "ended")
    /\ UNCHANGED crashes

TermDies(r) ==
    /\ r \in termed
    /\ Vanish(r, "killed")
    /\ UNCHANGED <<row, crashes>>

Crash(r) ==
    /\ pc[r] \notin Gone \cup {"unborn"} /\ crashes < MaxCrashes
    /\ crashes' = crashes + 1
    /\ Vanish(r, "crashed")
    /\ UNCHANGED row

(* Another program gets a pid; it is there to stay.                        *)
StrangerComes(i) ==
    /\ FreePid(i) /\ i \in Used /\ \A j \in Pids : owner[j] # Stranger
    /\ owner' = [owner EXCEPT ![i] = Stranger]
    /\ strayed' = strayed \cup AimAt(i)
    /\ UNCHANGED <<pc, row, pid, seen, termed, old, ns, crashes, worked>>

(* The container is replaced: nothing of it runs any more.                 *)
Restart ==
    /\ ns <= MaxRestarts
    /\ ns' = ns + 1
    /\ pc' = [r \in Runners |-> IF pc[r] \in Gone \cup {"unborn"} THEN pc[r] ELSE "crashed"]
    /\ owner' = [i \in Pids |-> Nobody]
    /\ seen' = [r \in Runners |-> Unseen]
    /\ termed' = {} /\ strayed' = {}
    /\ UNCHANGED <<row, pid, old, crashes, worked>>

(* PID_REUSE_WINDOW has passed since r started, and since all before it.   *)
Age(r) ==
    /\ pc[r] \in AgesAt /\ r \notin old
    /\ \A q \in 1..(r - 1) : q \in old \/ pc[q] \in Gone \cup AgesAt
    /\ old' = old \cup 1..r
    /\ UNCHANGED <<pc, row, pid, owner, seen, termed, ns, crashes, history>>

Gate(r) ==
    \/ CreateRow(r) \/ StandBy(r) \/ Enter(r) \/ Cleanup(r) \/ List(r) \/ Decide(r)
    \/ KillLook(r) \/ KillTerm(r) \/ KillPoll(r) \/ KillHard(r) \/ Bury(r) \/ Promote(r) \/ Leave(r)

Next ==
    \/ \E r \in Runners : \/ Start(r) \/ Gate(r) \/ Recover(r) \/ Finish(r)
                          \/ TermDies(r) \/ Crash(r) \/ Age(r)
    \/ \E i \in Pids : StrangerComes(i)
    \/ Restart

Fairness == \A r \in Runners : WF_vars(Gate(r))
Spec == Init /\ [][Next]_vars /\ Fairness

-----------------------------------------------------------------------------
TypeOK ==
    /\ pc \in [Runners -> Stages]
    /\ row \in [Runners -> Rows]
    /\ pid \in [Runners -> Pids \cup {0}]
    /\ owner \in [Pids -> Runners \cup {Nobody, Stranger}]
    /\ seen \in [Runners -> [Runners -> Rows]]
    /\ termed \subseteq Runners /\ old \subseteq Runners
    /\ worked \subseteq Runners /\ strayed \subseteq Runners
    /\ ns \in Nat /\ crashes \in Nat

Working == {r \in Runners : pc[r] = "working"}

(* "runner work never overlaps on one machine"                             *)
(* (enter_single_runner_gate): whoever starts, dies or is stopped in       *)
(* between, two runners never work at once.                                *)
OneRunnerWorks == Cardinality(Working) <= 1

(* A runner at work is on record as the active runner for as long as it    *)
(* works, so that whoever starts next finds it: no other process's cleanup *)
(* or kill_tree takes its row away.                                        *)
WorkerOnRecord == \A r \in Working : Running(r) /\ row[r].role = "worker_runner"

TurnOf(r) ==
    CASE pc[r] = "unborn"                -> "absent"
      [] pc[r] = "working"               -> "working"
      [] pc[r] \in {"leave", "ended"}    -> "done"
      [] pc[r] \in {"crashed", "killed"} -> "dead"
      [] OTHER                           -> "waiting"

Turn == INSTANCE RunnerTurns WITH turn <- [r \in Runners |-> TurnOf(r)]

(* The gate as turns: runners work one at a time and once at most, each    *)
(* begins when nobody works, never in the step that ends another's work,   *)
(* and only a runner that a newer one has come after gives way.            *)
TakesTurns == Turn!TurnsSpec

(* The process with the pid i gets a SIGTERM or a SIGKILL.                 *)
Signalled(i) ==
    \/ owner[i] = Stranger /\ owner'[i] # Stranger /\ ns' = ns
    \/ \E q \in Runners \ termed : owner[i] = q /\ (q \in termed' \/ pc'[q] = "killed")

(* A process is signalled only by a newer runner that stops it, for being  *)
(* an older one it has found alive; or for a pid that it was given after   *)
(* kill_tree had looked whose it was.  However long ago the rows were      *)
(* scanned, a process that had the pid at that look and is not the runner  *)
(* of the row is left alone.                                               *)
SparesStrangers ==
    [][\A i \in Pids : Signalled(i) =>
         \E r \in AimAt(i) : (owner[i] = Victim(r) /\ Victim(r) < r) \/ r \in strayed]_vars

(* False of the code: the look does not protect who gets the pid later.    *)
SparesWhoComesLater ==
    [][\A i \in Pids : Signalled(i) => \E r \in AimAt(i) : owner[i] = Victim(r)]_vars

(* A runner that asks for the gate leads to a runner at work, itself or    *)
(* another, unless it or one that started after it dies on the way, has    *)
(* had its turn, or is hit by a signal meant for the process that had its  *)
(* pid before: nobody gives way to a process that is gone, waits for one   *)
(* that waits for it, or is kept out by the row of a runner that died.     *)
Elects ==
    \A r \in Runners :
      (pc[r] \in InGate \cup {"standby"})
        ~> \/ Working # {}
           \/ \E s \in r..N :
                \/ pc[s] = "crashed" \/ s \in worked
                \/ pc[s] = "killed" /\ \A t \in (s + 1)..N : At(t, "unborn")
=============================================================================
