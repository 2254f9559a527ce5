---------------------------- MODULE CrawlSchedules ----------------------------
(***************************************************************************)
(* A CrawlSchedule (crawls/models.py) and the crawls it makes: the daemon  *)
(* loop of run_pending_crawls (services/runner.py) sweeps what retention   *)
(* has condemned, enqueues a crawl when the schedule is due, and captures  *)
(* crawls; users create, disable, run and save schedules meanwhile.        *)
(*                                                                         *)
(* A schedule keeps no date of its own: when it last ran is read off the   *)
(* youngest of its crawls that still has a row.  Its template is one of    *)
(* them, and takes the schedule along when it is deleted (CASCADE).  Time  *)
(* is counted in ticks; the cron expression fires every Period ticks.      *)
(***************************************************************************)
EXTENDS Integers, FiniteSets

CONSTANTS
    Period,        \* ticks from one time the expression names to the next
    TemplateKeeps, \* DELETE_AFTER of the template in ticks, 0 for none
    RunsKeep,      \* DELETE_AFTER of the crawls it makes
    MaxNow,        \* ticks that pass
    MaxRuns,       \* runs users ask for
    MaxCrashes     \* deaths of the daemon

ASSUME ScheduleAssumption ==
    /\ Period \in Nat \ {0} /\ TemplateKeeps \in Nat /\ RunsKeep \in Nat
    /\ MaxNow \in Nat /\ MaxRuns \in Nat /\ MaxCrashes \in Nat

VARIABLES
    now,
    kind,      \* SCHEDULE_KIND: "crawl", or "update" for maintenance
    crawls,    \* rows of the schedule's crawls, the template among them
    schedule,  \* "none", "enabled", "disabled", or "gone" with its template
    modified,  \* its modified_at
    ran,       \* the date of its last dispatch, whatever the rows say
    pc, at,    \* where the daemon is, and the now of its pass
    listed,    \* the crawls its sweep has listed
    asked, crashes

vars == <<now, kind, crawls, schedule, modified, ran, pc, at, listed, asked, crashes>>

Keeps(template) == IF template THEN TemplateKeeps ELSE RunsKeep
Crawl == [born : 0..MaxNow, template : BOOLEAN, status : {"queued", "sealed"}]

Expired(c) == Keeps(c.template) # 0 /\ c.born + Keeps(c.template) <= now
Born == {c.born : c \in crawls}

(* Faulty: only the template tells when it last ran.                       *)
LastRunOfTemplate ==
    IF kind = "update" THEN modified ELSE CHOOSE t \in {c.born : c \in {d \in crawls : d.template}} : TRUE

(* last_run_at                                                             *)
LastRun == IF kind = "update" THEN modified ELSE CHOOSE t \in Born : \A u \in Born : u <= t

(* next_run_for_schedule: the first time named after t.                    *)
NextRun(t) == (t \div Period + 1) * Period

-----------------------------------------------------------------------------
Init ==
    /\ now = 0 /\ kind = "crawl" /\ crawls = {} /\ schedule = "none" /\ modified = 0 /\ ran = 0
    /\ pc = "sweep" /\ at = 0 /\ listed = {} /\ asked = 0 /\ crashes = 0

Tick ==
    /\ now < MaxNow
    /\ now' = now + 1
    /\ UNCHANGED <<kind, crawls, schedule, modified, ran, pc, at, listed, asked, crashes>>

(* archivebox schedule makes a sealed template; the add page makes the     *)
(* crawl it adds the template.                                             *)
Create ==
    /\ schedule = "none"
    /\ \E status \in {"sealed", "queued"} : crawls' = {[born |-> now, template |-> TRUE, status |-> status]}
    /\ kind' \in {"crawl", "update"}
    /\ schedule' = "enabled" /\ modified' = now /\ ran' = now
    /\ UNCHANGED <<now, pc, at, listed, asked, crashes>>

(* archivebox schedule --clear is an UPDATE.  The admin page saves, which  *)
(* dates the schedule, and so puts maintenance off.                        *)
Switch ==
    /\ asked < MaxRuns /\ asked' = asked + 1
    /\ \/ schedule = "enabled" /\ schedule' = "disabled" /\ UNCHANGED <<modified, ran>>
       \/ /\ schedule \in {"enabled", "disabled"} /\ schedule' \in {"enabled", "disabled"}
          /\ modified' = now
          /\ ran' = IF kind = "update" THEN now ELSE ran
    /\ UNCHANGED <<now, kind, crawls, pc, at, listed, crashes>>

(* dispatch: a queued crawl, or maintenance and then a note of the date.   *)
Dispatched(when) ==
    /\ IF kind = "crawl"
       THEN crawls' = crawls \cup {[born |-> now, template |-> FALSE, status |-> "queued"]} /\ UNCHANGED modified
       ELSE modified' = when /\ UNCHANGED crawls
    /\ ran' = IF kind = "crawl" THEN now ELSE when

(* archivebox schedule --run-all                                           *)
RunAll ==
    /\ schedule = "enabled" /\ asked < MaxRuns
    /\ asked' = asked + 1
    /\ Dispatched(now)
    /\ UNCHANGED <<now, kind, schedule, pc, at, listed, crashes>>

-----------------------------------------------------------------------------
(* delete_expired: the rows of final status are listed, then deleted one   *)
(* by one, with what hangs on them.                                        *)
Sweep ==
    /\ pc = "sweep"
    /\ listed' = {c \in crawls : Expired(c) /\ c.status = "sealed"}
    /\ pc' = "delete"
    /\ UNCHANGED <<now, kind, crawls, schedule, modified, ran, at, asked, crashes>>

Delete ==
    /\ pc = "delete"
    /\ \/ listed = {} /\ pc' = "due" /\ at' = now /\ UNCHANGED <<crawls, schedule, listed>>
       \/ \E c \in listed :
            /\ \A d \in listed : c.born <= d.born
            /\ listed' = listed \ {c} /\ crawls' = crawls \ {c}
            /\ schedule' = IF c.template THEN "gone" ELSE schedule
            /\ UNCHANGED <<pc, at>>
    /\ UNCHANGED <<now, kind, modified, ran, asked, crashes>>

(* Faulty: a time that has just come is not past.                          *)
IsDueAfter == schedule = "enabled" /\ NextRun(LastRun) < at

(* is_due, at the now of the pass.                                         *)
IsDue == schedule = "enabled" /\ NextRun(LastRun) <= at

Check ==
    /\ pc = "due"
    /\ pc' = IF IsDue THEN "dispatch" ELSE "work"
    /\ UNCHANGED <<now, kind, crawls, schedule, modified, ran, at, listed, asked, crashes>>

(* Whoever has disabled it since, the loop has it as it was.               *)
Dispatch ==
    /\ pc = "dispatch"
    /\ Dispatched(at)
    /\ pc' = "work"
    /\ UNCHANGED <<now, kind, schedule, at, listed, asked, crashes>>

(* One crawl is captured, however long that takes.                         *)
Work ==
    /\ pc = "work"
    /\ pc' = "sweep"
    /\ LET queued == {c \in crawls : c.status = "queued"} IN
       \/ queued = {} /\ UNCHANGED crawls
       \/ \E c \in queued : crawls' = (crawls \ {c}) \cup {[c EXCEPT !.status = "sealed"]}
    /\ UNCHANGED <<now, kind, schedule, modified, ran, at, listed, asked, crashes>>

Crash ==
    /\ crashes < MaxCrashes /\ pc # "sweep"
    /\ crashes' = crashes + 1 /\ pc' = "sweep" /\ listed' = {}
    /\ UNCHANGED <<now, kind, crawls, schedule, modified, ran, at, asked>>

Daemon == Sweep \/ Delete \/ Check \/ Dispatch \/ Work
Next == Tick \/ Create \/ Switch \/ RunAll \/ Daemon \/ Crash
Spec == Init /\ [][Next]_vars /\ WF_vars(Daemon)

-----------------------------------------------------------------------------
(* The types of the variables.  *)
TypeOK ==
    /\ now \in 0..MaxNow /\ kind \in {"crawl", "update"} /\ crawls \subseteq Crawl /\ listed \subseteq Crawl
    /\ schedule \in {"none", "enabled", "disabled", "gone"}
    /\ modified \in 0..MaxNow /\ ran \in 0..MaxNow /\ at \in 0..MaxNow
    /\ pc \in {"sweep", "delete", "due", "dispatch", "work"}
    /\ asked \in Nat /\ crashes \in Nat

(* The daemon dispatches once for each time the expression names: what     *)
(* retention deletes, and a daemon that dies, make it run no more often    *)
(* than is asked.  (A run the user asks for after the daemon has looked    *)
(* comes on top.)                                                          *)
OncePerSlot ==
    [][pc = "due" /\ pc' = "dispatch" => ran \div Period < now \div Period]_vars

(* "When a schedule becomes due, the orchestrator creates a new queued     *)
(* Crawl" (Scheduled-Archiving.md), also after a crash and however long    *)
(* the daemon was busy.                                                    *)
Repeats == (schedule = "enabled" /\ NextRun(ran) <= now) ~> (schedule # "enabled" \/ NextRun(ran) > now)

(* "The long-running global orchestrator watches enabled schedules"        *)
(* (Scheduled-Archiving.md): one that nobody disabled is there to watch.   *)
ScheduleStays == schedule # "gone"
=============================================================================
