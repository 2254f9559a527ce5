------------------------------ MODULE PluginRuns ------------------------------
(***************************************************************************)
(* Runs of chosen plugins over one snapshot: Snapshot.schedule_plugin_run  *)
(* (core/models.py) merges requests into config["RETRY_PLUGINS"], the      *)
(* runner (services/runner.py) runs them, SnapshotService                  *)
(* (services/snapshot_service.py) takes them off once they have run.       *)
(*                                                                         *)
(* One action is one statement on the snapshot's row or one stretch of     *)
(* work between two of them.  retry_at is a timestamp no two writes share, *)
(* so it also tells versions of the row apart.  The crawl is active and    *)
(* nobody pauses or cancels: CrawlCommands has what happens then.          *)
(***************************************************************************)
EXTENDS Integers, FiniteSets

CONSTANTS
    Plugins,      \* all plugins of a full capture
    Users,        \* processes that ask for plugin runs
    MaxAsks,      \* requests made
    ScheduleTries, \* rounds of schedule_plugin_run, 8 in the code
    ConsumeTries, \* rounds of finalize_completed_snapshot, 3 in the code
    LateRequests, \* a request may come between an attempt's choice of plugins and its start
    MaxCrashes    \* deaths of the runner

ASSUME PluginAssumption ==
    /\ MaxAsks \in Nat /\ MaxCrashes \in Nat /\ LateRequests \in BOOLEAN
    /\ ScheduleTries \in Nat \ {0} /\ ConsumeTries \in Nat \ {0}

VARIABLES
    row,     \* status, retry_at and RETRY_PLUGINS of the snapshot
    asked,   \* plugins requested and not run since
    pc,      \* where the runner is
    att,     \* what the runner knows of its attempt
    user,    \* user[u]: a call of schedule_plugin_run
    writes, asks, crashes

vars == <<row, asked, pc, att, user, writes, asks, crashes>>

NULL == 0
Row == [status : {"queued", "started", "sealed"}, retry : Nat, plugins : SUBSET Plugins]
Stages == {"idle", "claim", "choose", "start", "setup", "event", "hooks", "complete",
           "consume", "clear", "maintain", "requeue"}

NoUser == [at |-> "idle", want |-> {}, seen |-> [status |-> "sealed", retry |-> NULL, plugins |-> {}], tries |-> 0]
NoAttempt == [selected |-> {}, chosen |-> FALSE, consumed |-> {}, wasSealed |-> FALSE, own |-> NULL,
              seen |-> NoUser.seen, tries |-> 0]

Stamp == writes + 1
Goto(stage) == pc' = stage

-----------------------------------------------------------------------------
Init ==
    /\ row \in {[status |-> "sealed", retry |-> NULL, plugins |-> {}],
                [status |-> "queued", retry |-> 1, plugins |-> {}]}
    /\ asked = {} /\ pc = "idle" /\ att = NoAttempt
    /\ user = [u \in Users |-> NoUser]
    /\ writes = 1 /\ asks = 0 /\ crashes = 0

(* The plugins of this attempt are chosen, and it has not yet noted which  *)
(* requests it is to consume.                                              *)
Window == pc \in {"setup", "event"} /\ att.chosen /\ att.selected # Plugins

(* schedule_plugin_run: each round reads the row and writes it if it is    *)
(* still the same.                                                         *)
Ask(u) ==
    /\ user[u].at = "idle" /\ asks < MaxAsks
    /\ asks' = asks + 1
    /\ \E want \in SUBSET Plugins \ {{}} :
         user' = [user EXCEPT ![u] = [NoUser EXCEPT !.at = "read", !.want = want]]
    /\ UNCHANGED <<row, asked, pc, att, writes, crashes>>

AskRead(u) ==
    /\ user[u].at = "read"
    /\ user' = [user EXCEPT ![u].at = "write", ![u].seen = row]
    /\ UNCHANGED <<row, asked, pc, att, writes, asks, crashes>>

(* Faulty: the row is not woken.                                           *)
MergedAsleep(u) ==
    [status |-> IF user[u].seen.status = "sealed" THEN "sealed" ELSE "queued",
     retry |-> user[u].seen.retry, plugins |-> user[u].seen.plugins \cup user[u].want]

Merged(u) ==
    [status  |-> IF user[u].seen.status = "sealed" THEN "sealed" ELSE "queued",
     retry   |-> Stamp,
     plugins |-> user[u].seen.plugins \cup user[u].want]

Again(u) == [user[u] EXCEPT !.at = "read", !.tries = @ + 1]
GaveUp == [NoUser EXCEPT !.at = "gave_up"]

AskWrite(u) ==
    /\ user[u].at = "write" /\ (Window => LateRequests)
    /\ \/ /\ row = user[u].seen
          /\ row' = Merged(u) /\ writes' = Stamp /\ asked' = asked \cup user[u].want
          /\ user' = [user EXCEPT ![u] = NoUser]
       \/ /\ row # user[u].seen
          /\ user' = [user EXCEPT ![u] = IF user[u].tries + 1 < ScheduleTries THEN Again(u) ELSE GaveUp]
          /\ UNCHANGED <<row, asked, writes>>
    /\ UNCHANGED <<pc, att, asks, crashes>>

-----------------------------------------------------------------------------
(* run_pending_crawls finds the row due, or its lease run out.             *)
Pick ==
    /\ pc = "idle" /\ row.retry # NULL
    /\ att' = [NoAttempt EXCEPT !.seen = row]
    /\ Goto("claim")
    /\ UNCHANGED <<row, asked, user, writes, asks, crashes>>

(* claim_for_worker: filter(retry_at=...), whatever the status is by now.  *)
Claim ==
    /\ pc = "claim"
    /\ \/ /\ row.retry = att.seen.retry
          /\ row' = [row EXCEPT !.retry = Stamp] /\ writes' = Stamp
          /\ att' = [att EXCEPT !.own = Stamp]
          /\ Goto(IF att.seen.status = "sealed" THEN "choose" ELSE "start")
       \/ row.retry # att.seen.retry /\ Goto("idle") /\ UNCHANGED <<row, writes, att>>
    /\ UNCHANGED <<asked, user, asks, crashes>>

(* A sealed row that is as claimed: its requests, or maintenance.          *)
Choose ==
    /\ pc = "choose"
    /\ \/ (row.status # "sealed" \/ row.retry # att.own) /\ Goto("idle") /\ UNCHANGED att
       \/ /\ row.status = "sealed" /\ row.retry = att.own
          /\ Goto(IF row.plugins = {} THEN "maintain" ELSE "setup")
          /\ att' = [att EXCEPT !.selected = row.plugins, !.chosen = row.plugins # {}]
    /\ UNCHANGED <<row, asked, user, writes, asks, crashes>>

(* start_processing of a queued row.  An interrupted capture goes on.      *)
StartAttempt ==
    /\ pc = "start"
    /\ \/ /\ row.status = "queued" /\ row.retry = att.own
          /\ row' = [row EXCEPT !.status = "started", !.retry = Stamp] /\ writes' = Stamp
          /\ Goto("setup")
       \/ row.status = "started" /\ Goto("setup") /\ UNCHANGED <<row, writes>>
       \/ row.status # "started" /\ row.retry # att.own /\ Goto("idle") /\ UNCHANGED <<row, writes>>
    /\ UNCHANGED <<asked, att, user, asks, crashes>>

(* CrawlSetup; then load_snapshot_payload, and run_snapshot's choice:      *)
(* requested_plugins, or the RETRY_PLUGINS there are, or all.              *)
Setup ==
    /\ pc = "setup"
    /\ att' = [att EXCEPT !.chosen = TRUE, !.seen = row,
                          !.selected = IF att.chosen THEN @ ELSE IF row.plugins # {} THEN row.plugins ELSE Plugins]
    /\ Goto("event")
    /\ UNCHANGED <<row, asked, user, writes, asks, crashes>>

(* on_SnapshotEvent: a queued row is started, and the requests to consume  *)
(* and the retry_at of the attempt are noted.                              *)
SnapshotEvent ==
    /\ pc = "event"
    /\ LET start == row.status = "queued"
           stamp == IF start THEN Stamp ELSE row.retry IN
         /\ row' = IF start THEN [row EXCEPT !.status = "started", !.retry = stamp] ELSE row
         /\ writes' = IF start THEN Stamp ELSE writes
         /\ att' = [att EXCEPT !.own = stamp, !.wasSealed = (row.status = "sealed"), !.consumed = row.plugins]
    /\ Goto("hooks")
    /\ UNCHANGED <<asked, user, asks, crashes>>

Hooks ==
    /\ pc = "hooks"
    /\ asked' = asked \ att.selected
    /\ Goto("complete")
    /\ UNCHANGED <<row, att, user, writes, asks, crashes>>

(* finalize_completed_snapshot seals the attempt's own row; only a sealed  *)
(* row's requests are consumed.                                            *)
Complete ==
    /\ pc = "complete"
    /\ LET mine == ~att.wasSealed /\ row.status = "started" /\ row.retry = att.own IN
         /\ row' = IF mine THEN [row EXCEPT !.status = "sealed", !.retry = NULL] ELSE row
         /\ Goto(IF att.consumed # {} /\ (mine \/ row.status = "sealed") THEN "consume"
                 ELSE IF att.seen.status = "sealed" THEN "maintain" ELSE "idle")
    /\ UNCHANGED <<asked, att, user, writes, asks, crashes>>

After == IF att.seen.status = "sealed" THEN "maintain" ELSE "idle"

(* Each round reads the row; other requests than the attempt's stay.       *)
ConsumeRead ==
    /\ pc = "consume"
    /\ \/ row.plugins # att.consumed /\ Goto(After) /\ UNCHANGED att
       \/ row.plugins = att.consumed /\ Goto("clear") /\ att' = [att EXCEPT !.tries = @ + 1]
    /\ UNCHANGED <<row, asked, user, writes, asks, crashes>>

Cleared == [row EXCEPT !.plugins = {}, !.retry = IF att.wasSealed THEN NULL ELSE @]

(* Faulty: the same plugins, asked for again, count as run.                *)
ConsumeAnyLease ==
    /\ pc = "clear"
    /\ \/ row.status = "sealed" /\ row.plugins = att.consumed /\ row' = Cleared /\ Goto(After)
       \/ (row.status # "sealed" \/ row.plugins # att.consumed) /\ Goto(After) /\ UNCHANGED row
    /\ UNCHANGED <<asked, att, user, writes, asks, crashes>>

(* The update that takes the requests off, if status, config and lease are *)
(* as the attempt knows them.                                              *)
ConsumeWrite ==
    /\ pc = "clear"
    /\ LET same == /\ row.status = "sealed" /\ row.plugins = att.consumed
                   /\ row.retry = IF att.wasSealed THEN att.own ELSE NULL IN
       \/ same /\ row' = Cleared /\ Goto(After)
       \/ ~same /\ UNCHANGED row /\ Goto(IF att.tries < ConsumeTries THEN "consume" ELSE After)
    /\ UNCHANGED <<asked, att, user, writes, asks, crashes>>

-----------------------------------------------------------------------------
(* run_snapshot_maintenance, after a sealed row's attempt or instead.      *)
Maintain ==
    /\ pc = "maintain"
    /\ att' = [att EXCEPT !.seen = row]
    /\ Goto("requeue")
    /\ UNCHANGED <<row, asked, user, writes, asks, crashes>>

(* Faulty: maintenance is done with the row, requests or not.              *)
RequeueNothing ==
    /\ pc = "requeue"
    /\ row' = IF row.status = att.seen.status /\ row.retry = att.seen.retry
              THEN [row EXCEPT !.retry = NULL] ELSE row
    /\ Goto("idle")
    /\ UNCHANGED <<asked, att, user, writes, asks, crashes>>

Requeue ==
    /\ pc = "requeue"
    /\ LET next == IF att.seen.status # "sealed" THEN Stamp
                   ELSE IF att.seen.plugins # {} THEN att.seen.retry ELSE NULL
           same == row.status = att.seen.status /\ row.retry = att.seen.retry IN
         /\ row' = IF same THEN [row EXCEPT !.retry = next] ELSE row
         /\ writes' = IF same /\ next = Stamp THEN Stamp ELSE writes
    /\ Goto("idle")
    /\ UNCHANGED <<asked, att, user, asks, crashes>>

(* The runner dies, or is told to end: an interrupted attempt projects     *)
(* nothing.  The next runner finds the lease run out.                      *)
Crash ==
    /\ pc # "idle" /\ crashes < MaxCrashes
    /\ crashes' = crashes + 1
    /\ Goto("idle") /\ att' = NoAttempt
    /\ UNCHANGED <<row, asked, user, writes, asks>>

Runner ==
    \/ Pick \/ Claim \/ Choose \/ StartAttempt \/ Setup \/ SnapshotEvent \/ Hooks
    \/ Complete \/ ConsumeRead \/ ConsumeWrite \/ Maintain \/ Requeue

Next ==
    \/ Runner \/ Crash
    \/ \E u \in Users : Ask(u) \/ AskRead(u) \/ AskWrite(u)

Fairness == WF_vars(Runner) /\ \A u \in Users : WF_vars(AskRead(u) \/ AskWrite(u))
Spec == Init /\ [][Next]_vars /\ Fairness

-----------------------------------------------------------------------------
(* The types of the variables.  *)
TypeOK ==
    /\ row \in Row /\ asked \subseteq Plugins /\ pc \in Stages
    /\ att \in [selected : SUBSET Plugins, chosen : BOOLEAN, consumed : SUBSET Plugins, wasSealed : BOOLEAN,
                own : Nat, seen : Row, tries : Nat]
    /\ user \in [Users -> [at : {"idle", "read", "write", "gave_up"}, want : SUBSET Plugins,
                           seen : Row, tries : 0..ScheduleTries]]
    /\ writes \in Nat /\ asks \in Nat /\ crashes \in Nat

(* "Persist one snapshot-scoped plugin request until abx-dl completes it"  *)
(* (schedule_plugin_run): as long as a requested plugin has not run, the   *)
(* request is on the row, whoever merges, runs or consumes others.         *)
RequestsPersist == asked \subseteq row.plugins

(* A row with requests that have not run is in the queue: neither the seal *)
(* of an attempt nor maintenance takes it out.                             *)
RequestsQueued == asked # {} => row.retry # NULL

(* Every request is run in the end, wherever the runner dies.              *)
RequestsRun == \A p \in Plugins : p \in asked ~> p \notin asked
=============================================================================
