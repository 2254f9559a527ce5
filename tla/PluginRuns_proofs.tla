--------------------------- MODULE PluginRuns_proofs ---------------------------
(***************************************************************************)
(* No request for a plugin run is forgotten: proofs about PluginRuns for   *)
(* any plugins, any number of users, any number of rounds of either loop   *)
(* and any number of deaths, where no request comes between an attempt's   *)
(* choice of its plugins and its start.                                    *)
(***************************************************************************)
EXTENDS PluginRuns, TLAPS

(* No copy carries a timestamp that has not been written yet.              *)
StampsWritten == row.retry <= writes /\ att.own <= writes /\ att.seen.retry <= writes

(* Until an attempt starts its plugins cover the row's requests.           *)
ChoiceCovers ==
    /\ pc \in {"claim", "choose", "start"} => ~att.chosen
    /\ pc = "event" => att.chosen
    /\ pc \in {"setup", "event"} /\ att.chosen => row.plugins \subseteq att.selected

(* While it runs they do so unless the row has been written, and once it   *)
(* has run a row nobody has written has no open request.                   *)
RunCovers ==
    /\ pc = "hooks" /\ row.retry = att.own => row.plugins \subseteq att.selected
    /\ pc \in {"complete", "consume", "clear"} /\ row.retry = att.own => asked = {}

(* Maintenance knows the requests of a row that has not been written.      *)
MaintainsSeen == pc = "requeue" /\ row.retry = att.seen.retry => row.plugins = att.seen.plugins

IInv ==
    /\ TypeOK
    /\ StampsWritten
    /\ RequestsPersist
    /\ RequestsQueued
    /\ ChoiceCovers
    /\ RunCovers
    /\ MaintainsSeen

LEMMA NoAttemptType ==
    /\ NoUser.seen \in Row
    /\ NoAttempt \in [selected : SUBSET Plugins, chosen : BOOLEAN, consumed : SUBSET Plugins,
                      wasSealed : BOOLEAN, own : Nat, seen : Row, tries : Nat]
    /\ NoAttempt.own = 0 /\ NoAttempt.seen.retry = 0 /\ ~NoAttempt.chosen
  BY DEF NoAttempt, NoUser, Row, NULL

LEMMA Start == Init => IInv
  BY NoAttemptType, PluginAssumption DEF Init, IInv, TypeOK, StampsWritten, RequestsPersist, RequestsQueued,
     ChoiceCovers, RunCovers, MaintainsSeen, Row, Stages, NULL, NoUser

-----------------------------------------------------------------------------
UserCalls == [at : {"idle", "read", "write", "gave_up"}, want : SUBSET Plugins,
              seen : Row, tries : 0..ScheduleTries]

(* A step that leaves the row and the runner alone.                        *)
LEMMA ElsewhereInductive ==
    ASSUME IInv, UNCHANGED <<row, asked, pc, att, writes>>,
           user' \in [Users -> UserCalls], asks' \in Nat, crashes' \in Nat
    PROVE  IInv'
  BY DEF UserCalls, IInv, TypeOK, StampsWritten, RequestsPersist, RequestsQueued, ChoiceCovers, RunCovers,
     MaintainsSeen

(* A call of schedule_plugin_run.                                          *)
LEMMA AskInductive ==
    ASSUME IInv, ~LateRequests, NEW u \in Users, Ask(u) \/ AskRead(u) \/ AskWrite(u)
    PROVE  IInv'
  <1>1. user \in [Users -> UserCalls] /\ asks \in Nat /\ asks + 1 \in Nat /\ crashes \in Nat /\ row \in Row
    BY DEF IInv, TypeOK, UserCalls
  <1>2. NoUser \in UserCalls
    BY NoAttemptType, PluginAssumption DEF UserCalls, NoUser
  <1>3. CASE Ask(u)
    <2>1. PICK want \in SUBSET Plugins :
            user' = [user EXCEPT ![u] = [NoUser EXCEPT !.at = "read", !.want = want]]
      BY <1>3 DEF Ask
    <2>2. [NoUser EXCEPT !.at = "read", !.want = want] \in UserCalls
      BY <1>2 DEF UserCalls
    <2>3. QED
      BY <1>1, <1>3, <2>1, <2>2, ElsewhereInductive DEF Ask
  <1>4. CASE AskRead(u)
    <2>1. [user[u] EXCEPT !.at = "write", !.seen = row] \in UserCalls
      BY <1>1 DEF UserCalls
    <2>2. user' = [user EXCEPT ![u] = [user[u] EXCEPT !.at = "write", !.seen = row]]
      BY <1>1, <1>4 DEF AskRead, UserCalls
    <2>3. QED
      BY <1>1, <1>4, <2>1, <2>2, ElsewhereInductive DEF AskRead
  <1>5. CASE AskWrite(u) /\ row = user[u].seen /\ row' = Merged(u)
    <2> DEFINE new == Merged(u)
    <2>1. /\ row' = new /\ writes' = writes + 1 /\ asked' = asked \cup user[u].want
          /\ ~Window /\ user' = [user EXCEPT ![u] = NoUser]
          /\ UNCHANGED <<pc, att, asks, crashes>>
      BY <1>5 DEF AskWrite, Stamp
    <2>2. /\ new \in Row /\ new.retry = writes + 1 /\ new.plugins = row.plugins \cup user[u].want
          /\ user[u].want \subseteq Plugins
      BY <1>1, <1>5 DEF Merged, Stamp, IInv, TypeOK, Row, UserCalls
    <2>3. TypeOK'
      BY <1>1, <1>2, <2>1, <2>2 DEF IInv, TypeOK, UserCalls
    <2>4. row.retry < new.retry /\ att.own < new.retry /\ att.seen.retry < new.retry /\ new.retry # NULL
      BY <2>2 DEF IInv, StampsWritten, TypeOK, Row, NULL
    <2>5. ChoiceCovers'
      BY <2>1, <2>2, <2>3 DEF IInv, TypeOK, ChoiceCovers, Window, Row
    <2>6. StampsWritten' /\ RequestsPersist' /\ RequestsQueued' /\ RunCovers' /\ MaintainsSeen'
      BY <2>1, <2>2, <2>4 DEF IInv, TypeOK, StampsWritten, RequestsPersist, RequestsQueued, RunCovers,
         MaintainsSeen, Row
    <2>7. QED
      BY <2>3, <2>5, <2>6 DEF IInv
  <1>6. CASE AskWrite(u) /\ UNCHANGED <<row, asked, writes>>
    <2>1. CASE user' = [user EXCEPT ![u] = NoUser]
      BY <1>1, <1>2, <1>6, <2>1, ElsewhereInductive DEF AskWrite
    <2>2. GaveUp \in UserCalls
      BY <1>2 DEF UserCalls, GaveUp
    <2>3. ASSUME user[u].tries + 1 < ScheduleTries
          PROVE  Again(u) \in UserCalls
      <3>1. user[u] \in UserCalls /\ user[u].tries + 1 \in 0..ScheduleTries
        BY <1>1, <2>3, PluginAssumption DEF UserCalls
      <3>2. QED
        BY <3>1 DEF UserCalls, Again
    <2>4. CASE user' = [user EXCEPT ![u] = IF user[u].tries + 1 < ScheduleTries THEN Again(u) ELSE GaveUp]
      <3>1. user' \in [Users -> UserCalls]
        BY <1>1, <2>2, <2>3, <2>4
      <3>2. QED
        BY <1>1, <1>6, <3>1, ElsewhereInductive DEF AskWrite
    <2>5. QED
      BY <1>6, <2>1, <2>4 DEF AskWrite
  <1>7. QED
    BY <1>3, <1>4, <1>5, <1>6 DEF AskWrite

-----------------------------------------------------------------------------
Attempts == [selected : SUBSET Plugins, chosen : BOOLEAN, consumed : SUBSET Plugins, wasSealed : BOOLEAN,
             own : Nat, seen : Row, tries : Nat]

(* The runner takes a row and chooses its plugins.                         *)
LEMMA ChoiceInductive ==
    ASSUME IInv, Pick \/ Claim \/ Choose \/ StartAttempt \/ Setup
    PROVE  IInv'
  <1>1. /\ row \in Row /\ asked \subseteq Plugins /\ pc \in Stages /\ att \in Attempts
        /\ writes \in Nat /\ writes + 1 \in Nat /\ NoAttempt \in Attempts
        /\ row.retry \in Nat /\ row.plugins \subseteq Plugins
    BY NoAttemptType DEF IInv, TypeOK, Attempts, Row
  <1>2. CASE Pick
    <2>1. att' = [NoAttempt EXCEPT !.seen = row] /\ att' \in Attempts /\ pc' = "claim"
      BY <1>1, <1>2 DEF Pick, Attempts, Goto
    <2>2. att'.own = 0 /\ ~att'.chosen /\ att'.seen = row
      BY <1>1, <2>1, NoAttemptType DEF Attempts
    <2>3. TypeOK'
      BY <1>2, <2>1 DEF Pick, IInv, TypeOK, Attempts, Stages
    <2>4. QED
      BY <1>1, <1>2, <2>1, <2>2, <2>3 DEF Pick, IInv, StampsWritten, RequestsPersist, RequestsQueued,
         ChoiceCovers, RunCovers, MaintainsSeen
  <1>3. CASE Claim
    <2>1. CASE row.retry = att.seen.retry /\ row' = [row EXCEPT !.retry = Stamp]
      <3>1. /\ pc = "claim" /\ row' \in Row /\ row'.retry = writes + 1 /\ row'.plugins = row.plugins
            /\ writes' = writes + 1
            /\ att' \in Attempts /\ att'.own = writes + 1 /\ att'.chosen = att.chosen /\ att'.seen = att.seen
            /\ pc' \in {"choose", "start"} /\ UNCHANGED <<asked, user, asks, crashes>>
        BY <1>1, <1>3, <2>1 DEF Claim, Attempts, Row, Stamp, Goto
      <3>2. TypeOK'
        BY <1>1, <3>1 DEF IInv, TypeOK, Attempts, Stages
      <3>3. att.seen.retry <= writes + 1
        BY <1>1 DEF IInv, StampsWritten, Attempts, Row
      <3>4. QED
        BY <1>1, <3>1, <3>2, <3>3 DEF IInv, StampsWritten, RequestsPersist, RequestsQueued,
           ChoiceCovers, RunCovers, MaintainsSeen, NULL
    <2>2. CASE Goto("idle") /\ UNCHANGED <<row, writes, att>>
      BY <1>3, <2>2 DEF Claim, Goto, Stages, IInv, TypeOK, StampsWritten, RequestsPersist, RequestsQueued,
         ChoiceCovers, RunCovers, MaintainsSeen
    <2>3. QED
      BY <1>3, <2>1, <2>2 DEF Claim
  <1>4. CASE Choose
    <2>1. CASE Goto("idle") /\ UNCHANGED att
      BY <1>4, <2>1 DEF Choose, Goto, Stages, IInv, TypeOK, StampsWritten, RequestsPersist, RequestsQueued,
         ChoiceCovers, RunCovers, MaintainsSeen
    <2>2. CASE att' = [att EXCEPT !.selected = row.plugins, !.chosen = row.plugins # {}]
      <3>1. /\ att' \in Attempts /\ att'.selected = row.plugins /\ att'.own = att.own /\ att'.seen = att.seen
            /\ pc = "choose" /\ UNCHANGED <<row, asked, user, writes, asks, crashes>>
        BY <1>1, <1>4, <2>2 DEF Choose, Attempts
      <3>2. pc' \in {"maintain", "setup", "idle"}
        BY <1>4 DEF Choose, Goto
      <3>3. TypeOK'
        BY <1>1, <3>1, <3>2 DEF IInv, TypeOK, Attempts, Stages
      <3>4. QED
        BY <1>1, <3>1, <3>2, <3>3 DEF IInv, StampsWritten, RequestsPersist, RequestsQueued,
           ChoiceCovers, RunCovers, MaintainsSeen
    <2>3. QED
      BY <1>4, <2>1, <2>2 DEF Choose
  <1>5. CASE StartAttempt
    <2>1. CASE row' = [row EXCEPT !.status = "started", !.retry = Stamp] /\ writes' = Stamp
      <3>1. /\ pc = "start" /\ row' \in Row /\ row'.retry = writes + 1 /\ row'.plugins = row.plugins
            /\ writes' = writes + 1 /\ pc' \in {"setup", "idle"} /\ UNCHANGED <<asked, att, user, asks, crashes>>
        BY <1>1, <1>5, <2>1 DEF StartAttempt, Row, Stamp, Goto
      <3>2. TypeOK'
        BY <1>1, <3>1 DEF IInv, TypeOK, Stages
      <3>3. att.own < writes + 1 /\ att.seen.retry < writes + 1
        BY <1>1 DEF IInv, StampsWritten, Attempts, Row
      <3>4. QED
        BY <1>1, <3>1, <3>2, <3>3 DEF IInv, StampsWritten, RequestsPersist, RequestsQueued,
           ChoiceCovers, RunCovers, MaintainsSeen, NULL, Attempts, Row
    <2>2. CASE UNCHANGED <<row, writes>>
      <3>1. pc = "start" /\ pc' \in {"setup", "idle"} /\ UNCHANGED <<asked, att, user, asks, crashes>>
        BY <1>5 DEF StartAttempt, Goto
      <3>2. QED
        BY <2>2, <3>1 DEF Stages, IInv, TypeOK, StampsWritten, RequestsPersist, RequestsQueued,
           ChoiceCovers, RunCovers, MaintainsSeen
    <2>3. QED
      BY <1>5, <2>1, <2>2 DEF StartAttempt
  <1>6. CASE Setup
    <2>1. /\ pc = "setup" /\ pc' = "event" /\ UNCHANGED <<row, asked, user, writes, asks, crashes>>
          /\ att' \in Attempts /\ att'.chosen /\ att'.seen = row /\ att'.own = att.own
          /\ att'.selected = IF att.chosen THEN att.selected ELSE IF row.plugins # {} THEN row.plugins ELSE Plugins
      BY <1>1, <1>6 DEF Setup, Goto, Attempts
    <2>2. row.plugins \subseteq att'.selected
      BY <1>1, <2>1 DEF IInv, ChoiceCovers
    <2>3. TypeOK'
      BY <1>1, <2>1 DEF IInv, TypeOK, Attempts, Stages
    <2>4. QED
      BY <1>1, <2>1, <2>2, <2>3 DEF IInv, StampsWritten, RequestsPersist, RequestsQueued,
         ChoiceCovers, RunCovers, MaintainsSeen
  <1>7. QED
    BY <1>2, <1>3, <1>4, <1>5, <1>6

-----------------------------------------------------------------------------
(* The attempt, from its start to the seal.                                *)
LEMMA AttemptInductive ==
    ASSUME IInv, SnapshotEvent \/ Hooks \/ Complete
    PROVE  IInv'
  <1>1. /\ row \in Row /\ asked \subseteq Plugins /\ pc \in Stages /\ att \in Attempts
        /\ writes \in Nat /\ writes + 1 \in Nat /\ row.retry \in Nat /\ row.plugins \subseteq Plugins
        /\ att.seen.retry <= writes /\ att.seen.retry \in Nat
    BY DEF IInv, TypeOK, Attempts, Row, StampsWritten
  <1>2. CASE SnapshotEvent
    <2>1. /\ pc = "event" /\ pc' = "hooks" /\ UNCHANGED <<asked, user, asks, crashes>>
          /\ row' \in Row /\ row'.plugins = row.plugins
          /\ \/ row'.retry = writes + 1 /\ writes' = writes + 1
             \/ row'.retry = row.retry /\ writes' = writes
          /\ att' \in Attempts /\ att'.own = row'.retry /\ att'.selected = att.selected /\ att'.seen = att.seen
      BY <1>1, <1>2 DEF SnapshotEvent, Goto, Attempts, Row, Stamp
    <2>2. TypeOK'
      BY <1>1, <2>1 DEF IInv, TypeOK, Attempts, Stages
    <2>3. row.plugins \subseteq att.selected
      BY <2>1 DEF IInv, ChoiceCovers
    <2>4. StampsWritten'
      BY <1>1, <2>1 DEF IInv, StampsWritten
    <2>5. QED
      BY <1>1, <2>1, <2>2, <2>3, <2>4 DEF IInv, RequestsPersist, RequestsQueued, ChoiceCovers, RunCovers,
         MaintainsSeen, NULL
  <1>3. CASE Hooks
    <2>1. /\ pc = "hooks" /\ pc' = "complete" /\ UNCHANGED <<row, att, user, writes, asks, crashes>>
          /\ asked' = asked \ att.selected
      BY <1>3 DEF Hooks, Goto
    <2>2. row.retry = att.own => asked' = {}
      BY <2>1 DEF IInv, RunCovers, RequestsPersist
    <2>3. TypeOK'
      BY <1>1, <2>1 DEF IInv, TypeOK, Stages
    <2>4. QED
      BY <2>1, <2>2, <2>3 DEF IInv, StampsWritten, RequestsPersist, RequestsQueued, ChoiceCovers, RunCovers,
         MaintainsSeen
  <1>4. CASE Complete
    <2>1. /\ pc = "complete" /\ pc' \in {"consume", "maintain", "idle"}
          /\ UNCHANGED <<asked, att, user, writes, asks, crashes>>
      BY <1>4 DEF Complete, Goto
    <2>2. CASE UNCHANGED row
      BY <1>1, <2>1, <2>2 DEF IInv, TypeOK, Stages, StampsWritten, RequestsPersist, RequestsQueued, ChoiceCovers,
         RunCovers, MaintainsSeen
    <2>3. CASE row.retry = att.own /\ row' = [row EXCEPT !.status = "sealed", !.retry = NULL]
      <3>1. asked = {}
        BY <2>1, <2>3 DEF IInv, RunCovers
      <3>2. row' \in Row /\ row'.retry = 0
        BY <1>1, <2>3 DEF Row, NULL
      <3>3. TypeOK'
        BY <1>1, <2>1, <3>2 DEF IInv, TypeOK, Stages
      <3>4. QED
        BY <1>1, <2>1, <3>1, <3>2, <3>3 DEF IInv, StampsWritten, RequestsPersist, RequestsQueued, ChoiceCovers,
           RunCovers, MaintainsSeen
    <2>4. QED
      BY <1>4, <2>2, <2>3 DEF Complete
  <1>5. QED
    BY <1>2, <1>3, <1>4

(* Requests are taken off the row, and it is put out of the queue.         *)
LEMMA AfterInductive ==
    ASSUME IInv, ConsumeRead \/ ConsumeWrite \/ Maintain \/ Requeue \/ Crash
    PROVE  IInv'
  <1>1. /\ row \in Row /\ asked \subseteq Plugins /\ pc \in Stages /\ att \in Attempts
        /\ writes \in Nat /\ writes + 1 \in Nat /\ row.retry \in Nat /\ row.plugins \subseteq Plugins
        /\ att.seen.retry <= writes /\ att.seen.retry \in Nat /\ att.own <= writes /\ att.own \in Nat
    BY DEF IInv, TypeOK, Attempts, Row, StampsWritten
  <1>2. CASE ConsumeRead
    <2>1. /\ pc = "consume" /\ pc' \in {"clear", "maintain", "idle"}
          /\ UNCHANGED <<row, asked, user, writes, asks, crashes>>
          /\ att' \in Attempts /\ att'.own = att.own /\ att'.seen = att.seen
      BY <1>1, <1>2 DEF ConsumeRead, After, Goto, Attempts
    <2>2. TypeOK'
      BY <1>1, <2>1 DEF IInv, TypeOK, Attempts, Stages
    <2>3. QED
      BY <2>1, <2>2 DEF IInv, StampsWritten, RequestsPersist, RequestsQueued, ChoiceCovers, RunCovers,
         MaintainsSeen
  <1>3. CASE ConsumeWrite
    <2>1. /\ pc = "clear" /\ pc' \in {"consume", "maintain", "idle"}
          /\ UNCHANGED <<asked, att, user, writes, asks, crashes>>
      BY <1>3 DEF ConsumeWrite, After, Goto
    <2>2. CASE UNCHANGED row
      BY <1>1, <2>1, <2>2 DEF IInv, TypeOK, Stages, StampsWritten, RequestsPersist, RequestsQueued, ChoiceCovers,
         RunCovers, MaintainsSeen
    <2>3. CASE row.retry = (IF att.wasSealed THEN att.own ELSE NULL) /\ row' = Cleared
      <3>1. asked = {}
        BY <2>1, <2>3 DEF IInv, RunCovers, RequestsQueued
      <3>2. row' \in Row /\ row'.retry \in {0, row.retry}
        BY <1>1, <2>3 DEF Cleared, Row, NULL
      <3>3. TypeOK'
        BY <1>1, <2>1, <3>2 DEF IInv, TypeOK, Stages
      <3>4. QED
        BY <1>1, <2>1, <3>1, <3>2, <3>3 DEF IInv, StampsWritten, RequestsPersist, RequestsQueued, ChoiceCovers,
           RunCovers, MaintainsSeen
    <2>4. QED
      BY <1>3, <2>2, <2>3 DEF ConsumeWrite
  <1>4. CASE Maintain
    <2>1. /\ pc = "maintain" /\ pc' = "requeue" /\ UNCHANGED <<row, asked, user, writes, asks, crashes>>
          /\ att' \in Attempts /\ att'.own = att.own /\ att'.seen = row
      BY <1>1, <1>4 DEF Maintain, Goto, Attempts
    <2>2. TypeOK'
      BY <1>1, <2>1 DEF IInv, TypeOK, Attempts, Stages
    <2>3. QED
      BY <2>1, <2>2 DEF IInv, StampsWritten, RequestsPersist, RequestsQueued, ChoiceCovers, RunCovers,
         MaintainsSeen
  <1>5. CASE Requeue
    <2> DEFINE next == IF att.seen.status # "sealed" THEN Stamp
                       ELSE IF att.seen.plugins # {} THEN att.seen.retry ELSE NULL
    <2>1. pc = "requeue" /\ pc' = "idle" /\ UNCHANGED <<asked, att, user, asks, crashes>>
      BY <1>5 DEF Requeue, Goto
    <2>2. CASE UNCHANGED <<row, writes>>
      BY <1>1, <2>1, <2>2 DEF IInv, TypeOK, Stages, StampsWritten, RequestsPersist, RequestsQueued, ChoiceCovers,
         RunCovers, MaintainsSeen
    <2>3. CASE /\ row.retry = att.seen.retry /\ row' = [row EXCEPT !.retry = next]
               /\ writes' = IF next = Stamp THEN Stamp ELSE writes
      <3>1. row.plugins = att.seen.plugins
        BY <2>1, <2>3 DEF IInv, MaintainsSeen
      <3>2. /\ row' \in Row /\ row'.retry = next /\ row'.plugins = row.plugins
            /\ next \in Nat /\ next <= writes' /\ writes <= writes' /\ writes' \in Nat
        BY <1>1, <2>3 DEF Row, NULL, Stamp
      <3>3. asked # {} => next # NULL
        BY <1>1, <2>3, <3>1 DEF IInv, RequestsPersist, RequestsQueued, Stamp, NULL
      <3>4. TypeOK'
        BY <1>1, <2>1, <3>2 DEF IInv, TypeOK, Stages
      <3>5. StampsWritten'
        BY <1>1, <2>1, <3>2 DEF StampsWritten
      <3>6. QED
        BY <1>1, <2>1, <3>2, <3>3, <3>4, <3>5 DEF IInv, RequestsPersist, RequestsQueued, ChoiceCovers,
           RunCovers, MaintainsSeen
    <2>4. QED
      BY <1>5, <2>2, <2>3 DEF Requeue
  <1>6. CASE Crash
    <2>1. /\ pc' = "idle" /\ att' = NoAttempt /\ att' \in Attempts /\ UNCHANGED <<row, asked, user, writes, asks>>
          /\ crashes' \in Nat /\ att'.own = 0 /\ att'.seen.retry = 0
      BY <1>6, NoAttemptType DEF Crash, Goto, Attempts, IInv, TypeOK
    <2>2. TypeOK'
      BY <1>1, <2>1 DEF IInv, TypeOK, Attempts, Stages
    <2>3. QED
      BY <1>1, <2>1, <2>2 DEF IInv, StampsWritten, RequestsPersist, RequestsQueued, ChoiceCovers, RunCovers,
         MaintainsSeen
  <1>7. QED
    BY <1>2, <1>3, <1>4, <1>5, <1>6

LEMMA NextInductive == ASSUME ~LateRequests, IInv, [Next]_vars PROVE IInv'
  <1>1. CASE Runner
    BY <1>1, ChoiceInductive, AttemptInductive, AfterInductive DEF Runner
  <1>2. CASE Crash
    BY <1>2, AfterInductive
  <1>3. CASE \E u \in Users : Ask(u) \/ AskRead(u) \/ AskWrite(u)
    BY <1>3, AskInductive
  <1>4. CASE UNCHANGED vars
    BY <1>4 DEF vars, IInv, TypeOK, StampsWritten, RequestsPersist, RequestsQueued, ChoiceCovers, RunCovers,
       MaintainsSeen
  <1>5. QED
    BY <1>1, <1>2, <1>3, <1>4 DEF Next

THEOREM Invariance == ASSUME ~LateRequests PROVE Spec => []IInv
  BY Start, NextInductive, PTL DEF Spec

(* A request that has not been run stays on the row, whoever else asks,    *)
(* runs, consumes or dies.                                                 *)
THEOREM RequestsPersistAlways == ASSUME ~LateRequests PROVE Spec => []RequestsPersist
  <1>1. IInv => RequestsPersist
    BY DEF IInv
  <1>2. QED
    BY <1>1, Invariance, PTL

(* A row with a request that has not been run is in the queue.             *)
THEOREM RequestsQueuedAlways == ASSUME ~LateRequests PROVE Spec => []RequestsQueued
  <1>1. IInv => RequestsQueued
    BY DEF IInv
  <1>2. QED
    BY <1>1, Invariance, PTL
=============================================================================
