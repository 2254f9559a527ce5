----------------------- MODULE CrawlSchedules_proofs -----------------------
(***************************************************************************)
(* The daemon runs a schedule once for each time its expression names, for *)
(* every period, every number of users' runs and deaths, and every         *)
(* retention no shorter than the period.                                   *)
(*                                                                         *)
(* The date of the last dispatch is nowhere stored for a crawl schedule.   *)
(* The invariant says how far the rows tell it all the same: either the    *)
(* crawl of that dispatch still has its row, and no row is younger, so     *)
(* last_run_at is that date; or retention has deleted the row, which it    *)
(* does a period later at the earliest.                                    *)
(***************************************************************************)
EXTENDS CrawlSchedules, TLAPS

(* Rows are kept for ever or for a period at least.                        *)
KeptAPeriod == \A template \in BOOLEAN : Keeps(template) = 0 \/ Keeps(template) >= Period

(* There is a schedule that can become due.                                *)
Exists == schedule \in {"enabled", "disabled"}

(* The last dispatch shows in a row, or is a period ago.                   *)
Shows == (\E c \in crawls : c.born = ran) \/ ran + Period <= now

(* With it, a row is never younger than the last dispatch, and the sweep   *)
(* has listed only rows whose time is over.                                *)
IInv ==
    /\ TypeOK
    /\ ran <= now /\ modified <= now /\ at <= now
    /\ kind = "crawl" => \A c \in crawls : c.born <= ran
    /\ \A c \in listed : Expired(c)
    /\ Exists => IF kind = "update" THEN modified = ran ELSE Shows
    /\ pc = "dispatch" => schedule # "none"

-----------------------------------------------------------------------------
(* A time that has come is in a later period than the run before it.       *)
LEMMA LaterPeriod ==
    ASSUME NEW a \in Nat, NEW b \in Nat, NEW P \in Nat \ {0}, (a \div P + 1) * P <= b
    PROVE  a \div P < b \div P
<1>1. PICK x, y : x = a \div P /\ y = b \div P
  OBVIOUS
<1>2. x \in Nat /\ y \in Nat /\ b < (y + 1) * P /\ (x + 1) * P <= b
  BY <1>1
<1>3. (x + 1) * P < (y + 1) * P
  BY <1>2
<1> QED
  BY <1>1, <1>2, <1>3

(* Later times are in no earlier period, and a period on in a later one.   *)
LEMMA Monotonic ==
    ASSUME NEW a \in Nat, NEW b \in Nat, NEW P \in Nat \ {0}
    PROVE  /\ a <= b => a \div P <= b \div P
           /\ a + P <= b => a \div P < b \div P
OBVIOUS

(* The types of rows and dates.                                            *)
LEMMA Typed ==
    ASSUME IInv
    PROVE  /\ now \in Nat /\ ran \in Nat /\ at \in Nat /\ modified \in Nat
           /\ \A c \in crawls \cup listed : c \in Crawl /\ c.born \in Nat /\ c.template \in BOOLEAN
BY ScheduleAssumption DEF IInv, TypeOK, Crawl

(* The invariant holds while nobody has made the schedule, ...             *)
LEMMA InitInv == Init => IInv
BY ScheduleAssumption DEF Init, IInv, TypeOK, Exists

(* A dispatch is the youngest crawl, or the note of the date.              *)
LEMMA DispatchedKept ==
    ASSUME IInv, NEW when, kind = "update" => when \in 0..MaxNow /\ when <= now,
           Dispatched(when), schedule # "none",
           UNCHANGED <<now, kind, schedule, at, listed>>,
           pc' \in {pc, "work"}, asked' \in Nat, crashes' = crashes
    PROVE  IInv'
<1>1. TypeOK /\ now \in 0..MaxNow /\ ran \in 0..MaxNow
  BY DEF IInv, TypeOK
<1>2. \A c \in listed : Expired(c)'
  BY DEF IInv, Expired
<1>3. CASE kind = "update"
  BY <1>1, <1>2, <1>3 DEF IInv, TypeOK, Dispatched, Exists
<1>4. CASE kind = "crawl"
  <2>1. PICK d : d = [born |-> now, template |-> FALSE, status |-> "queued"]
    OBVIOUS
  <2>2. d \in Crawl /\ d.born = now
    BY <1>1, <2>1 DEF Crawl
  <2>3. crawls' = crawls \cup {d} /\ ran' = now /\ modified' = modified
    BY <1>4, <2>1 DEF Dispatched
  <2>4. \A c \in crawls' : c.born <= ran'
    <3>1. \A c \in crawls : c.born \in Nat /\ c.born <= ran /\ ran <= now
      BY <1>4, Typed DEF IInv
    <3> QED
      BY <2>2, <2>3, <3>1, Typed
  <2>5. Shows'
    BY <2>2, <2>3 DEF Shows
  <2> QED
    BY <1>1, <1>2, <1>4, <2>2, <2>3, <2>4, <2>5 DEF IInv, TypeOK, Exists
<1> QED
  BY <1>1, <1>3, <1>4 DEF TypeOK

(* ... and every step keeps it; only Delete needs KeptAPeriod.             *)
LEMMA NextInv ==
    ASSUME KeptAPeriod, IInv, [Next]_vars
    PROVE  IInv'
<1> USE DEF Exists
<1>1. CASE Tick
  <2>1. \A c \in listed : Expired(c)'
    BY <1>1, Typed, ScheduleAssumption DEF IInv, Tick, Expired, Keeps
  <2>2. Exists /\ kind # "update" => Shows'
    BY <1>1, Typed, ScheduleAssumption DEF IInv, Tick, Shows
  <2> QED
    BY <1>1, <2>1, <2>2, Typed, ScheduleAssumption DEF IInv, Tick, TypeOK
<1>2. CASE Create
  <2>1. PICK d : /\ d \in Crawl /\ d.born = now
                 /\ crawls' = {d}
    <3>1. PICK status \in {"sealed", "queued"} :
             crawls' = {[born |-> now, template |-> TRUE, status |-> status]}
      BY <1>2 DEF Create
    <3>2. [born |-> now, template |-> TRUE, status |-> status] \in Crawl
      BY <3>1 DEF IInv, TypeOK, Crawl
    <3> QED
      BY <3>1, <3>2
  <2>2. \A c \in listed : Expired(c)'
    BY <1>2 DEF IInv, Create, Expired
  <2>3. Shows'
    BY <1>2, <2>1 DEF Create, Shows
  <2>4. \A c \in crawls' : c.born <= ran'
    BY <1>2, <2>1, Typed DEF Create
  <2> QED
    BY <1>2, <2>1, <2>2, <2>3, <2>4, Typed DEF IInv, Create, TypeOK
<1>3. CASE Switch
  <2>1. \A c \in listed : Expired(c)'
    BY <1>3 DEF IInv, Switch, Expired
  <2>2. Shows' = Shows \/ kind = "update"
    BY <1>3 DEF Switch, Shows
  <2>3. kind' = "crawl" => \A c \in crawls' : c.born <= ran'
    BY <1>3 DEF IInv, Switch
  <2> QED
    BY <1>3, <2>1, <2>2, <2>3, Typed, ScheduleAssumption DEF IInv, Switch, TypeOK
<1>4. CASE RunAll
  <2>1. asked' \in Nat
    BY <1>4, ScheduleAssumption DEF RunAll, IInv, TypeOK
  <2> QED
    BY <1>4, <2>1, DispatchedKept DEF RunAll, IInv, TypeOK
<1>5. CASE Sweep
  <2>1. listed' \subseteq crawls /\ \A c \in listed' : Expired(c)'
    BY <1>5 DEF Sweep, Expired
  <2> QED
    BY <1>5, <2>1 DEF IInv, Sweep, TypeOK, Shows
<1>6. CASE Delete
  <2>1. CASE listed = {} /\ pc' = "due" /\ at' = now /\ UNCHANGED <<crawls, schedule, listed>>
    BY <1>6, <2>1, Typed DEF IInv, Delete, TypeOK, Shows, Expired
  <2>2. ASSUME NEW c \in listed, listed' = listed \ {c}, crawls' = crawls \ {c},
               schedule' = IF c.template THEN "gone" ELSE schedule, UNCHANGED <<pc, at>>
        PROVE  IInv'
    <3>1. UNCHANGED <<now, kind, modified, ran, asked, crashes>>
      BY <1>6 DEF Delete
    <3>2. c.born = ran => ran + Period <= now
      BY Typed, ScheduleAssumption DEF IInv, Expired, Keeps, KeptAPeriod
    <3>3. Shows => Shows'
      BY <2>2, <3>1, <3>2 DEF Shows
    <3>4. \A d \in listed' : Expired(d)'
      BY <2>2, <3>1 DEF IInv, Expired
    <3> QED
      BY <2>2, <3>1, <3>3, <3>4 DEF IInv, TypeOK
  <2> QED
    BY <1>6, <2>1, <2>2 DEF Delete
<1>7. CASE Check
  BY <1>7 DEF IInv, Check, IsDue, TypeOK, Shows, Expired
<1>8. CASE Dispatch
  BY <1>8, DispatchedKept DEF Dispatch, IInv, TypeOK
<1>9. CASE Work
  <2>1. CASE UNCHANGED crawls
    BY <1>9, <2>1 DEF IInv, Work, TypeOK, Shows, Expired
  <2>2. ASSUME NEW c \in crawls, NEW d, d = [c EXCEPT !.status = "sealed"],
               crawls' = (crawls \ {c}) \cup {d}
        PROVE  IInv'
    <3>1. c \in Crawl /\ d \in Crawl /\ d.born = c.born
      BY <2>2, Typed DEF Crawl
    <3>2. Shows' = Shows
      BY <1>9, <2>2, <3>1 DEF Work, Shows
    <3>3. \A e \in listed' : Expired(e)'
      BY <1>9 DEF IInv, Work, Expired
    <3> QED
      BY <1>9, <2>2, <3>1, <3>2, <3>3 DEF IInv, Work, TypeOK
  <2> QED
    BY <1>9, <2>1, <2>2 DEF Work
<1>10. CASE Crash
  BY <1>10 DEF IInv, Crash, TypeOK, Shows
<1>11. CASE UNCHANGED vars
  BY <1>11 DEF IInv, vars, TypeOK, Shows, Expired
<1> QED
  BY <1>1, <1>2, <1>3, <1>4, <1>5, <1>6, <1>7, <1>8, <1>9, <1>10, <1>11 DEF Next, Daemon

(* The inductive invariant, for rows kept a period at least.               *)
THEOREM Invariance ==
    ASSUME KeptAPeriod
    PROVE  Spec => []IInv
<1>1. Init => IInv
  BY InitInv
<1>2. IInv /\ [Next]_vars => IInv'
  BY NextInv
<1> QED
  BY <1>1, <1>2, PTL DEF Spec

(* The daemon never looks at a schedule as due twice in one period of its  *)
(* expression (run_pending_crawls, CrawlSchedule.is_due).                  *)
THEOREM OncePerSlotAlways ==
    ASSUME KeptAPeriod
    PROVE  Spec => OncePerSlot
<1>1. IInv /\ [Next]_vars
        => [pc = "due" /\ pc' = "dispatch" => ran \div Period < now \div Period]_vars
  <2> SUFFICES ASSUME IInv, [Next]_vars, pc = "due", pc' = "dispatch"
               PROVE  ran \div Period < now \div Period
    OBVIOUS
  <2>1. IsDue /\ at <= now
    BY DEF IInv, Next, Daemon, vars, Tick, Create, Switch, RunAll, Sweep, Delete, Check, Dispatch,
       Work, Crash
  <2>2. CASE kind = "update"
    <3>1. LastRun = ran
      BY <2>1, <2>2 DEF IInv, IsDue, Exists, LastRun
    <3> QED
      BY <2>1, <3>1, LaterPeriod, Monotonic, Typed, ScheduleAssumption DEF IsDue, NextRun
  <2>3. CASE kind = "crawl" /\ \E c \in crawls : c.born = ran
    <3>1. ran \in Born /\ \A u \in Born : u <= ran /\ u \in Nat
      BY <2>3, Typed DEF IInv, Born
    <3>2. PICK l : l = LastRun
      OBVIOUS
    <3>3. l \in Born /\ \A u \in Born : u <= l
      BY <2>3, <3>1, <3>2 DEF LastRun
    <3>4. l = ran
      BY <3>1, <3>3
    <3> QED
      BY <2>1, <3>2, <3>4, LaterPeriod, Monotonic, Typed, ScheduleAssumption DEF IsDue, NextRun
  <2>4. CASE ran + Period <= now
    BY <2>4, Monotonic, Typed, ScheduleAssumption
  <2> QED
    BY <2>1, <2>2, <2>3, <2>4 DEF IInv, TypeOK, IsDue, Exists, Shows
<1> QED
  BY <1>1, Invariance, PTL DEF Spec, OncePerSlot
=============================================================================
