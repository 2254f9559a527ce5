--------------------------- MODULE RunnerGate_proofs ---------------------------
(***************************************************************************)
(* Runner work never overlaps, and the gate implements RunnerTurns: proofs *)
(* about RunnerGate for any number of runners, daemons and pids, any       *)
(* number of deaths and of containers, if no runner but one that stands by *)
(* lives longer than PID_REUSE_WINDOW; that whoever gives way gives way to *)
(* a newer runner is proved for one daemon at most.                        *)
(***************************************************************************)
EXTENDS RunnerGate, TLAPS, FiniteSetTheorems, WellFoundedInduction

Alive(r) == pc[r] \notin Gone \cup {"unborn"}

(* A runner is alive if and only if it has the pid it was started with.    *)
PidsOwned ==
    /\ \A r \in Runners : pc[r] # "unborn" => pid[r] \in Pids
    /\ \A r \in Runners, i \in Pids : owner[i] = r <=> Alive(r) /\ pid[r] = i

OnRecord(r) == pc[r] \notin {"unborn", "born"}

(* Rows, and what a scan finds, are of runners that have made their row.   *)
Started ==
    \A r \in Runners : /\ Running(r) => OnRecord(r)
                       /\ \A v \in Live(r) : OnRecord(v)

(* Only the living are told to go, and their rows are of this container.   *)
AliveHere ==
    /\ \A r \in termed : Alive(r)
    /\ \A r \in Runners : Alive(r) /\ pc[r] # "born" => row[r].ns = ns

Killing == {"kill", "signal", "wait", "bury"}

(* Whoever stops others has found some, and is the newest it has found.    *)
HasVictim ==
    \A r \in Runners : pc[r] \in Killing => Live(r) \ {r} # {} /\ \A v \in Live(r) : v <= r

(* The pid that is signalled was the victim's when the runner had its own, *)
(* and the victim is gone when its row is written.                         *)
VictimGone ==
    \A r \in Runners : /\ pc[r] \in {"signal", "wait"} => pid[Victim(r)] # pid[r]
                       /\ pc[r] = "bury" => ~Alive(Victim(r))

(* A runner so old that cleanup takes its row away does not get past the   *)
(* gate.                                                                   *)
OldGiveWay ==
    \A r \in old :
        /\ pc[r] \in {"list", "list2"} => ~Running(r)
        /\ pc[r] = "decide" => r \notin Live(r)
        /\ pc[r] \notin Killing \cup {"promote", "working"}

OneWorks == \A r, v \in Working : r = v

(* Who lives is on record, or too old for it.                              *)
Recorded == \A r \in Runners : Alive(r) /\ OnRecord(r) => Running(r) \/ r \in old

(* The old that live are daemons, and whoever is older is old too.         *)
OldOnes ==
    /\ \A r \in Runners : pc[r] = "standby" => r \in Daemons
    /\ \A r \in old : /\ pc[r] # "unborn" /\ (Alive(r) => r \in Daemons)
                      /\ \A q \in Runners : q < r => q \in old

(* An old daemon that does not find itself finds only newer runners.       *)
OneDaemon == \A d, e \in Daemons : d = e
NewerOnly ==
    OneDaemon => \A r \in Runners : pc[r] = "decide" /\ r \notin Live(r) => \A v \in Live(r) : v > r

IInv ==
    /\ TypeOK
    /\ PidsOwned
    /\ Started
    /\ AliveHere
    /\ HasVictim
    /\ VictimGone
    /\ OldGiveWay
    /\ WorkerOnRecord
    /\ OneWorks
    /\ Recorded
    /\ OldOnes
    /\ NewerOnly

-----------------------------------------------------------------------------
LEMMA MinExists ==
    ASSUME NEW S \in SUBSET Nat, S # {}
    PROVE  MinOf(S) \in S
  <1>1. PICK x \in S : \A y \in S : ~(<<y, x>> \in OpToRel(<, Nat))
    BY NatLessThanWellFounded, WFMin
  <1>2. \A y \in S : ~(y < x)
    BY <1>1 DEF OpToRel
  <1>3. \A y \in S : x <= y
    BY <1>2
  <1>4. QED
    BY <1>3 DEF MinOf

LEMMA MaxExists ==
    ASSUME NEW S \in SUBSET Runners, S # {}
    PROVE  MaxOf(S) \in S /\ \A y \in S : y <= MaxOf(S)
  <1> DEFINE T == {N - x : x \in S}
  <1>1. T \in SUBSET Nat /\ T # {}
    BY NAssumption DEF Runners
  <1>2. PICK m \in T : \A t \in T : ~(<<t, m>> \in OpToRel(<, Nat))
    BY <1>1, NatLessThanWellFounded, WFMin
  <1>3. \A t \in T : ~(t < m)
    BY <1>1, <1>2 DEF OpToRel
  <1>4. PICK x \in S : m = N - x
    OBVIOUS
  <1>5. \A y \in S : ~(N - y < N - x)
    BY <1>3, <1>4
  <1>6. \A y \in S : y <= x
    BY <1>5, NAssumption DEF Runners
  <1>7. QED
    BY <1>6 DEF MaxOf

LEMMA StageNames ==
    /\ Gone \subseteq Stages /\ "unborn" \in Stages
    /\ Stages \ (Gone \cup {"unborn", "born"}) =
         {"standby", "enter", "cleanup", "list", "remark", "cleanup2", "list2", "decide", "kill", "signal",
          "wait", "bury", "promote", "working", "leave"}
  BY DEF Stages, Gone

(* What the two writes to the rows do.                                     *)
LEMMA ExitedRows ==
    ASSUME row \in [Runners -> Rows], NEW S
    PROVE  /\ Exited(S) \in [Runners -> Rows]
           /\ \A q \in Runners : /\ Exited(S)[q].ns = row[q].ns
                                 /\ q \in S => Exited(S)[q] = [row[q] EXCEPT !.status = "exited"]
                                 /\ q \notin S => Exited(S)[q] = row[q]
  BY DEF Exited, Rows

LEMMA MarkedRow ==
    ASSUME row \in [Runners -> Rows], ns \in Nat, NEW r \in Runners,
           NEW role \in {"", "runner_waiting", "worker_runner"}, Mark(r, role)
    PROVE  /\ row' \in [Runners -> Rows]
           /\ row'[r] = [status |-> "running", role |-> role, ns |-> ns]
           /\ row'[r].ns = ns /\ row'[r].status = "running"
           /\ \A q \in Runners \ {r} : row'[q] = row[q]
  BY DEF Mark, Rows

(* The rows of the dead and of the old may be marked exited, but not those *)
(* of runners at work.                                                     *)
Retires(q) ==
    \/ row'[q] = row[q]
    \/ /\ pc[q] # "working" /\ row'[q].status = "exited"
       /\ Alive(q) => q \in old /\ row'[q].ns = row[q].ns

LEMMA RetiresKeeps ==
    ASSUME NEW q \in Runners, Retires(q)
    PROVE  /\ Alive(q) => row'[q].ns = row[q].ns
           /\ row'[q].status = row[q].status \/ row'[q].status = "exited"
           /\ pc[q] = "working" => row'[q] = row[q]
           /\ IInv /\ Alive(q) /\ OnRecord(q) => row'[q].status = "running" \/ q \in old
  BY DEF Retires, IInv, Recorded, Running

LEMMA UnseenRows == Unseen \in [Runners -> Rows] /\ \A v \in Runners : Unseen[v].status # "running"
  BY DEF Unseen, NoRow, Rows

(* The next victim is another runner.                                      *)
LEMMA VictimOfRunner ==
    ASSUME HasVictim, NEW r \in Runners, pc[r] \in Killing
    PROVE  /\ Victim(r) \in Live(r) \ {r} /\ Victim(r) \in Runners /\ Victim(r) < r
  <1>1. Live(r) \ {r} \in SUBSET Runners /\ Live(r) \ {r} # {} /\ Runners \subseteq Nat
    BY NAssumption DEF HasVictim, Runners, Live
  <1>2. Victim(r) \in Live(r) \ {r}
    BY <1>1, MinExists DEF Victim
  <1>3. QED
    BY <1>1, <1>2, NAssumption DEF HasVictim, Runners

(* What others have found in their scans stays.                            *)
LEMMA SeenStays ==
    ASSUME NEW q \in Runners, seen'[q] = seen[q]
    PROVE  Live(q)' = Live(q) /\ Victim(q)' = Victim(q)
  BY DEF Live, Victim

(* Pids stay with their processes, except that strangers may die.          *)
OwnersStay ==
    /\ owner' \in [Pids -> Runners \cup {Nobody, Stranger}]
    /\ \A i \in Pids : owner'[i] = owner[i] \/ (owner[i] = Stranger /\ owner'[i] = Nobody)

LEMMA SameOwners == ASSUME IInv, UNCHANGED owner PROVE OwnersStay
  BY DEF IInv, TypeOK, OwnersStay

(* A runner goes from one stage to the next.                               *)
LEMMA StageInductive ==
    ASSUME IInv, NEW r \in Runners, Alive(r),
           NEW stage \in Stages \ (Gone \cup {"unborn", "born"}), Goto(r, stage),
           UNCHANGED <<pid, old, ns>>, OwnersStay, crashes' \in Nat, worked' \subseteq Runners, strayed' \subseteq Runners,
           termed' \subseteq Runners, \A q \in termed' : Alive(q),
           row' \in [Runners -> Rows], seen' \in [Runners -> [Runners -> Rows]],
           \A q \in Runners \ {r} : Retires(q) /\ seen'[q] = seen[q],
           row'[r].ns = ns, \A v \in Live(r)' : OnRecord(v),
           stage \in Killing => Live(r)' \ {r} # {} /\ \A v \in Live(r)' : v <= r,
           stage \in {"signal", "wait"} => pid[Victim(r)'] # pid[r],
           stage = "bury" => ~Alive(Victim(r)) /\ Victim(r)' = Victim(r) /\ Victim(r) \in Runners,
           r \in old => /\ stage \in {"list", "list2"} => row'[r].status # "running"
                        /\ stage = "decide" => r \notin Live(r)'
                        /\ stage \notin Killing \cup {"promote", "working"},
           stage = "working" => /\ row'[r].status = "running" /\ row'[r].role = "worker_runner"
                                /\ \A q \in Runners \ {r} : pc[q] # "working",
           row'[r].status = "running" \/ r \in old, stage = "standby" => r \in Daemons,
           stage = "decide" /\ OneDaemon /\ r \notin Live(r)' => \A v \in Live(r)' : v > r
    PROVE  IInv'
  <1>1. /\ TypeOK /\ pc \in [Runners -> Stages] /\ row \in [Runners -> Rows]
        /\ pc' \in [Runners -> Stages] /\ pc'[r] = stage /\ \A q \in Runners \ {r} : pc'[q] = pc[q]
    BY DEF IInv, TypeOK, Goto
  <1>2. TypeOK'
    BY <1>1 DEF TypeOK, OwnersStay
  <1>3. \A q \in Runners : Alive(q)' <=> Alive(q)
    BY <1>1 DEF Alive, Gone
  <1>S. \A q \in Runners \ {r} : Live(q)' = Live(q) /\ Victim(q)' = Victim(q)
    BY SeenStays
  <1>4. PidsOwned' /\ Started'
    <2>O. \A q \in Runners, i \in Pids : owner'[i] = q <=> owner[i] = q
      BY PidAssumption DEF OwnersStay
    <2>1. PidsOwned'
      BY <1>1, <1>3, <2>O DEF IInv, PidsOwned, Alive
    <2>2. \A q \in Runners : ~(OnRecord(q)') => q # r /\ ~OnRecord(q)
      BY <1>1, StageNames DEF OnRecord
    <2>3. \A q \in Runners \ {r} : row'[q].status = "running" => row[q].status = "running"
      BY <1>1, RetiresKeeps
    <2>4. \A q \in Runners : Live(q)' \subseteq Runners /\ \A v \in Live(q)' : OnRecord(v)
      BY <1>S DEF IInv, Started, Live
    <2>5. \A q \in Runners : \A v \in Live(q)' : OnRecord(v)'
      BY <2>2, <2>4
    <2>6. \A q \in Runners : row'[q].status = "running" => OnRecord(q)'
      BY <1>1, <2>2, <2>3 DEF IInv, Started, Running
    <2>7. QED
      BY <2>1, <2>5, <2>6 DEF Started, Running
  <1>5. \A q \in Runners : q # r /\ Alive(q) => row'[q].ns = row[q].ns
    BY <1>1, RetiresKeeps
  <1>6. AliveHere'
    BY <1>1, <1>3, <1>5 DEF IInv, AliveHere, TypeOK
  <1>7. HasVictim'
    <2> SUFFICES ASSUME NEW q \in Runners, pc'[q] \in Killing
                 PROVE  Live(q)' \ {q} # {} /\ \A v \in Live(q)' : v <= q
      BY DEF HasVictim
    <2>1. CASE q = r
      BY <1>1, <2>1
    <2>2. CASE q # r
      BY <1>1, <1>S, <2>2 DEF IInv, HasVictim
    <2>3. QED
      BY <2>1, <2>2
  <1>V. VictimGone'
    <2> SUFFICES ASSUME NEW q \in Runners
                 PROVE  /\ pc'[q] \in {"signal", "wait"} => pid'[Victim(q)'] # pid'[q]
                        /\ pc'[q] = "bury" => ~(Alive(Victim(q))')
      BY DEF VictimGone
    <2>1. CASE q = r
      <3>1. pc'[q] \in {"signal", "wait"} => pid'[Victim(q)'] # pid'[q]
        BY <1>1, <2>1
      <3>2. ASSUME pc'[q] = "bury" PROVE ~(Alive(Victim(q))')
        <4>1. Victim(q)' = Victim(q) /\ ~Alive(Victim(q)) /\ Victim(q) \in Runners
          BY <1>1, <2>1, <3>2
        <4>2. Alive(Victim(q))' <=> pc'[Victim(q)'] \notin Gone \cup {"unborn"}
          BY DEF Alive
        <4>3. \A w \in Runners : pc'[w] \notin Gone \cup {"unborn"} <=> Alive(w)
          BY <1>3 DEF Alive
        <4>4. QED
          BY <4>1, <4>2, <4>3
      <3>3. QED
        BY <3>1, <3>2
    <2>2. CASE q # r
      <3>1. Victim(q)' = Victim(q) /\ pc'[q] = pc[q]
        BY <1>1, <1>S, <2>2
      <3>2. pc[q] \in Killing => Victim(q) \in Runners
        BY VictimOfRunner DEF IInv
      <3>3. ASSUME pc'[q] = "bury" PROVE ~(Alive(Victim(q))')
        <4>1. ~Alive(Victim(q)) /\ Victim(q) \in Runners
          BY <3>1, <3>2, <3>3 DEF IInv, VictimGone, Killing
        <4>2. Alive(Victim(q))' <=> pc'[Victim(q)'] \notin Gone \cup {"unborn"}
          BY DEF Alive
        <4>3. \A w \in Runners : pc'[w] \notin Gone \cup {"unborn"} <=> Alive(w)
          BY <1>3 DEF Alive
        <4>4. QED
          BY <3>1, <4>1, <4>2, <4>3
      <3>4. QED
        BY <3>1, <3>3 DEF IInv, VictimGone
    <2>3. QED
      BY <2>1, <2>2
  <1>8. OldGiveWay'
    <2> SUFFICES ASSUME NEW q \in old
                 PROVE  /\ pc'[q] \in {"list", "list2"} => row'[q].status # "running"
                        /\ pc'[q] = "decide" => q \notin Live(q)'
                        /\ pc'[q] \notin Killing \cup {"promote", "working"}
      BY DEF OldGiveWay, Running
    <2>1. q \in Runners
      BY <1>1 DEF TypeOK
    <2>2. CASE q = r
      BY <1>1, <2>2
    <2>3. CASE q # r
      <3>1. /\ pc[q] \in {"list", "list2"} => row[q].status # "running"
            /\ pc[q] = "decide" => q \notin Live(q)
            /\ pc[q] \notin Killing \cup {"promote", "working"}
        BY DEF IInv, OldGiveWay, Running
      <3>2. row'[q].status = row[q].status \/ row'[q].status = "exited"
        BY <1>1, <2>1, <2>3, RetiresKeeps
      <3>3. QED
        BY <1>1, <1>S, <2>1, <2>3, <3>1, <3>2
    <2>4. QED
      BY <2>2, <2>3
  <1>9. WorkerOnRecord'
    BY <1>1 DEF IInv, WorkerOnRecord, Working, Running, Retires
  <1>10. OneWorks'
    BY <1>1 DEF IInv, OneWorks, Working
  <1>11. Recorded'
    <2>1. \A q \in Runners \ {r} : OnRecord(q)' <=> OnRecord(q)
      BY <1>1 DEF OnRecord
    <2>2. QED
      BY <1>1, <1>3, <2>1, RetiresKeeps DEF Recorded, Running
  <1>12. OldOnes'
    BY <1>1, <1>3 DEF IInv, OldOnes, TypeOK
  <1>13. NewerOnly'
    BY <1>1, <1>S DEF IInv, NewerOnly
  <1>14. QED
    BY <1>2, <1>4, <1>6, <1>7, <1>V, <1>8, <1>9, <1>10, <1>11, <1>12, <1>13 DEF IInv

(* A process is gone from the system, and whoever waited for its pid may   *)
(* go on to bury it.                                                       *)
Dies(r, stage) ==
    /\ pc' \in [Runners -> Stages] /\ pc'[r] = stage
    /\ owner' = [owner EXCEPT ![pid[r]] = Nobody]
    /\ seen' \in [Runners -> [Runners -> Rows]] /\ seen'[r] = Unseen
    /\ \A q \in Runners \ {r} : seen'[q] = seen[q]
    /\ termed' = termed \ {r}
    /\ worked' \subseteq Runners /\ strayed' \subseteq Runners
    /\ UNCHANGED <<pid, old, ns>>

LEMMA DiesInductive ==
    ASSUME IInv, NEW r \in Runners, Alive(r), NEW stage \in Gone, Dies(r, stage),
           NEW k \in Runners,
           pc'[k] = pc[k] \/ k = r \/ (pc[k] = "wait" /\ pc'[k] = "bury" /\ pid[Victim(k)] = pid[r]),
           \A q \in Runners \ {r, k} : pc'[q] = pc[q],
           row' \in [Runners -> Rows], crashes' \in Nat,
           \A q \in Runners \ {r} : Retires(q)
    PROVE  IInv'
  <1>1. /\ TypeOK /\ pc \in [Runners -> Stages] /\ row \in [Runners -> Rows] /\ stage \in Stages
        /\ pc' \in [Runners -> Stages] /\ pc'[r] = stage
        /\ UNCHANGED <<pid, old, ns>> /\ termed' = termed \ {r}
    BY StageNames DEF IInv, TypeOK, Dies
  <1>2. pid[r] \in Pids /\ owner[pid[r]] = r
    BY DEF IInv, PidsOwned, Alive
  <1>3. owner' \in [Pids -> Runners \cup {Nobody, Stranger}]
        /\ owner'[pid[r]] = Nobody /\ \A i \in Pids : i # pid[r] => owner'[i] = owner[i]
    BY <1>1, <1>2 DEF TypeOK, Dies
  <1>4. TypeOK'
    BY <1>1, <1>3 DEF TypeOK, Dies
  <1>5. ~Alive(r)' /\ \A q \in Runners : q # r => (Alive(q)' <=> Alive(q))
    BY <1>1 DEF Alive, Gone
  <1>S. /\ Live(r)' = {}
        /\ \A q \in Runners \ {r} : Live(q)' = Live(q) /\ Victim(q)' = Victim(q)
    <2>1. Live(r)' = {}
      BY UnseenRows DEF Dies, Live
    <2>2. QED
      BY <2>1, SeenStays DEF Dies
  <1>P. \A q \in Runners \ {r} : \/ pc'[q] = pc[q]
                                 \/ pc[q] = "wait" /\ pc'[q] = "bury" /\ pid[Victim(q)] = pid[r]
    OBVIOUS
  <1>6. PidsOwned'
    <2>1. \A q \in Runners : pc'[q] # "unborn" => pid'[q] \in Pids
      BY <1>1, <1>2, <1>P DEF IInv, PidsOwned
    <2>2. ASSUME NEW q \in Runners, NEW i \in Pids
          PROVE  owner'[i] = q <=> Alive(q)' /\ pid'[q] = i
      <3>1. CASE i = pid[r]
        BY <1>1, <1>2, <1>3, <1>5, <3>1, PidAssumption DEF IInv, PidsOwned
      <3>2. CASE i # pid[r]
        BY <1>1, <1>2, <1>3, <1>5, <3>2 DEF IInv, PidsOwned
      <3>3. QED
        BY <3>1, <3>2
    <2>3. QED
      BY <2>1, <2>2 DEF PidsOwned
  <1>7. \A q \in Runners \ {r} : Alive(q) => row'[q].ns = row[q].ns
    BY <1>1, RetiresKeeps
  <1>8. AliveHere'
    <2>1. \A q \in termed' : Alive(q)'
      BY <1>1, <1>5 DEF IInv, AliveHere, TypeOK
    <2>2. \A q \in Runners : Alive(q)' /\ pc'[q] # "born" => row'[q].ns = ns'
      BY <1>1, <1>5, <1>7, <1>P DEF IInv, AliveHere
    <2>3. QED
      BY <2>1, <2>2 DEF AliveHere
  <1>9. HasVictim'
    <2> SUFFICES ASSUME NEW q \in Runners, pc'[q] \in Killing
                 PROVE  Live(q)' \ {q} # {} /\ \A v \in Live(q)' : v <= q
      BY DEF HasVictim
    <2>1. q # r
      BY <1>1 DEF Killing, Gone
    <2>2. pc[q] \in Killing
      BY <1>P, <2>1 DEF Killing
    <2>3. QED
      BY <1>S, <2>1, <2>2 DEF IInv, HasVictim
  <1>V. VictimGone'
    <2> SUFFICES ASSUME NEW q \in Runners, pc'[q] \in {"signal", "wait", "bury"}
                 PROVE  /\ pc'[q] \in {"signal", "wait"} => pid'[Victim(q)'] # pid'[q]
                        /\ pc'[q] = "bury" => ~(Alive(Victim(q))')
      BY DEF VictimGone
    <2>1. q # r
      BY <1>1 DEF Gone
    <2>2. pc[q] \in Killing /\ Victim(q)' = Victim(q) /\ Victim(q) \in Runners
      BY <1>S, <1>P, <2>1, VictimOfRunner DEF IInv, Killing
    <2>3. pc'[q] \in {"signal", "wait"} => pid'[Victim(q)'] # pid'[q]
      BY <1>1, <1>P, <2>1, <2>2 DEF IInv, VictimGone
    <2>4. ASSUME pc'[q] = "bury" PROVE ~(Alive(Victim(q))')
      <3>1. Alive(Victim(q))' <=> pc'[Victim(q)'] \notin Gone \cup {"unborn"}
        BY DEF Alive
      <3>2. \A w \in Runners : pc'[w] \notin Gone \cup {"unborn"} => w # r /\ Alive(w)
        BY <1>5 DEF Alive
      <3>3. ~Alive(Victim(q)) \/ Victim(q) = r
        <4>1. CASE pc[q] = "bury"
          BY <4>1 DEF IInv, VictimGone
        <4>2. CASE pid[Victim(q)] = pid[r]
          BY <1>2, <2>2, <4>2 DEF IInv, PidsOwned
        <4>3. QED
          BY <1>P, <2>1, <2>4, <4>1, <4>2
      <3>4. QED
        BY <2>2, <3>1, <3>2, <3>3
    <2>5. QED
      BY <2>3, <2>4
  <1>10. OldGiveWay'
    <2> SUFFICES ASSUME NEW q \in old
                 PROVE  /\ pc'[q] \in {"list", "list2"} => row'[q].status # "running"
                        /\ pc'[q] = "decide" => q \notin Live(q)'
                        /\ pc'[q] \notin Killing \cup {"promote", "working"}
      BY <1>1 DEF OldGiveWay, Running
    <2>1. q \in Runners
      BY <1>1 DEF TypeOK
    <2>2. CASE q = r
      BY <1>1, <2>2 DEF Gone, Killing
    <2>3. CASE q # r
      <3>1. /\ pc[q] \in {"list", "list2"} => row[q].status # "running"
            /\ pc[q] = "decide" => q \notin Live(q)
            /\ pc[q] \notin Killing \cup {"promote", "working"}
        BY DEF IInv, OldGiveWay, Running
      <3>2. row'[q].status = row[q].status \/ row'[q].status = "exited"
        BY <1>1, <2>1, <2>3, RetiresKeeps
      <3>3. pc'[q] = pc[q]
        BY <1>P, <2>1, <2>3, <3>1 DEF Killing
      <3>4. QED
        BY <1>1, <1>S, <2>1, <2>3, <3>1, <3>2, <3>3
    <2>4. QED
      BY <2>2, <2>3
  <1>11. \A q \in Runners : pc'[q] = "working" => q # r /\ pc[q] = "working"
    BY <1>1, <1>P DEF Gone
  <1>12. WorkerOnRecord' /\ OneWorks'
    <2>1. \A q \in Runners : pc'[q] = "working" => row'[q] = row[q]
      BY <1>11, RetiresKeeps
    <2>2. QED
      BY <1>11, <2>1 DEF IInv, WorkerOnRecord, OneWorks, Working, Running
  <1>13. Started'
    <2>1. \A q \in Runners : row'[q].status = "running" => q = r \/ row[q].status = "running"
      BY <1>1, RetiresKeeps
    <2>2. \A q \in Runners : ~(OnRecord(q)') => q # r /\ ~OnRecord(q)
      BY <1>1, <1>P DEF Gone, OnRecord
    <2>3. \A q \in Runners : \A v \in Live(q)' : v \in Runners /\ OnRecord(v)
      BY <1>S DEF IInv, Started, Live
    <2>4. \A q \in Runners : \A v \in Live(q)' : OnRecord(v)'
      BY <2>2, <2>3
    <2>5. \A q \in Runners : row'[q].status = "running" => OnRecord(q)'
      BY <2>1, <2>2 DEF IInv, Started, Running
    <2>6. QED
      BY <2>4, <2>5 DEF Started, Running
  <1>14. Recorded'
    <2>1. \A q \in Runners \ {r} : OnRecord(q)' <=> OnRecord(q)
      BY <1>P DEF OnRecord
    <2>2. QED
      BY <1>1, <1>5, <2>1, RetiresKeeps DEF Recorded, Running
  <1>15. OldOnes'
    BY <1>1, <1>5, <1>P DEF IInv, OldOnes, TypeOK, Gone
  <1>16. NewerOnly'
    BY <1>1, <1>S, <1>P DEF IInv, NewerOnly, Gone
  <1>17. QED
    BY <1>4, <1>6, <1>8, <1>13, <1>9, <1>V, <1>10, <1>12, <1>14, <1>15, <1>16 DEF IInv

LEMMA VanishInductive ==
    ASSUME IInv, NEW r \in Runners, Alive(r), NEW stage \in Gone, Vanish(r, stage),
           row' \in [Runners -> Rows], crashes' \in Nat,
           \A q \in Runners \ {r} : Retires(q)
    PROVE  IInv'
  <1>1. pc \in [Runners -> Stages] /\ seen \in [Runners -> [Runners -> Rows]] /\ stage \in Stages
    BY StageNames DEF IInv, TypeOK
  <1>2. /\ pc' \in [Runners -> Stages] /\ pc'[r] = stage /\ \A q \in Runners \ {r} : pc'[q] = pc[q]
    BY <1>1 DEF Vanish, Goto
  <1>3. Dies(r, stage)
    BY <1>1, <1>2, UnseenRows DEF Vanish, Dies, IInv, TypeOK
  <1>4. QED
    BY <1>2, <1>3, DiesInductive
-----------------------------------------------------------------------------
(* A runner at work is seen to run, and is not too old.                    *)
LEMMA WorkingRuns ==
    ASSUME IInv, NEW q \in Runners, pc[q] = "working"
    PROVE  IsRunning(q) /\ q \notin old
  <1>1. Alive(q)
    BY DEF Alive, Gone
  <1>2. QED
    BY <1>1 DEF IInv, PidsOwned, AliveHere, OldGiveWay, IsRunning, SharesNamespace, Alive

(* Whoever lives is seen to run once it has made its row.                  *)
LEMMA AliveRuns ==
    ASSUME IInv, NEW q \in Runners, Alive(q), OnRecord(q)
    PROVE  IsRunning(q) /\ SharesNamespace(q)
  BY DEF IInv, PidsOwned, AliveHere, IsRunning, SharesNamespace, Alive, OnRecord

(* The rows that are retired are of the dead and of the old.               *)
LEMMA ExitedRetires ==
    ASSUME IInv, NEW S, row' = Exited(S), \A q \in S \cap Runners : ~Alive(q) \/ q \in old
    PROVE  /\ row' \in [Runners -> Rows]
           /\ \A q \in Runners : Retires(q) /\ row'[q].ns = row[q].ns
  <1>1. row \in [Runners -> Rows]
    BY DEF IInv, TypeOK
  <1>2. Exited(S) \in [Runners -> Rows]
    BY <1>1, ExitedRows
  <1>3. ASSUME NEW q \in Runners
        PROVE  Retires(q) /\ row'[q].ns = row[q].ns
    <2>1. row'[q].ns = row[q].ns
      BY <1>1, ExitedRows
    <2>2. CASE q \in S
      <3>1. row'[q] = [row[q] EXCEPT !.status = "exited"] /\ row[q] \in Rows
        BY <1>1, <2>2, ExitedRows
      <3>2. row'[q].status = "exited"
        BY <3>1 DEF Rows
      <3>3. pc[q] # "working"
        BY <2>2, WorkingRuns DEF Alive, Gone
      <3>4. QED
        BY <2>1, <2>2, <3>2, <3>3 DEF Retires
    <2>3. CASE q \notin S
      <3>1. row'[q] = row[q]
        BY <1>1, <2>3, ExitedRows
      <3>2. QED
        BY <2>1, <3>1 DEF Retires
    <2>4. QED
      BY <2>2, <2>3
  <1>4. QED
    BY <1>2, <1>3

(* A runner's own row, retired by another, shows its age.                  *)
LEMMA RunsOrOld ==
    ASSUME IInv, NEW r \in Runners, Alive(r), OnRecord(r), Retires(r)
    PROVE  row'[r].status = "running" \/ r \in old
  BY RetiresKeeps

(* Runners that are on record but not seen to run are dead.                *)
LEMMA UnseenDead ==
    ASSUME IInv, NEW q \in Runners, Running(q), ~IsRunning(q) \/ ~SharesNamespace(q)
    PROVE  ~Alive(q)
  BY AliveRuns DEF IInv, Started

LEMMA TermedAlive == IInv => termed \subseteq Runners /\ \A q \in termed : Alive(q)
  BY DEF IInv, TypeOK, AliveHere

LEMMA SameRows ==
    ASSUME IInv, UNCHANGED row
    PROVE  row' \in [Runners -> Rows] /\ \A q \in Runners : Retires(q) /\ row'[q].ns = row[q].ns
  BY DEF IInv, TypeOK, Retires

(* The next victim has been started, and lives if it has its pid.          *)
LEMMA VictimRuns ==
    ASSUME IInv, NEW r \in Runners, pc[r] \in Killing
    PROVE  /\ Victim(r) \in Live(r) \ {r} /\ Victim(r) \in Runners \ {r} /\ pid[Victim(r)] \in Pids
           /\ owner[pid[Victim(r)]] = Victim(r) <=> Alive(Victim(r))
           /\ OnRecord(Victim(r))
  <1>1. Victim(r) \in Live(r) \ {r} /\ Victim(r) \in Runners
    BY VictimOfRunner DEF IInv
  <1>2. OnRecord(Victim(r))
    BY <1>1 DEF IInv, Started
  <1>3. QED
    BY <1>1, <1>2 DEF IInv, PidsOwned, OnRecord

(* A scan finds runners that have been started.                            *)
LEMMA ScanFinds ==
    ASSUME IInv, NEW r \in Runners, seen' = [seen EXCEPT ![r] = Scan]
    PROVE  /\ seen' \in [Runners -> [Runners -> Rows]] /\ \A q \in Runners \ {r} : seen'[q] = seen[q]
           /\ \A v \in Live(r)' : Running(v) /\ IsRunning(v) /\ OnRecord(v)
  <1>1. NoRow \in Rows /\ NoRow.status # "running"
    BY DEF NoRow, Rows
  <1>2. Scan \in [Runners -> Rows] /\ \A v \in Runners : Scan[v].status = "running" => Running(v) /\ IsRunning(v)
    BY <1>1 DEF Scan, IInv, TypeOK
  <1>3. QED
    BY <1>2 DEF IInv, TypeOK, Live, Started

-----------------------------------------------------------------------------
(* Only an old daemon is missing in its own scan, and the living among the *)
(* runners older than it would be daemons too.                             *)
LEMMA ScanNewer ==
    ASSUME IInv, OneDaemon, NEW r \in Runners, Alive(r), OnRecord(r),
           seen' = [seen EXCEPT ![r] = Scan], r \notin Live(r)'
    PROVE  \A v \in Live(r)' : v > r
  <1>1. \A v \in Runners : v \in Live(r)' <=> Running(v) /\ IsRunning(v)
    <2>1. \A v \in Runners : Scan[v] = IF Running(v) /\ IsRunning(v) THEN row[v] ELSE NoRow
      BY DEF Scan
    <2>2. seen'[r] = Scan /\ NoRow.status # "running"
      BY DEF IInv, TypeOK, NoRow
    <2>3. QED
      BY <2>1, <2>2 DEF Live, Running
  <1>2. r \in old /\ r \in Daemons
    BY <1>1, AliveRuns DEF IInv, Recorded, OldOnes
  <1>3. SUFFICES ASSUME NEW v \in Live(r)' PROVE v > r
    OBVIOUS
  <1>4. v \in Runners /\ v # r /\ Running(v) /\ IsRunning(v)
    BY <1>1, <1>3 DEF Live
  <1>5. Alive(v)
    <2>1. owner[pid[v]] = v /\ OnRecord(v) /\ pid[v] \in Pids
      BY <1>4 DEF IsRunning, IInv, Started, PidsOwned, OnRecord
    <2>2. QED
      BY <1>4, <2>1 DEF IInv, PidsOwned
  <1>6. v \notin old
    BY <1>2, <1>4, <1>5 DEF IInv, OldOnes, OneDaemon
  <1>7. ~(v < r)
    BY <1>2, <1>4, <1>6 DEF IInv, OldOnes
  <1>8. QED
    BY <1>4, <1>7, NAssumption DEF Runners

(* Into the gate, and through its scans.                                   *)
LEMMA EntryInductive ==
    ASSUME IInv, NEW r \in Runners, CreateRow(r) \/ StandBy(r) \/ Enter(r) \/ Cleanup(r) \/ List(r)
    PROVE  IInv'
  <1>1. /\ row \in [Runners -> Rows] /\ seen \in [Runners -> [Runners -> Rows]] /\ pc \in [Runners -> Stages]
        /\ ns \in Nat /\ crashes \in Nat
        /\ termed \subseteq Runners /\ \A q \in termed : Alive(q)
        /\ worked \subseteq Runners /\ strayed \subseteq Runners
        /\ \A v \in Live(r) : OnRecord(v)
    BY TermedAlive DEF IInv, TypeOK, Started
  <1>2. CASE CreateRow(r)
    <2>1. PICK stage \in {"standby", "enter"} : Goto(r, stage) /\ (stage = "standby" => r \in Daemons)
      BY <1>2 DEF CreateRow
    <2>2. Alive(r) /\ Mark(r, "") /\ UNCHANGED <<pid, owner, seen, termed, old, ns, crashes, worked, strayed>>
      BY <1>2 DEF CreateRow, At, Alive, Gone, history
    <2>3. /\ row' \in [Runners -> Rows] /\ row'[r].ns = ns /\ \A q \in Runners \ {r} : Retires(q)
          /\ row'[r].status = "running"
      <3>1. /\ row' \in [Runners -> Rows] /\ \A q \in Runners \ {r} : row'[q] = row[q]
            /\ row'[r].ns = ns /\ row'[r].status = "running"
        BY <1>1, <2>2, MarkedRow
      <3>2. QED
        BY <3>1 DEF Retires
    <2>4. stage \in Stages \ (Gone \cup {"unborn", "born"}) /\ stage \notin Killing \cup {"working"}
      BY StageNames DEF Killing
    <2>L. Live(r)' = Live(r)
      BY <2>2, SeenStays
    <2>5. QED
      BY <1>1, <2>1, <2>2, <2>3, <2>4, <2>L, SameOwners, StageInductive DEF Killing
  <1>3. CASE StandBy(r)
    <2> DEFINE dead == {v \in Foreground \ LiveForeground : \A s \in LiveForeground : s < v}
    <2>1. /\ pc[r] = "standby" /\ row' = Exited(dead) /\ Alive(r)
          /\ UNCHANGED <<pid, owner, seen, termed, old, ns, crashes, worked, strayed>>
      BY <1>3 DEF StandBy, At, Alive, Gone, history
    <2>2. PICK stage \in {"standby", "enter"} : Goto(r, stage)
      <3>1. pc = [pc EXCEPT ![r] = "standby"]
        BY <1>1, <2>1
      <3>2. Goto(r, "enter") \/ UNCHANGED pc
        BY <1>3 DEF StandBy
      <3>3. QED
        BY <3>1, <3>2 DEF Goto
    <2>3. \A q \in dead \cap Runners : ~Alive(q)
      BY UnseenDead DEF Foreground, LiveForeground
    <2>4. row' \in [Runners -> Rows] /\ \A q \in Runners : Retires(q) /\ row'[q].ns = row[q].ns
      BY <2>1, <2>3, ExitedRetires
    <2>5. row[r].ns = ns
      BY <2>1 DEF IInv, AliveHere
    <2>6. stage \in Stages \ (Gone \cup {"unborn", "born"}) /\ stage \notin Killing \cup {"working"}
      BY StageNames DEF Killing
    <2>L. Live(r)' = Live(r)
      BY <2>1, SeenStays
    <2>R. r \in Daemons /\ (row'[r].status = "running" \/ r \in old)
      BY <2>1, <2>4, RunsOrOld DEF OnRecord, IInv, OldOnes
    <2>7. QED
      BY <1>1, <2>1, <2>2, <2>4, <2>5, <2>6, <2>L, <2>R, SameOwners, StageInductive DEF Killing
  <1>4. CASE Enter(r)
    <2>1. PICK stage \in {"cleanup", "cleanup2"} : Goto(r, stage)
      BY <1>4 DEF Enter
    <2>2. Alive(r) /\ Mark(r, "runner_waiting") /\ UNCHANGED <<pid, owner, seen, termed, old, ns, crashes, worked, strayed>>
      BY <1>4 DEF Enter, At, Alive, Gone, history
    <2>3. /\ row' \in [Runners -> Rows] /\ row'[r].ns = ns /\ \A q \in Runners \ {r} : Retires(q)
          /\ row'[r].status = "running"
      <3>1. /\ row' \in [Runners -> Rows] /\ \A q \in Runners \ {r} : row'[q] = row[q]
            /\ row'[r].ns = ns /\ row'[r].status = "running"
        BY <1>1, <2>2, MarkedRow
      <3>2. QED
        BY <3>1 DEF Retires
    <2>4. stage \in Stages \ (Gone \cup {"unborn", "born"}) /\ stage \notin Killing \cup {"working"}
      BY StageNames DEF Killing
    <2>L. Live(r)' = Live(r)
      BY <2>2, SeenStays
    <2>5. QED
      BY <1>1, <2>1, <2>2, <2>3, <2>4, <2>L, SameOwners, StageInductive DEF Killing
  <1>5. CASE Cleanup(r)
    <2>1. PICK stage \in {"list", "list2"} : Goto(r, stage)
      BY <1>5 DEF Cleanup
    <2>2. /\ pc[r] \in {"cleanup", "cleanup2"} /\ Alive(r) /\ row' = Exited(Stale)
          /\ UNCHANGED <<pid, owner, seen, termed, old, ns, crashes, worked, strayed>>
      BY <1>5 DEF Cleanup, At, Alive, Gone, history
    <2>3. \A q \in Stale \cap Runners : ~Alive(q) \/ q \in old
      BY UnseenDead DEF Stale
    <2>4. row' \in [Runners -> Rows] /\ \A q \in Runners : Retires(q) /\ row'[q].ns = row[q].ns
      BY <2>2, <2>3, ExitedRetires
    <2>5. row[r].ns = ns
      BY <2>2 DEF IInv, AliveHere
    <2>6. r \in old => row'[r].status # "running"
      <3>1. CASE r \in Stale
        <4>1. row'[r] = [row[r] EXCEPT !.status = "exited"] /\ row[r] \in Rows
          BY <1>1, <2>2, <3>1, ExitedRows
        <4>2. QED
          BY <4>1 DEF Rows
      <3>2. CASE r \notin Stale
        <4>1. row'[r] = row[r]
          BY <1>1, <2>2, <3>2, ExitedRows
        <4>2. r \in old => row[r].status # "running"
          BY <3>2 DEF Stale, Running
        <4>3. QED
          BY <4>1, <4>2
      <3>3. QED
        BY <3>1, <3>2
    <2>7. stage \in Stages \ (Gone \cup {"unborn", "born"}) /\ stage \notin Killing \cup {"working"}
      BY StageNames DEF Killing
    <2>L. Live(r)' = Live(r)
      BY <2>2, SeenStays
    <2>R. row'[r].status = "running" \/ r \in old
      BY <2>2, <2>4, RunsOrOld DEF OnRecord
    <2>8. QED
      BY <1>1, <2>1, <2>2, <2>4, <2>5, <2>6, <2>7, <2>L, <2>R, SameOwners, StageInductive DEF Killing
  <1>6. CASE List(r)
    <2> DEFINE foreign == {v \in Runners : Running(v) /\ ~SharesNamespace(v)}
    <2>1. PICK stage \in {"decide", "remark"} : Goto(r, stage)
      BY <1>6 DEF List
    <2>2. /\ pc[r] \in {"list", "list2"} /\ Alive(r) /\ row' = Exited(foreign)
          /\ seen' = [seen EXCEPT ![r] = Scan]
          /\ UNCHANGED <<pid, owner, termed, old, ns, crashes, worked, strayed>>
      BY <1>6 DEF List, At, Alive, Gone, history
    <2>3. /\ seen' \in [Runners -> [Runners -> Rows]] /\ \A q \in Runners \ {r} : seen'[q] = seen[q]
          /\ \A v \in Live(r)' : Running(v) /\ OnRecord(v)
      BY <2>2, ScanFinds
    <2>4. \A q \in foreign \cap Runners : ~Alive(q)
      BY UnseenDead
    <2>D. stage = "decide" /\ OneDaemon /\ r \notin Live(r)' => \A v \in Live(r)' : v > r
      BY <2>2, ScanNewer DEF OnRecord
    <2>5. row' \in [Runners -> Rows] /\ \A q \in Runners : Retires(q) /\ row'[q].ns = row[q].ns
      BY <2>2, <2>4, ExitedRetires
    <2>6. row[r].ns = ns
      BY <2>2 DEF IInv, AliveHere
    <2>7. r \in old => r \notin Live(r)'
      BY <2>2, <2>3 DEF IInv, OldGiveWay
    <2>9. stage \in Stages \ (Gone \cup {"unborn", "born"}) /\ stage \notin Killing \cup {"working"}
      BY StageNames DEF Killing
    <2>R. row'[r].status = "running" \/ r \in old
      BY <2>2, <2>5, RunsOrOld DEF OnRecord
    <2>10. QED
      BY <1>1, <2>1, <2>2, <2>3, <2>5, <2>6, <2>7, <2>9, <2>D, <2>R, SameOwners, StageInductive DEF Killing
  <1>7. QED
    BY <1>2, <1>3, <1>4, <1>5, <1>6

(* The newest goes on, and stops the others.                               *)
LEMMA DecideInductive ==
    ASSUME IInv, NEW r \in Runners, Decide(r)
    PROVE  IInv'
  <1>1. /\ row \in [Runners -> Rows] /\ seen \in [Runners -> [Runners -> Rows]] /\ pc \in [Runners -> Stages]
        /\ crashes \in Nat /\ worked \subseteq Runners /\ strayed \subseteq Runners
        /\ termed \subseteq Runners /\ \A q \in termed : Alive(q)
        /\ \A v \in Live(r) : OnRecord(v)
    BY TermedAlive DEF IInv, TypeOK, Started
  <1>2. pc[r] = "decide" /\ UNCHANGED row
    BY DEF Decide, At
  <1>3. Alive(r) /\ row[r].ns = ns
    BY <1>2 DEF Alive, Gone, IInv, AliveHere
  <1>4. CASE Vanish(r, "crashed") /\ crashes' = crashes
    BY <1>1, <1>2, <1>3, <1>4, SameRows, VanishInductive DEF Gone
  <1>5. CASE Live(r) # {} /\ ~Vanish(r, "crashed")
    <2>1. PICK stage \in {"leave", "promote", "kill"} :
            /\ Goto(r, stage)
            /\ stage = "leave" \/ MaxOf(Live(r)) = r
            /\ stage = "kill" => Live(r) # {r}
      <3> DEFINE next == CASE MaxOf(Live(r)) # r -> "leave"
                           [] Live(r) = {r}      -> "promote"
                           [] OTHER              -> "kill"
      <3>1. Goto(r, next)
        BY <1>5 DEF Decide
      <3>2. /\ next \in {"leave", "promote", "kill"}
            /\ next = "leave" \/ MaxOf(Live(r)) = r
            /\ next = "kill" => Live(r) # {r}
        BY DEF MaxOf
      <3>3. QED
        BY <3>1, <3>2
    <2>2. /\ seen' = [seen EXCEPT ![r] = IF pc'[r] = "kill" THEN @ ELSE Unseen]
          /\ UNCHANGED <<row, pid, owner, termed, old, ns, crashes, worked, strayed>>
      BY <1>5, <1>2 DEF Decide, history
    <2>3. pc'[r] = stage
      BY <1>1, <2>1 DEF Goto
    <2>4. /\ seen' \in [Runners -> [Runners -> Rows]] /\ \A q \in Runners \ {r} : seen'[q] = seen[q]
          /\ seen'[r] = IF stage = "kill" THEN seen[r] ELSE Unseen
      BY <1>1, <2>2, <2>3, UnseenRows
    <2>5. Live(r)' = IF stage = "kill" THEN Live(r) ELSE {}
      BY <2>4, UnseenRows DEF Live
    <2>6. MaxOf(Live(r)) \in Live(r) /\ \A v \in Live(r) : v <= MaxOf(Live(r))
      BY <1>5, MaxExists DEF Live
    <2>7. r \in old => stage = "leave"
      BY <1>2, <2>1, <2>6 DEF IInv, OldGiveWay
    <2>8. stage \in Stages \ (Gone \cup {"unborn", "born"})
      BY StageNames
    <2>9. stage = "kill" => Live(r)' \ {r} # {} /\ \A v \in Live(r)' : v <= r
      BY <1>5, <2>1, <2>5, <2>6
    <2>10. stage \notin {"signal", "wait", "bury", "working", "list", "list2", "decide"}
      OBVIOUS
    <2>11. \A v \in Live(r)' : OnRecord(v)
      BY <1>1, <2>5
    <2>12. \A q \in Runners : Retires(q)
      BY <2>2 DEF Retires
    <2>13. stage \in Killing => stage = "kill"
      BY <2>10 DEF Killing
    <2>14. r \in old => stage \notin Killing \cup {"promote", "working"}
      BY <2>7 DEF Killing
    <2>15. row'[r].status = "running" \/ r \in old
      BY <1>2, <1>3, <2>12, RunsOrOld DEF OnRecord
    <2>16. QED
      BY <1>1, <1>3, <2>1, <2>2, <2>4, <2>8, <2>9, <2>10, <2>11, <2>12, <2>13, <2>14, <2>15, SameOwners, StageInductive
  <1>6. QED
    BY <1>4, <1>5 DEF Decide

(* From one stage of kill_tree to the next, nobody being gone.             *)
LEMMA KillStep ==
    ASSUME IInv, NEW r \in Runners, pc[r] \in Killing, NEW stage \in {"signal", "wait", "bury"}, Goto(r, stage),
           UNCHANGED <<row, pid, seen, old, ns, crashes, worked, strayed>>, OwnersStay,
           termed' \subseteq Runners, \A q \in termed' : Alive(q),
           stage \in {"signal", "wait"} => pid[Victim(r)] # pid[r],
           stage = "bury" => ~Alive(Victim(r))
    PROVE  IInv'
  <1>1. Alive(r) /\ row[r].ns = ns /\ r \notin old
    BY DEF Alive, Gone, Killing, IInv, AliveHere, OldGiveWay
  <1>2. Live(r)' = Live(r) /\ Victim(r)' = Victim(r) /\ Victim(r) \in Runners
    BY SeenStays, VictimRuns
  <1>3. /\ \A v \in Live(r) : OnRecord(v)
        /\ Live(r) \ {r} # {} /\ \A v \in Live(r) : v <= r
    BY DEF IInv, Started, HasVictim
  <1>4. stage \in Stages \ (Gone \cup {"unborn", "born"}) /\ stage # "working"
    BY StageNames
  <1>5. /\ crashes \in Nat /\ worked \subseteq Runners /\ strayed \subseteq Runners
        /\ row \in [Runners -> Rows] /\ seen \in [Runners -> [Runners -> Rows]]
    BY DEF IInv, TypeOK
  <1>6. \A q \in Runners : Retires(q)
    BY DEF Retires
  <1>7. row'[r].status = "running" \/ r \in old
    BY <1>1, <1>6, RunsOrOld DEF Killing, OnRecord
  <1>8. QED
    BY <1>1, <1>2, <1>3, <1>4, <1>5, <1>6, <1>7, StageInductive

(* SIGKILL, whoever has the pid: the victim, another runner or a stranger. *)
LEMMA HardInductive ==
    ASSUME IInv, NEW r \in Runners, KillHard(r)
    PROVE  IInv'
  <1> DEFINE i == pid[Victim(r)]
             q == owner[i]
  <1>1. /\ pc[r] = "wait" /\ q # Nobody /\ owner' = [owner EXCEPT ![i] = Nobody]
        /\ pc' = [p \in Runners |-> CASE p = r -> "bury" [] p = q -> "killed" [] OTHER -> pc[p]]
        /\ seen' = [p \in Runners |-> IF p = q THEN Unseen ELSE seen[p]]
        /\ termed' = termed \ {q} /\ strayed' = strayed \ {q}
        /\ UNCHANGED <<row, pid, old, ns, crashes, worked>>
    BY DEF KillHard, At
  <1>2. /\ Victim(r) \in Runners \ {r} /\ i \in Pids /\ pid[r] # i /\ owner[pid[r]] = r
        /\ owner[i] = Victim(r) <=> Alive(Victim(r))
    BY <1>1, VictimRuns DEF IInv, VictimGone, Killing, PidsOwned, Alive, Gone
  <1>3. /\ pc \in [Runners -> Stages] /\ seen \in [Runners -> [Runners -> Rows]] /\ crashes \in Nat
        /\ worked \subseteq Runners /\ strayed \subseteq Runners /\ row \in [Runners -> Rows]
        /\ owner \in [Pids -> Runners \cup {Nobody, Stranger}]
        /\ termed \subseteq Runners /\ \A p \in termed : Alive(p)
    BY TermedAlive DEF IInv, TypeOK
  <1>4. CASE q \notin Runners
    <2>1. q = Stranger
      BY <1>1, <1>2, <1>3, <1>4
    <2>2. Goto(r, "bury")
      BY <1>1, <1>3, <1>4 DEF Goto
    <2>3. UNCHANGED <<row, pid, seen, old, ns, crashes, worked, strayed, termed>>
      BY <1>1, <1>3, <1>4
    <2>4. OwnersStay
      BY <1>1, <1>3, <2>1 DEF OwnersStay
    <2>5. ~Alive(Victim(r))
      BY <1>2, <1>4
    <2>6. QED
      BY <1>1, <1>3, <2>2, <2>3, <2>4, <2>5, KillStep DEF Killing
  <1>5. CASE q \in Runners
    <2>1. Alive(q) /\ pid[q] = i /\ q # r
      BY <1>2, <1>5 DEF IInv, PidsOwned
    <2>2. /\ pc' \in [Runners -> Stages] /\ pc'[q] = "killed" /\ pc'[r] = "bury"
          /\ \A p \in Runners \ {q, r} : pc'[p] = pc[p]
      BY <1>1, <1>3, <1>5, <2>1 DEF Stages
    <2>3. Dies(q, "killed")
      BY <1>1, <1>3, <1>5, <2>1, <2>2, UnseenRows DEF Dies
    <2>4. \A p \in Runners : Retires(p)
      BY <1>1 DEF Retires
    <2>5. QED
      BY <1>1, <1>3, <1>5, <2>1, <2>2, <2>3, <2>4, DiesInductive DEF Gone
  <1>6. QED
    BY <1>4, <1>5

(* The row that kill_tree saves is of a process that is gone.              *)
LEMMA BuryInductive ==
    ASSUME IInv, NEW r \in Runners, Bury(r)
    PROVE  IInv'
  <1>1. /\ pc[r] = "bury"
        /\ row' = [row EXCEPT ![Victim(r)] = [seen[r][Victim(r)] EXCEPT !.status = "exited"]]
        /\ seen' = [seen EXCEPT ![r][Victim(r)] = NoRow]
        /\ Goto(r, IF Live(r) \ {r, Victim(r)} = {} THEN "cleanup" ELSE "kill")
        /\ strayed' = strayed \ {r}
        /\ UNCHANGED <<pid, owner, termed, old, ns, crashes, worked>>
    BY DEF Bury, At
  <1>2. /\ Victim(r) \in Live(r) \ {r} /\ Victim(r) \in Runners \ {r} /\ ~Alive(Victim(r))
        /\ Live(r) \ {r} # {} /\ \A v \in Live(r) : v <= r
    BY <1>1, VictimRuns DEF IInv, VictimGone, HasVictim, Killing
  <1>3. /\ seen \in [Runners -> [Runners -> Rows]] /\ row \in [Runners -> Rows] /\ crashes \in Nat
        /\ worked \subseteq Runners /\ strayed \subseteq Runners
        /\ termed \subseteq Runners /\ \A q \in termed : Alive(q)
        /\ \A v \in Live(r) : OnRecord(v)
    BY TermedAlive DEF IInv, TypeOK, Started
  <1>4. Alive(r) /\ row[r].ns = ns /\ r \notin old
    BY <1>1 DEF Alive, Gone, Killing, IInv, AliveHere, OldGiveWay
  <1>5. PICK stage \in {"cleanup", "kill"} :
          Goto(r, stage) /\ (stage = "kill" => Live(r) \ {r, Victim(r)} # {})
    BY <1>1
  <1>6. NoRow \in Rows /\ NoRow.status # "running"
    BY DEF NoRow, Rows
  <1>7. /\ seen' \in [Runners -> [Runners -> Rows]] /\ \A q \in Runners \ {r} : seen'[q] = seen[q]
        /\ seen'[r] = [seen[r] EXCEPT ![Victim(r)] = NoRow]
    BY <1>1, <1>2, <1>3, <1>6
  <1>8. Live(r)' = Live(r) \ {Victim(r)}
    BY <1>2, <1>3, <1>6, <1>7 DEF Live
  <1>9. /\ [seen[r][Victim(r)] EXCEPT !.status = "exited"] \in Rows
        /\ [seen[r][Victim(r)] EXCEPT !.status = "exited"].status = "exited"
    <2>1. seen[r][Victim(r)] \in Rows
      BY <1>2, <1>3
    <2>2. QED
      BY <2>1 DEF Rows
  <1>10. /\ row' \in [Runners -> Rows] /\ row'[Victim(r)].status = "exited"
         /\ \A q \in Runners \ {Victim(r)} : row'[q] = row[q]
    BY <1>1, <1>2, <1>3, <1>9
  <1>11. \A q \in Runners : Retires(q)
    BY <1>2, <1>10 DEF Retires, Alive, Gone
  <1>12. stage \in Stages \ (Gone \cup {"unborn", "born"}) /\ stage \notin {"signal", "wait", "bury", "working"}
    BY StageNames
  <1>13. stage = "kill" => Live(r)' \ {r} # {}
    BY <1>5, <1>8
  <1>14. stage \in Killing => stage = "kill"
    BY <1>12 DEF Killing
  <1>15. row'[r].ns = ns /\ \A v \in Live(r)' : OnRecord(v) /\ v <= r
    BY <1>2, <1>3, <1>4, <1>8, <1>10
  <1>16. row'[r].status = "running" \/ r \in old
    BY <1>1, <1>4, <1>11, RunsOrOld DEF OnRecord
  <1>17. QED
    BY <1>1, <1>3, <1>4, <1>5, <1>7, <1>10, <1>11, <1>12, <1>13, <1>14, <1>15, <1>16, SameOwners, StageInductive

LEMMA KillInductive ==
    ASSUME IInv, NEW r \in Runners, KillLook(r) \/ KillTerm(r) \/ KillPoll(r) \/ KillHard(r) \/ Bury(r)
    PROVE  IInv'
  <1>1. pc[r] \in Killing /\ Alive(r) /\ owner[pid[r]] = r
    BY DEF KillLook, KillTerm, KillPoll, KillHard, Bury, At, Killing, Alive, Gone, IInv, PidsOwned
  <1>2. /\ Victim(r) \in Runners \ {r} /\ pid[Victim(r)] \in Pids
        /\ owner[pid[Victim(r)]] = Victim(r) <=> Alive(Victim(r))
    BY <1>1, VictimRuns
  <1>3. termed \subseteq Runners /\ \A q \in termed : Alive(q)
    BY TermedAlive
  <1>4. CASE KillLook(r)
    <2>1. UNCHANGED <<row, pid, owner, seen, termed, old, ns, crashes, worked, strayed>>
      BY <1>4 DEF KillLook, history
    <2>2. CASE IsRunning(Victim(r))
      <3>1. Goto(r, "signal") /\ owner[pid[Victim(r)]] = Victim(r)
        BY <1>4, <2>2 DEF KillLook, IsRunning
      <3>2. QED
        BY <1>1, <1>2, <1>3, <2>1, <3>1, SameOwners, KillStep
    <2>3. CASE ~IsRunning(Victim(r))
      <3>1. Goto(r, "bury")
        BY <1>4, <2>3 DEF KillLook
      <3>2. ~Alive(Victim(r))
        <4>1. Victim(r) \in Runners /\ (Alive(Victim(r)) /\ pc[Victim(r)] # "born" => row[Victim(r)].ns = ns)
          BY <1>2 DEF IInv, AliveHere
        <4>2. pc[Victim(r)] # "born"
          BY <1>1, VictimRuns DEF OnRecord
        <4>3. QED
          BY <1>2, <2>3, <4>1, <4>2 DEF IsRunning, SharesNamespace
      <3>3. QED
        BY <1>1, <1>3, <2>1, <3>1, <3>2, SameOwners, KillStep
    <2>4. QED
      BY <2>2, <2>3
  <1>5. CASE KillTerm(r)
    <2>1. pc[r] = "signal" /\ UNCHANGED <<row, pid, seen, old, ns, crashes, worked, strayed>>
      BY <1>5 DEF KillTerm, At, history
    <2>2. pid[Victim(r)] # pid[r]
      BY <2>1 DEF IInv, VictimGone
    <2>3. CASE owner[pid[Victim(r)]] # Victim(r) /\ Goto(r, "bury") /\ UNCHANGED <<owner, termed>>
      BY <1>1, <1>2, <1>3, <2>1, <2>3, SameOwners, KillStep
    <2>4. CASE /\ termed' = termed \cup (Runners \cap {owner[pid[Victim(r)]]})
               /\ owner' = [owner EXCEPT ![pid[Victim(r)]] = IF @ = Stranger THEN Nobody ELSE @]
               /\ Goto(r, "wait")
      <3>1. termed' \subseteq Runners /\ \A q \in termed' : Alive(q)
        BY <1>2, <1>3, <2>4 DEF IInv, PidsOwned
      <3>2. CASE owner[pid[Victim(r)]] # Stranger
        <4>1. owner' = owner
          BY <2>4, <3>2 DEF IInv, TypeOK
        <4>2. QED
          BY <1>1, <2>1, <2>2, <2>4, <3>1, <4>1, SameOwners, KillStep
      <3>3. CASE owner[pid[Victim(r)]] = Stranger
        <4>1. OwnersStay
          BY <1>2, <2>4, <3>3 DEF IInv, TypeOK, OwnersStay
        <4>2. QED
          BY <1>1, <2>1, <2>2, <2>4, <3>1, <4>1, KillStep
      <3>4. QED
        BY <3>2, <3>3
    <2>5. QED
      BY <1>5, <2>3, <2>4 DEF KillTerm
  <1>6. CASE KillPoll(r)
    <2>1. /\ Goto(r, "bury") /\ owner[pid[Victim(r)]] = Nobody
          /\ UNCHANGED <<row, pid, owner, seen, termed, old, ns, crashes, worked, strayed>>
      BY <1>6 DEF KillPoll, history
    <2>2. ~Alive(Victim(r))
      BY <1>2, <2>1, PidAssumption
    <2>3. QED
      BY <1>1, <1>3, <2>1, <2>2, SameOwners, KillStep
  <1>7. CASE KillHard(r)
    BY <1>7, HardInductive
  <1>8. CASE Bury(r)
    BY <1>8, BuryInductive
  <1>9. QED
    BY <1>4, <1>5, <1>6, <1>7, <1>8

(* Promotion, work, and the end of it.                                     *)
LEMMA WorkInductive ==
    ASSUME IInv, NEW r \in Runners,
           Promote(r) \/ Recover(r) \/ Finish(r) \/ Leave(r) \/ TermDies(r) \/ Crash(r)
    PROVE  IInv'
  <1>1. /\ row \in [Runners -> Rows] /\ seen \in [Runners -> [Runners -> Rows]] /\ pc \in [Runners -> Stages]
        /\ ns \in Nat /\ crashes \in Nat
        /\ termed \subseteq Runners /\ \A q \in termed : Alive(q)
        /\ worked \subseteq Runners /\ strayed \subseteq Runners
        /\ \A v \in Live(r) : OnRecord(v)
    BY TermedAlive DEF IInv, TypeOK, Started
  <1>2. {"ended", "crashed", "killed"} \subseteq Gone
    BY DEF Gone
  <1>3. CASE Promote(r)
    <2> DEFINE taken == \E v \in Runners \ {r} : Running(v) /\ row[v].role = "worker_runner"
    <2>1. /\ pc[r] = "promote" /\ Alive(r) /\ UNCHANGED <<pid, owner, seen, termed, old, ns, crashes, strayed>>
          /\ worked' \subseteq Runners
      BY <1>1, <1>3 DEF Promote, At, Alive, Gone
    <2>L. Live(r)' = Live(r)
      BY <2>1, SeenStays
    <2>2. row[r].ns = ns /\ r \notin old
      BY <2>1 DEF IInv, AliveHere, OldGiveWay
    <2>3. CASE taken
      <3>1. Goto(r, "cleanup") /\ UNCHANGED row
        BY <1>3, <2>3 DEF Promote
      <3>2. "cleanup" \in Stages \ (Gone \cup {"unborn", "born"})
        BY StageNames
      <3>3. row'[r].status = "running" \/ r \in old
        BY <2>1, <3>1, SameRows, RunsOrOld DEF OnRecord
      <3>4. QED
        BY <1>1, <2>1, <2>2, <2>L, <3>1, <3>2, <3>3, SameRows, SameOwners, StageInductive DEF Killing
    <2>4. CASE ~taken
      <3>1. Goto(r, "working") /\ Mark(r, "worker_runner")
        BY <1>3, <2>4 DEF Promote
      <3>2. /\ row' \in [Runners -> Rows] /\ \A q \in Runners \ {r} : Retires(q)
            /\ row'[r] = [status |-> "running", role |-> "worker_runner", ns |-> ns]
        BY <1>1, <3>1, MarkedRow DEF Retires
      <3>3. \A q \in Runners \ {r} : pc[q] # "working"
        BY <2>4 DEF IInv, WorkerOnRecord, Working
      <3>4. "working" \in Stages \ (Gone \cup {"unborn", "born"})
        BY StageNames
      <3>5. QED
        BY <1>1, <2>1, <2>2, <3>1, <3>2, <3>3, <3>4, <2>L, SameOwners, StageInductive DEF Killing
    <2>5. QED
      BY <2>3, <2>4
  <1>4. ASSUME pc[r] = "working"
        PROVE  /\ r \notin old /\ row[r].ns = ns /\ Alive(r) /\ IsRunning(r)
               /\ row[r].status = "running" /\ row[r].role = "worker_runner"
               /\ \A q \in Runners \ {r} : pc[q] # "working"
    BY <1>4, WorkingRuns DEF IInv, AliveHere, Alive, Gone, WorkerOnRecord, Working, OneWorks, Running
  <1>5. CASE Recover(r)
    <2>1. pc[r] = "working" /\ row' = Exited(Stale) /\ UNCHANGED <<pc, pid, owner, seen, termed, old, ns, crashes, worked, strayed>>
      BY <1>5 DEF Recover, At, history
    <2>L. Live(r)' = Live(r)
      BY <2>1, SeenStays
    <2>2. Goto(r, "working")
      BY <1>1, <2>1 DEF Goto
    <2>3. \A q \in Stale \cap Runners : ~Alive(q) \/ q \in old
      BY UnseenDead DEF Stale
    <2>4. row' \in [Runners -> Rows] /\ \A q \in Runners : Retires(q)
      BY <2>1, <2>3, ExitedRetires
    <2>5. row'[r] = row[r]
      <3>1. r \notin Stale
        BY <1>4, <2>1, <2>3
      <3>2. QED
        BY <1>1, <2>1, <3>1, ExitedRows
    <2>6. "working" \in Stages \ (Gone \cup {"unborn", "born"})
      BY StageNames
    <2>7. QED
      BY <1>1, <1>4, <2>1, <2>2, <2>4, <2>5, <2>6, <2>L, SameOwners, StageInductive DEF Killing
  <1>6. CASE Finish(r)
    <2>1. "leave" \in Stages \ (Gone \cup {"unborn", "born"})
      BY StageNames
    <2>2. pc[r] = "working" /\ Goto(r, "leave") /\ UNCHANGED <<row, pid, owner, seen, termed, old, ns, crashes, worked, strayed>>
      BY <1>6 DEF Finish, At, history
    <2>L. Live(r)' = Live(r)
      BY <2>2, SeenStays
    <2>3. QED
      BY <1>1, <1>4, <2>1, <2>2, <2>L, SameRows, SameOwners, StageInductive DEF Killing
  <1>7. CASE Leave(r)
    <2>1. pc[r] = "leave" /\ row' = Exited({r}) /\ Vanish(r, "ended") /\ UNCHANGED crashes
      BY <1>7 DEF Leave, At
    <2>2. row' \in [Runners -> Rows] /\ \A q \in Runners \ {r} : Retires(q)
      BY <1>1, <2>1, ExitedRows DEF Retires
    <2>3. QED
      BY <1>1, <1>2, <2>1, <2>2, VanishInductive DEF Alive, Gone
  <1>8. CASE TermDies(r)
    <2>1. Alive(r) /\ Vanish(r, "killed") /\ UNCHANGED <<row, crashes>>
      BY <1>1, <1>8 DEF TermDies
    <2>2. QED
      BY <1>1, <1>2, <2>1, SameRows, VanishInductive
  <1>9. CASE Crash(r)
    <2>1. Alive(r) /\ Vanish(r, "crashed") /\ UNCHANGED row /\ crashes' \in Nat
      BY <1>1, <1>9 DEF Crash, Alive
    <2>2. QED
      BY <1>1, <1>2, <2>1, SameRows, VanishInductive
  <1>10. QED
    BY <1>3, <1>5, <1>6, <1>7, <1>8, <1>9

-----------------------------------------------------------------------------
LEMMA Initially == Init => IInv
  <1>1. NoRow \in Rows
    BY DEF NoRow, Rows
  <1>2. SUFFICES ASSUME Init PROVE IInv
    OBVIOUS
  <1>3. TypeOK
    BY <1>1, <1>2, UnseenRows DEF Init, TypeOK, Stages
  <1>4. PidsOwned
    BY <1>2, PidAssumption DEF Init, PidsOwned, Alive
  <1>5. \A r \in Runners : row[r].status # "running"
    BY <1>2 DEF Init, NoRow
  <1>S. \A r \in Runners : Live(r) = {}
    BY <1>2, UnseenRows DEF Init, Live
  <1>6. Started /\ AliveHere /\ HasVictim /\ VictimGone /\ OldGiveWay /\ WorkerOnRecord /\ OneWorks
    BY <1>2, <1>5, <1>S DEF Init, Started, AliveHere, HasVictim, VictimGone, OldGiveWay, WorkerOnRecord, OneWorks,
       Working, Alive, Running, Killing
  <1>7. Recorded /\ OldOnes /\ NewerOnly
    BY <1>2, <1>S DEF Init, Recorded, OldOnes, NewerOnly, OnRecord
  <1>8. QED
    BY <1>3, <1>4, <1>6, <1>7 DEF IInv

(* A runner is started with a free pid.                                    *)
LEMMA StartInductive ==
    ASSUME IInv, NEW r \in Runners, Start(r)
    PROVE  IInv'
  <1>1. PICK i \in Pids : /\ owner[i] = Nobody /\ pid' = [pid EXCEPT ![r] = i] /\ owner' = [owner EXCEPT ![i] = r]
    BY DEF Start, FreePid
  <1>2. /\ pc[r] = "unborn" /\ UNCHANGED <<row, seen, termed, old, ns, crashes, worked>>
        /\ TypeOK /\ pc' = [pc EXCEPT ![r] = "born"] /\ strayed' \subseteq Runners
    BY DEF Start, At, Goto, IInv, TypeOK, AimAt
  <1>3. /\ pc' \in [Runners -> Stages] /\ pc'[r] = "born" /\ \A q \in Runners \ {r} : pc'[q] = pc[q]
        /\ pid' \in [Runners -> Pids \cup {0}] /\ pid'[r] = i /\ \A q \in Runners \ {r} : pid'[q] = pid[q]
        /\ owner' \in [Pids -> Runners \cup {Nobody, Stranger}]
        /\ owner'[i] = r /\ \A j \in Pids \ {i} : owner'[j] = owner[j]
    BY <1>1, <1>2 DEF TypeOK, Stages
  <1>4. TypeOK'
    BY <1>2, <1>3 DEF TypeOK
  <1>5. Alive(r)' /\ ~Alive(r) /\ \A q \in Runners \ {r} : Alive(q)' <=> Alive(q)
    BY <1>2, <1>3 DEF Alive, Gone
  <1>6. PidsOwned'
    <2>1. \A q \in Runners : pc'[q] # "unborn" => pid'[q] \in Pids
      BY <1>3 DEF IInv, PidsOwned
    <2>2. ASSUME NEW q \in Runners, NEW j \in Pids
          PROVE  owner'[j] = q <=> Alive(q)' /\ pid'[q] = j
      <3>1. CASE q = r
        BY <1>2, <1>3, <1>5, <3>1 DEF IInv, PidsOwned
      <3>2. CASE q # r
        <4>1. owner[j] = q <=> Alive(q) /\ pid[q] = j
          BY DEF IInv, PidsOwned
        <4>2. j = i => owner[j] # q
          BY <1>1, PidAssumption
        <4>3. QED
          BY <1>3, <1>5, <3>2, <4>1, <4>2
      <3>3. QED
        BY <3>1, <3>2
    <2>3. QED
      BY <2>1, <2>2 DEF PidsOwned
  <1>S. \A q \in Runners : Live(q)' = Live(q) /\ Victim(q)' = Victim(q)
    BY <1>2, SeenStays
  <1>R. \A q \in Runners : OnRecord(q) => q # r /\ OnRecord(q)'
    BY <1>2, <1>3 DEF OnRecord
  <1>7. Started' /\ HasVictim' /\ OldGiveWay' /\ OneWorks'
    <2>1. Started'
      <3>1. \A q \in Runners : Live(q) \subseteq Runners
        BY DEF Live
      <3>2. QED
        BY <1>2, <1>S, <1>R, <3>1 DEF IInv, Started, Running
    <2>2. HasVictim'
      BY <1>2, <1>3, <1>S DEF IInv, HasVictim, Killing
    <2>3. OldGiveWay'
      BY <1>2, <1>3, <1>S DEF IInv, OldGiveWay, Running, Killing, TypeOK
    <2>4. QED
      BY <1>2, <1>3, <2>1, <2>2, <2>3 DEF IInv, OneWorks, Working
  <1>V. VictimGone'
    <2> SUFFICES ASSUME NEW q \in Runners, pc'[q] \in {"signal", "wait", "bury"}
                 PROVE  /\ pc'[q] \in {"signal", "wait"} => pid'[Victim(q)'] # pid'[q]
                        /\ pc'[q] = "bury" => ~(Alive(Victim(q))')
      BY DEF VictimGone
    <2>1. q # r /\ pc[q] = pc'[q] /\ pc[q] \in Killing
      BY <1>3 DEF Killing
    <2>2. Victim(q) \in Runners \ {r} /\ Victim(q)' = Victim(q)
      BY <1>2, <1>S, <2>1, VictimRuns DEF OnRecord
    <2>3. pid'[q] = pid[q] /\ pid'[Victim(q)] = pid[Victim(q)]
      BY <1>3, <2>1, <2>2
    <2>4. Alive(Victim(q))' <=> Alive(Victim(q))
      <3>1. pc'[Victim(q)'] = pc[Victim(q)]
        BY <1>3, <2>2
      <3>2. QED
        BY <3>1 DEF Alive
    <2>5. QED
      BY <2>1, <2>2, <2>3, <2>4 DEF IInv, VictimGone
  <1>8. AliveHere'
    BY <1>2, <1>3, <1>5 DEF IInv, AliveHere, TypeOK
  <1>9. WorkerOnRecord'
    BY <1>2, <1>3 DEF IInv, WorkerOnRecord, Working, Running
  <1>N. Recorded' /\ OldOnes' /\ NewerOnly'
    <2>1. Recorded'
      BY <1>2, <1>3, <1>5 DEF IInv, Recorded, OnRecord, Running
    <2>2. OldOnes'
      <3>1. \A q \in Runners : pc'[q] = "standby" => q \in Daemons
        BY <1>3 DEF IInv, OldOnes
      <3>2. \A q \in old : q # r
        BY <1>2 DEF IInv, OldOnes
      <3>3. QED
        BY <1>2, <1>5, <3>1, <3>2 DEF IInv, OldOnes, TypeOK
    <2>3. NewerOnly'
      BY <1>2, <1>3, <1>S DEF IInv, NewerOnly
    <2>4. QED
      BY <2>1, <2>2, <2>3
  <1>10. QED
    BY <1>4, <1>6, <1>7, <1>V, <1>8, <1>9, <1>N DEF IInv

(* What the rest of the machine does.                                      *)
LEMMA MachineInductive ==
    ASSUME IInv, AgesAt \subseteq {"standby"},
           (\E r \in Runners : Age(r)) \/ (\E i \in Pids : StrangerComes(i)) \/ Restart
    PROVE  IInv'
  <1>1. CASE \E r \in Runners : Age(r)
    <2>1. PICK r \in Runners : Age(r)
      BY <1>1
    <2>2. UNCHANGED <<pc, row, pid, owner, seen, termed, ns, crashes, worked, strayed>> /\ old' = old \cup 1..r
      BY <2>1 DEF Age, history
    <2>3. \A q \in 1..r : q \in old \/ pc[q] \in Gone \cup {"standby"}
      <3>1. /\ pc[r] \in AgesAt
            /\ \A q \in 1..(r - 1) : q \in old \/ pc[q] \in Gone \cup AgesAt
        BY <2>1 DEF Age
      <3>2. \A q \in 1..r : q = r \/ q \in 1..(r - 1)
        BY NAssumption DEF Runners
      <3>3. QED
        BY <3>1, <3>2
    <2>4. 1..r \subseteq Runners
      BY NAssumption DEF Runners
    <2>5. TypeOK'
      BY <2>2, <2>4 DEF IInv, TypeOK
    <2>6. OldGiveWay'
      BY <2>2, <2>3 DEF IInv, OldGiveWay, Gone, Running, Live, Killing
    <2>7. PidsOwned' /\ Started' /\ AliveHere' /\ WorkerOnRecord' /\ OneWorks'
      BY <2>2 DEF IInv, PidsOwned, Started, AliveHere, WorkerOnRecord, OneWorks, Working, Alive, Running, OnRecord, Live
    <2>8. HasVictim' /\ VictimGone'
      BY <2>2 DEF IInv, HasVictim, VictimGone, Alive, Live, Victim
    <2>N. Recorded' /\ OldOnes' /\ NewerOnly'
      <3>1. Recorded' /\ NewerOnly'
        BY <2>2 DEF IInv, Recorded, NewerOnly, Alive, OnRecord, Running, Live
      <3>2. \A q \in old' : pc'[q] # "unborn" /\ (Alive(q)' => q \in Daemons) /\ \A p \in Runners : p < q => p \in old'
        <4>1. \A q \in 1..r : \A p \in Runners : p < q => p \in 1..r
          BY NAssumption DEF Runners
        <4>2. \A q \in 1..r : q \in Runners /\ pc[q] # "unborn" /\ (Alive(q) => q \in Daemons)
          BY <2>3, <2>4 DEF IInv, OldOnes, Alive, Gone
        <4>3. \A q \in old : q \in Runners /\ pc[q] # "unborn" /\ (Alive(q) => q \in Daemons) /\ \A p \in Runners : p < q => p \in old
          BY DEF IInv, OldOnes, TypeOK
        <4>4. \A q \in Runners : Alive(q)' <=> Alive(q)
          BY <2>2 DEF Alive
        <4>5. QED
          BY <2>2, <4>1, <4>2, <4>3, <4>4
      <3>3. OldOnes'
        BY <2>2, <3>2 DEF IInv, OldOnes
      <3>4. QED
        BY <3>1, <3>3
    <2>9. QED
      BY <2>5, <2>6, <2>7, <2>8, <2>N DEF IInv
  <1>2. CASE \E i \in Pids : StrangerComes(i)
    <2>1. PICK i \in Pids : StrangerComes(i)
      BY <1>2
    <2>2. /\ owner[i] = Nobody /\ owner' = [owner EXCEPT ![i] = Stranger]
          /\ UNCHANGED <<pc, row, pid, seen, termed, old, ns, crashes, worked>>
          /\ strayed' = strayed \cup AimAt(i)
      BY <2>1 DEF StrangerComes, FreePid
    <2>3. /\ owner' \in [Pids -> Runners \cup {Nobody, Stranger}]
          /\ owner'[i] = Stranger /\ \A j \in Pids \ {i} : owner'[j] = owner[j]
      BY <2>2 DEF IInv, TypeOK
    <2>4. TypeOK'
      BY <2>2, <2>3 DEF IInv, TypeOK, AimAt
    <2>5. PidsOwned'
      BY <2>2, <2>3, PidAssumption DEF IInv, PidsOwned, Alive
    <2>6. Started' /\ AliveHere' /\ OldGiveWay' /\ WorkerOnRecord' /\ OneWorks'
      BY <2>2 DEF IInv, Started, AliveHere, OldGiveWay, WorkerOnRecord, OneWorks, Working, Alive, Running, OnRecord, Live
    <2>7. HasVictim' /\ VictimGone'
      BY <2>2 DEF IInv, HasVictim, VictimGone, Alive, Live, Victim
    <2>8. Recorded' /\ OldOnes' /\ NewerOnly'
      BY <2>2 DEF IInv, Recorded, OldOnes, NewerOnly, Alive, OnRecord, Running, Live
    <2>9. QED
      BY <2>4, <2>5, <2>6, <2>7, <2>8 DEF IInv
  <1>3. CASE Restart
    <2>1. /\ ns' = ns + 1 /\ owner' = [i \in Pids |-> Nobody] /\ termed' = {} /\ strayed' = {}
          /\ seen' = [r \in Runners |-> Unseen]
          /\ pc' = [r \in Runners |-> IF pc[r] \in Gone \cup {"unborn"} THEN pc[r] ELSE "crashed"]
          /\ UNCHANGED <<row, pid, old, crashes, worked>>
      BY <1>3 DEF Restart
    <2>2. \A r \in Runners : /\ pc'[r] \in Gone \cup {"unborn"} /\ (pc'[r] = "unborn" <=> pc[r] = "unborn")
                             /\ OnRecord(r) => OnRecord(r)'
      BY <2>1 DEF Gone, OnRecord
    <2>3. TypeOK'
      BY <2>1, UnseenRows DEF IInv, TypeOK, Stages
    <2>S. \A r \in Runners : Live(r)' = {}
      BY <2>1, UnseenRows DEF Live
    <2>4. \A r \in Runners : ~Alive(r)'
      BY <2>2 DEF Alive
    <2>5. PidsOwned'
      BY <2>1, <2>2, <2>4, PidAssumption DEF IInv, PidsOwned
    <2>6. AliveHere'
      BY <2>1, <2>4 DEF AliveHere
    <2>7. Started' /\ HasVictim' /\ VictimGone' /\ OldGiveWay' /\ WorkerOnRecord' /\ OneWorks'
      BY <2>1, <2>2, <2>S DEF IInv, TypeOK, Started, HasVictim, VictimGone, OldGiveWay, WorkerOnRecord, OneWorks,
         Working, Running, Gone, Killing
    <2>8. Recorded' /\ OldOnes' /\ NewerOnly'
      BY <2>1, <2>2, <2>4 DEF IInv, TypeOK, Recorded, OldOnes, NewerOnly, Gone
    <2>9. QED
      BY <2>3, <2>5, <2>6, <2>7, <2>8 DEF IInv
  <1>4. QED
    BY <1>1, <1>2, <1>3

LEMMA NextInductive == ASSUME AgesAt \subseteq {"standby"}, IInv, [Next]_vars PROVE IInv'
  <1>1. ASSUME NEW r \in Runners, Start(r) \/ Gate(r) \/ Recover(r) \/ Finish(r) \/ TermDies(r) \/ Crash(r)
        PROVE  IInv'
    BY <1>1, StartInductive, EntryInductive, DecideInductive, KillInductive, WorkInductive DEF Gate
  <1>2. CASE UNCHANGED vars
    <2>1. UNCHANGED <<pc, row, pid, owner, seen, termed, old, ns, crashes, worked, strayed>>
      BY <1>2 DEF vars
    <2>2. TypeOK' /\ PidsOwned' /\ AliveHere' /\ WorkerOnRecord' /\ OneWorks'
      BY <2>1 DEF IInv, TypeOK, PidsOwned, AliveHere, WorkerOnRecord, OneWorks, Working, Alive, Running
    <2>3. Started' /\ HasVictim' /\ VictimGone' /\ OldGiveWay'
      BY <2>1 DEF IInv, Started, HasVictim, VictimGone, OldGiveWay, Alive, Running, OnRecord, Live, Victim
    <2>4. Recorded' /\ OldOnes' /\ NewerOnly'
      BY <2>1 DEF IInv, Recorded, OldOnes, NewerOnly, Alive, OnRecord, Running, Live
    <2>5. QED
      BY <2>2, <2>3, <2>4 DEF IInv
  <1>3. QED
    BY <1>1, <1>2, MachineInductive DEF Next

THEOREM Invariance == ASSUME AgesAt \subseteq {"standby"} PROVE Spec => []IInv
  BY Initially, NextInductive, PTL DEF Spec

(* The runner at work is on record as long as it works.                    *)
THEOREM WorkerOnRecordAlways == ASSUME AgesAt \subseteq {"standby"} PROVE Spec => []WorkerOnRecord
  <1>1. IInv => WorkerOnRecord
    BY DEF IInv
  <1>2. QED
    BY <1>1, Invariance, PTL

(* Runner work never overlaps on one machine, whoever starts, dies or is   *)
(* stopped, whichever pids are used again.                                 *)
THEOREM OneRunnerWorksAlways == ASSUME AgesAt \subseteq {"standby"} PROVE Spec => []OneRunnerWorks
  <1>1. IInv => OneRunnerWorks
    <2> SUFFICES ASSUME IInv PROVE Cardinality(Working) <= 1
      BY DEF OneRunnerWorks
    <2>1. CASE Working = {}
      BY <2>1, FS_EmptySet
    <2>2. CASE \E r \in Working : Working = {r}
      <3>1. PICK r \in Working : Working = {r}
        BY <2>2
      <3>2. Cardinality({r}) = 1
        BY FS_Singleton
      <3>3. QED
        BY <3>1, <3>2
    <2>3. QED
      BY <2>1, <2>2 DEF IInv, OneWorks
  <1>2. QED
    BY <1>1, Invariance, PTL

THEOREM TypeCorrect == ASSUME AgesAt \subseteq {"standby"} PROVE Spec => []TypeOK
  <1>1. IInv => TypeOK
    BY DEF IInv
  <1>2. QED
    BY <1>1, Invariance, PTL

-----------------------------------------------------------------------------
(* Since kill_tree looked whose the pid is, it has been the victim's, or   *)
(* nobody's, or it has been given to another.                              *)
Watched(r) == r \in strayed \/ owner[pid[Victim(r)]] \in {Victim(r), Nobody}
Watching == {"signal", "wait"}
AllWatched == \A r \in Runners : pc[r] \in Watching => Watched(r)

(* What a step may do to a runner that goes on watching a pid.             *)
Watches(r) ==
    /\ pc[r] \in Watching /\ seen'[r] = seen[r] /\ pid'[Victim(r)] = pid[Victim(r)]
    /\ r \in strayed => r \in strayed'
    /\ \/ owner'[pid[Victim(r)]] \in {owner[pid[Victim(r)]], Nobody}
       \/ r \in strayed'

LEMMA WatchedStays ==
    ASSUME IInv, AllWatched, NEW r \in Runners, Watches(r)
    PROVE  Watched(r)'
  <1>1. Victim(r)' = Victim(r) /\ Watched(r)
    BY SeenStays DEF Watches, AllWatched
  <1>2. QED
    BY <1>1 DEF Watches, Watched

LEMMA VanishWatches ==
    ASSUME IInv, NEW q \in Runners, NEW stage \in Gone, Alive(q), Vanish(q, stage),
           NEW r \in Runners, pc'[r] \in Watching
    PROVE  Watches(r)
  <1>1. pc'[q] = stage /\ \A p \in Runners \ {q} : pc'[p] = pc[p] /\ seen'[p] = seen[p]
    BY DEF Vanish, Goto, IInv, TypeOK
  <1>2. r # q /\ pc[r] \in Watching
    BY <1>1 DEF Watching, Gone
  <1>3. \A i \in Pids : owner'[i] \in {owner[i], Nobody}
    BY DEF Vanish, IInv, TypeOK
  <1>4. pid[Victim(r)] \in Pids
    BY <1>2, VictimRuns DEF Killing, Watching
  <1>5. QED
    BY <1>1, <1>2, <1>3, <1>4 DEF Watches, Vanish

(* A pid that is given away is strayed for those that know it.             *)
LEMMA GivenStrays ==
    ASSUME IInv, NEW i \in Pids, NEW new, owner' = [owner EXCEPT ![i] = new], strayed' = strayed \cup AimAt(i),
           NEW r \in Runners, pc[r] \in Watching, seen'[r] = seen[r], pid'[Victim(r)] = pid[Victim(r)]
    PROVE  Watches(r)
  <1>1. pid[Victim(r)] \in Pids
    BY VictimRuns DEF Killing, Watching
  <1>2. CASE pid[Victim(r)] = i
    BY <1>2 DEF Watches, AimAt, Watching
  <1>3. CASE pid[Victim(r)] # i
    BY <1>1, <1>3 DEF Watches, IInv, TypeOK
  <1>4. QED
    BY <1>2, <1>3

LEMMA WatchedInductive ==
    ASSUME IInv, AllWatched, [Next]_vars
    PROVE  AllWatched'
  <1> SUFFICES ASSUME NEW r \in Runners, pc'[r] \in Watching
               PROVE  Watched(r)'
    BY DEF AllWatched
  <1>T. /\ pc \in [Runners -> Stages] /\ seen \in [Runners -> [Runners -> Rows]]
        /\ owner \in [Pids -> Runners \cup {Nobody, Stranger}]
    BY DEF IInv, TypeOK
  <1>W. pc[r] \in Watching => pid[Victim(r)] \in Pids /\ Victim(r) \in Runners /\ OnRecord(Victim(r))
    BY VictimRuns DEF Killing, Watching
  <1>1. ASSUME NEW q \in Runners, Start(q)
        PROVE  Watched(r)'
    <2>1. PICK i \in Pids : /\ pid' = [pid EXCEPT ![q] = i] /\ owner' = [owner EXCEPT ![i] = q]
                            /\ strayed' = strayed \cup AimAt(i)
      BY <1>1 DEF Start
    <2>2. pc[q] = "unborn" /\ pc' = [pc EXCEPT ![q] = "born"] /\ seen' = seen
      BY <1>1 DEF Start, At, Goto
    <2>3. pc[r] \in Watching
      BY <1>T, <2>2 DEF Watching
    <2>4. pid'[Victim(r)] = pid[Victim(r)]
      BY <1>W, <2>1, <2>2, <2>3 DEF OnRecord, IInv, TypeOK
    <2>5. QED
      BY <2>1, <2>2, <2>3, <2>4, GivenStrays, WatchedStays
  <1>2. ASSUME NEW i \in Pids, StrangerComes(i)
        PROVE  Watched(r)'
    BY <1>2, GivenStrays, WatchedStays DEF StrangerComes
  <1>3. ASSUME NEW q \in Runners, NEW stage \in Stages \ Watching, Goto(q, stage) \/ UNCHANGED pc,
               \A p \in Runners \ {q} : seen'[p] = seen[p], seen' = seen \/ Goto(q, stage),
               UNCHANGED <<pid, owner>>, \A p \in Runners \ {q} : p \in strayed => p \in strayed',
               strayed' = strayed \/ Goto(q, stage)
        PROVE  Watched(r)'
    <2>1. pc[r] \in Watching /\ seen'[r] = seen[r] /\ (r \in strayed => r \in strayed')
      BY <1>3, <1>T DEF Goto
    <2>2. QED
      BY <1>3, <2>1, WatchedStays DEF Watches
  <1>4. ASSUME NEW q \in Runners, CreateRow(q) \/ StandBy(q) \/ Enter(q) \/ Cleanup(q) \/ Promote(q) \/ Finish(q)
                                  \/ Recover(q) \/ Age(q) \/ KillPoll(q)
        PROVE  Watched(r)'
    <2>1. UNCHANGED <<seen, pid, owner, strayed>>
      BY <1>4 DEF CreateRow, StandBy, Enter, Cleanup, Promote, Finish, Recover, Age, KillPoll, history
    <2>2. CASE CreateRow(q) \/ Enter(q) \/ Cleanup(q)
      <3>1. \E stage \in Stages \ Watching : Goto(q, stage)
        BY <2>2 DEF CreateRow, Enter, Cleanup, Stages, Watching
      <3>2. QED
        BY <1>3, <2>1, <3>1
    <2>3. CASE Promote(q) \/ Finish(q) \/ KillPoll(q)
      <3>1. \E stage \in Stages \ Watching : Goto(q, stage)
        BY <2>3 DEF Promote, Finish, KillPoll, Stages, Watching
      <3>2. QED
        BY <1>3, <2>1, <3>1
    <2>4. CASE StandBy(q) \/ Recover(q) \/ Age(q)
      <3>1. Goto(q, "enter") \/ UNCHANGED pc
        BY <2>4 DEF StandBy, Recover, Age
      <3>2. "enter" \in Stages \ Watching
        BY DEF Stages, Watching
      <3>3. QED
        BY <1>3, <2>1, <3>1, <3>2
    <2>5. QED
      BY <1>4, <2>2, <2>3, <2>4
  <1>5. ASSUME NEW q \in Runners, List(q)
        PROVE  Watched(r)'
    <2>1. /\ UNCHANGED <<pid, owner, strayed>> /\ \A p \in Runners \ {q} : seen'[p] = seen[p]
      BY <1>5, <1>T DEF List, history
    <2>2. \E stage \in Stages \ Watching : Goto(q, stage)
      BY <1>5 DEF List, Stages, Watching
    <2>3. QED
      BY <1>3, <2>1, <2>2
  <1>6. ASSUME NEW q \in Runners, Decide(q)
        PROVE  Watched(r)'
    <2>1. CASE Vanish(q, "crashed")
      BY <1>6, <2>1, VanishWatches, WatchedStays DEF Decide, At, Alive, Gone
    <2>2. CASE ~Vanish(q, "crashed")
      <3>1. /\ UNCHANGED <<pid, owner, strayed>> /\ \A p \in Runners \ {q} : seen'[p] = seen[p]
        BY <1>6, <1>T, <2>2 DEF Decide, history
      <3>2. \E stage \in Stages \ Watching : Goto(q, stage)
        BY <1>6, <2>2 DEF Decide, Stages, Watching
      <3>3. QED
        BY <1>3, <3>1, <3>2
    <2>3. QED
      BY <2>1, <2>2
  <1>7. ASSUME NEW q \in Runners, KillLook(q)
        PROVE  Watched(r)'
    <2>1. UNCHANGED <<seen, pid, owner, strayed>>
      BY <1>7 DEF KillLook, history
    <2>2. CASE r = q
      <3>1. IsRunning(Victim(r))
        BY <1>7, <1>T, <2>2 DEF KillLook, Goto, Watching, At
      <3>2. Victim(r)' = Victim(r) /\ owner[pid[Victim(r)]] = Victim(r)
        BY <2>1, <3>1, SeenStays DEF IsRunning
      <3>3. QED
        BY <2>1, <3>2 DEF Watched
    <2>3. CASE r # q
      <3>1. pc[r] \in Watching
        BY <1>7, <1>T, <2>3 DEF KillLook, Goto
      <3>2. QED
        BY <2>1, <3>1, WatchedStays DEF Watches
    <2>4. QED
      BY <2>2, <2>3
  <1>8. ASSUME NEW q \in Runners, KillTerm(q)
        PROVE  Watched(r)'
    <2>1. UNCHANGED <<seen, pid, strayed>>
      BY <1>8 DEF KillTerm, history
    <2>2. pid[Victim(q)] \in Pids
      BY <1>8, VictimRuns DEF KillTerm, At, Killing
    <2>3. \A i \in Pids : owner'[i] \in {owner[i], Nobody}
      BY <1>8, <1>T, <2>2 DEF KillTerm
    <2>4. pc[r] \in Watching
      BY <1>8, <1>T DEF KillTerm, Goto, Watching, At
    <2>5. QED
      BY <1>W, <2>1, <2>3, <2>4, WatchedStays DEF Watches
  <1>9. ASSUME NEW q \in Runners, KillHard(q)
        PROVE  Watched(r)'
    <2> DEFINE victim == owner[pid[Victim(q)]]
    <2>1. /\ pc' = [p \in Runners |-> CASE p = q -> "bury" [] p = victim -> "killed" [] OTHER -> pc[p]]
          /\ owner' = [owner EXCEPT ![pid[Victim(q)]] = Nobody]
          /\ seen' = [p \in Runners |-> IF p = victim THEN Unseen ELSE seen[p]]
          /\ strayed' = strayed \ {victim} /\ pid' = pid
      BY <1>9 DEF KillHard
    <2>2. r # q /\ r # victim /\ pc[r] \in Watching
      BY <2>1 DEF Watching
    <2>3. \A i \in Pids : owner'[i] \in {owner[i], Nobody}
      BY <1>T, <2>1
    <2>4. QED
      BY <1>W, <2>1, <2>2, <2>3, WatchedStays DEF Watches
  <1>10. ASSUME NEW q \in Runners, Bury(q)
         PROVE  Watched(r)'
    <2>1. /\ UNCHANGED <<pid, owner>> /\ strayed' = strayed \ {q}
          /\ \A p \in Runners \ {q} : seen'[p] = seen[p]
      BY <1>10, <1>T DEF Bury
    <2>2. \E stage \in Stages \ Watching : Goto(q, stage)
      BY <1>10 DEF Bury, Stages, Watching
    <2>3. QED
      BY <1>3, <2>1, <2>2
  <1>11. ASSUME NEW q \in Runners, Leave(q) \/ TermDies(q) \/ Crash(q)
         PROVE  Watched(r)'
    <2>1. Alive(q)
      BY <1>11, TermedAlive DEF Leave, TermDies, Crash, At, Alive, Gone
    <2>2. \E stage \in Gone : Vanish(q, stage)
      BY <1>11 DEF Leave, TermDies, Crash, Gone
    <2>3. QED
      BY <2>1, <2>2, VanishWatches, WatchedStays
  <1>12. CASE Restart
    <2>1. pc' = [p \in Runners |-> IF pc[p] \in Gone \cup {"unborn"} THEN pc[p] ELSE "crashed"]
      BY <1>12 DEF Restart
    <2>2. QED
      BY <2>1 DEF Watching, Gone
  <1>13. CASE UNCHANGED vars
    BY <1>13, WatchedStays DEF vars, Watches
  <1>14. QED
    BY <1>1, <1>2, <1>4, <1>5, <1>6, <1>7, <1>8, <1>9, <1>10, <1>11, <1>12, <1>13 DEF Next, Gate

(* Only kill_tree signals, and only the pid of its victim.                 *)
LEMMA VanishIsNoSignal ==
    ASSUME IInv, NEW q \in Runners, Alive(q), NEW stage, Vanish(q, stage), q \in termed \/ stage # "killed",
           NEW i \in Pids
    PROVE  ~Signalled(i)
  <1>1. owner[pid[q]] = q /\ pid[q] \in Pids
    BY DEF IInv, PidsOwned, Alive
  <1>2. owner[i] = Stranger => owner'[i] = Stranger
    BY <1>1, PidAssumption DEF Vanish, IInv, TypeOK
  <1>3. \A p \in Runners \ termed : owner[i] = p => p \notin termed' /\ pc'[p] # "killed"
    <2>1. \A p \in Runners : owner[i] = p => pc[p] # "killed"
      BY DEF IInv, PidsOwned, Alive, Gone
    <2>2. QED
      BY <2>1 DEF Vanish, Goto, IInv, TypeOK
  <1>4. QED
    BY <1>2, <1>3 DEF Signalled

LEMMA QuietIsNoSignal ==
    ASSUME IInv, NEW i \in Pids, UNCHANGED termed,
           owner[i] = Stranger => owner'[i] = Stranger,
           \A p \in Runners : pc'[p] = "killed" => pc[p] = "killed"
    PROVE  ~Signalled(i)
  BY DEF Signalled, IInv, PidsOwned, Alive, Gone

LEMMA SignalAims ==
    ASSUME IInv, [Next]_vars, NEW i \in Pids, Signalled(i)
    PROVE  \E r \in Runners : pc[r] \in Watching /\ pid[Victim(r)] = i
  <1>T. /\ pc \in [Runners -> Stages] /\ owner \in [Pids -> Runners \cup {Nobody, Stranger}]
    BY DEF IInv, TypeOK
  <1>1. ASSUME NEW q \in Runners, KillTerm(q) \/ KillHard(q)
        PROVE  pid[Victim(q)] = i /\ pc[q] \in Watching
    <2>1. pc[q] \in Watching /\ pid[Victim(q)] \in Pids
      BY <1>1, VictimRuns DEF KillTerm, KillHard, At, Watching, Killing
    <2>2. SUFFICES ASSUME i # pid[Victim(q)] PROVE FALSE
      BY <2>1
    <2>3. owner'[i] = owner[i]
      BY <1>1, <1>T, <2>2 DEF KillTerm, KillHard
    <2>4. PICK p \in Runners \ termed : owner[i] = p /\ (p \in termed' \/ pc'[p] = "killed")
      BY <2>3 DEF Signalled
    <2>5. Alive(p) /\ pid[p] = i /\ owner[pid[Victim(q)]] # p
      BY <2>1, <2>2, <2>4 DEF IInv, PidsOwned
    <2>6. p \notin termed'
      BY <1>1, <2>4, <2>5 DEF KillTerm, KillHard
    <2>7. pc'[p] # "killed"
      BY <1>1, <1>T, <2>5 DEF KillTerm, KillHard, Goto, Alive, Gone
    <2>8. QED
      BY <2>4, <2>6, <2>7
  <1>2. ASSUME NEW q \in Runners, Start(q) \/ CreateRow(q) \/ StandBy(q) \/ Enter(q) \/ Cleanup(q) \/ List(q)
                                  \/ KillLook(q) \/ KillPoll(q) \/ Bury(q) \/ Promote(q) \/ Finish(q) \/ Recover(q) \/ Age(q)
        PROVE  FALSE
    <2>1. UNCHANGED termed
      BY <1>2 DEF Start, CreateRow, StandBy, Enter, Cleanup, List, KillLook, KillPoll, Bury, Promote, Finish, Recover, Age
    <2>2. \A p \in Runners : pc'[p] = "killed" => pc[p] = "killed"
      BY <1>2, <1>T DEF Start, CreateRow, StandBy, Enter, Cleanup, List, KillLook, KillPoll, Bury, Promote, Finish,
         Recover, Age, Goto
    <2>3. CASE Start(q)
      <3>1. PICK j \in Pids : owner[j] = Nobody /\ owner' = [owner EXCEPT ![j] = q]
        BY <2>3 DEF Start, FreePid
      <3>2. owner[i] = Stranger => owner'[i] = Stranger
        BY <1>T, <3>1, PidAssumption
      <3>3. QED
        BY <2>1, <2>2, <3>2, QuietIsNoSignal
    <2>4. CASE ~Start(q)
      <3>1. owner' = owner
        BY <1>2, <2>4 DEF CreateRow, StandBy, Enter, Cleanup, List, KillLook, KillPoll, Bury, Promote, Finish, Recover, Age
      <3>2. QED
        BY <2>1, <2>2, <3>1, QuietIsNoSignal
    <2>5. QED
      BY <2>3, <2>4
  <1>3. ASSUME NEW q \in Runners, Decide(q)
        PROVE  FALSE
    <2>1. CASE Vanish(q, "crashed")
      BY <1>3, <2>1, VanishIsNoSignal DEF Decide, At, Alive, Gone
    <2>2. CASE ~Vanish(q, "crashed")
      <3>1. UNCHANGED <<owner, termed>> /\ \E stage \in Stages \ {"killed"} : Goto(q, stage)
        BY <1>3, <2>2 DEF Decide, Stages
      <3>2. \A p \in Runners : pc'[p] = "killed" => pc[p] = "killed"
        BY <1>T, <3>1 DEF Goto
      <3>3. QED
        BY <3>1, <3>2, QuietIsNoSignal
    <2>3. QED
      BY <2>1, <2>2
  <1>4. ASSUME NEW q \in Runners, Leave(q) \/ TermDies(q) \/ Crash(q)
        PROVE  FALSE
    <2>1. Alive(q)
      BY <1>4, TermedAlive DEF Leave, TermDies, Crash, At, Alive, Gone
    <2>2. \E stage : Vanish(q, stage) /\ (q \in termed \/ stage # "killed")
      BY <1>4 DEF Leave, TermDies, Crash
    <2>3. QED
      BY <2>1, <2>2, VanishIsNoSignal
  <1>5. ASSUME NEW j \in Pids, StrangerComes(j)
        PROVE  FALSE
    BY <1>5, <1>T, QuietIsNoSignal DEF StrangerComes
  <1>6. CASE Restart
    <2>1. ns' # ns /\ termed' = {}
      BY <1>6 DEF Restart, IInv, TypeOK
    <2>2. \A p \in Runners : pc'[p] = "killed" => pc[p] = "killed"
      BY <1>6 DEF Restart
    <2>3. QED
      BY <2>1, <2>2 DEF Signalled, IInv, PidsOwned, Alive, Gone
  <1>7. CASE UNCHANGED vars
    BY <1>7, QuietIsNoSignal DEF vars
  <1>8. QED
    BY <1>1, <1>2, <1>3, <1>4, <1>5, <1>6, <1>7 DEF Next, Gate

(* A process is signalled by a newer runner that stops it, or for a pid it *)
(* was given after kill_tree had looked whose it was; never for a pid that *)
(* was already its own at that look.                                       *)
THEOREM SparesStrangersAlways == ASSUME AgesAt \subseteq {"standby"} PROVE Spec => SparesStrangers
  <1>1. Init => AllWatched
    BY DEF Init, AllWatched, Watching
  <1>2. ASSUME IInv, AllWatched, [Next]_vars, NEW i \in Pids, Signalled(i)
        PROVE  \E r \in AimAt(i) : (owner[i] = Victim(r) /\ Victim(r) < r) \/ r \in strayed
    <2>1. PICK r \in Runners : pc[r] \in Watching /\ pid[Victim(r)] = i
      BY <1>2, SignalAims
    <2>2. r \in AimAt(i)
      BY <2>1 DEF AimAt, Watching
    <2>3. owner[i] # Nobody
      BY <1>2, PidAssumption DEF Signalled
    <2>4. Victim(r) < r
      BY <1>2, <2>1, VictimOfRunner DEF IInv, Watching, Killing
    <2>5. QED
      BY <1>2, <2>1, <2>2, <2>3, <2>4 DEF AllWatched, Watched
  <1>3. IInv /\ AllWatched /\ [Next]_vars =>
          [\A i \in Pids : Signalled(i) =>
             \E r \in AimAt(i) : (owner[i] = Victim(r) /\ Victim(r) < r) \/ r \in strayed]_vars
    BY <1>2
  <1>4. IInv /\ AllWatched /\ [Next]_vars => AllWatched'
    BY WatchedInductive
  <1>5. QED
    BY <1>1, <1>3, <1>4, Invariance, PTL DEF Spec, SparesStrangers

-----------------------------------------------------------------------------
(* The gate as turns.                                                      *)
Turns == [r \in Runners |-> TurnOf(r)]
Waits == Stages \ (Gone \cup {"unborn", "working", "leave"})

LEMMA TurnNames ==
    ASSUME NEW r \in Runners, pc[r] \in Stages
    PROVE  /\ TurnOf(r) = "absent" <=> pc[r] = "unborn"
           /\ TurnOf(r) = "waiting" <=> pc[r] \in Waits
           /\ TurnOf(r) = "working" <=> pc[r] = "working"
           /\ TurnOf(r) = "done" <=> pc[r] \in {"leave", "ended"}
           /\ TurnOf(r) = "dead" <=> pc[r] \in {"crashed", "killed"}
           /\ Alive(r) => TurnOf(r) \in {"waiting", "working", "done"}
  BY DEF TurnOf, Waits, Gone, Alive

(* One runner moves, the others keep their turns.                          *)
LEMMA OneMoves ==
    ASSUME IInv, NEW r \in Runners, NEW stage \in Stages, Goto(r, stage)
    PROVE  /\ pc'[r] = stage /\ Turns' = [Turns EXCEPT ![r] = TurnOf(r)']
           /\ TurnOf(r)' = TurnOf(r) => UNCHANGED Turns
  <1>1. pc \in [Runners -> Stages]
    BY DEF IInv, TypeOK
  <1>2. pc'[r] = stage /\ \A q \in Runners \ {r} : TurnOf(q)' = TurnOf(q)
    BY <1>1 DEF Goto, TurnOf
  <1>3. QED
    BY <1>2 DEF Turns

LEMMA WaitsOn ==
    ASSUME IInv, NEW r \in Runners, pc[r] \in Waits, NEW stage \in Waits, Goto(r, stage)
    PROVE  UNCHANGED Turns
  <1>1. pc'[r] = stage /\ (TurnOf(r)' = TurnOf(r) => UNCHANGED Turns) /\ stage \in Stages
    BY OneMoves DEF Waits
  <1>2. TurnOf(r) = "waiting" /\ TurnOf(r)' = "waiting"
    BY <1>1 DEF TurnOf, Waits, Gone
  <1>3. QED
    BY <1>1, <1>2

LEMMA VanishTurns ==
    ASSUME IInv, NEW r \in Runners, Alive(r), NEW stage \in Gone, Vanish(r, stage),
           stage = "ended" => pc[r] = "leave"
    PROVE  Turn!TurnsNext \/ UNCHANGED Turns
  <1>1. stage \in Stages /\ Goto(r, stage) /\ pc[r] \in Stages
    BY DEF Vanish, Gone, Stages, IInv, TypeOK
  <1>2. pc'[r] = stage /\ Turns' = [Turns EXCEPT ![r] = TurnOf(r)'] /\ (TurnOf(r)' = TurnOf(r) => UNCHANGED Turns)
    BY <1>1, OneMoves
  <1>3. CASE stage = "ended"
    BY <1>2, <1>3 DEF TurnOf
  <1>4. CASE stage # "ended"
    <2>1. TurnOf(r)' = "dead" /\ TurnOf(r) \in {"waiting", "working", "done"}
      BY <1>1, <1>2, <1>4, TurnNames DEF TurnOf, Gone
    <2>2. {r} \in SUBSET Runners /\ \A q \in {r} : Turns[q] \in {"waiting", "working", "done"}
      BY <2>1 DEF Turns
    <2>3. Turns' = [q \in Runners |-> IF q \in {r} THEN "dead" ELSE Turns[q]]
      BY <1>2, <2>1 DEF Turns
    <2>4. Turn!Die
      BY <2>2, <2>3 DEF Turn!Die, Turns
    <2>5. QED
      BY <2>4 DEF Turn!TurnsNext
  <1>5. QED
    BY <1>3, <1>4

(* Who gives way has seen a newer runner.                                  *)
LEMMA GivesWay ==
    ASSUME IInv, OneDaemon, NEW r \in Runners, At(r, "decide"), Live(r) # {}, MaxOf(Live(r)) # r
    PROVE  \E s \in Runners : s > r /\ TurnOf(s) # "absent"
  <1>1. MaxOf(Live(r)) \in Live(r) /\ \A y \in Live(r) : y <= MaxOf(Live(r))
    BY MaxExists DEF Live
  <1>2. MaxOf(Live(r)) > r
    <2>1. CASE r \in Live(r)
      BY <1>1, <2>1, NAssumption DEF Runners, Live
    <2>2. CASE r \notin Live(r)
      BY <1>1, <2>2 DEF IInv, NewerOnly, At
    <2>3. QED
      BY <2>1, <2>2
  <1>3. MaxOf(Live(r)) \in Runners /\ pc[MaxOf(Live(r))] # "unborn"
    BY <1>1 DEF IInv, Started, OnRecord, Live
  <1>4. QED
    BY <1>2, <1>3 DEF TurnOf

LEMMA StepTurns ==
    ASSUME IInv, OneDaemon, [Next]_vars
    PROVE  Turn!TurnsNext \/ UNCHANGED Turns
  <1>T. pc \in [Runners -> Stages] /\ \A r \in Runners : pc[r] \in Stages
    BY DEF IInv, TypeOK
  <1>1. ASSUME NEW r \in Runners, Start(r)
        PROVE  Turn!TurnsNext
    <2>1. pc[r] = "unborn" /\ Goto(r, "born") /\ "born" \in Stages
      BY <1>1 DEF Start, At, Stages
    <2>2. pc'[r] = "born" /\ Turns' = [Turns EXCEPT ![r] = TurnOf(r)']
      BY <2>1, OneMoves
    <2>3. Turns[r] = "absent" /\ TurnOf(r)' = "waiting"
      BY <2>1, <2>2 DEF Turns, TurnOf
    <2>4. QED
      BY <2>2, <2>3 DEF Turn!TurnsNext, Turn!Arrive, Turn!Moves, Turns
  <1>2. ASSUME NEW r \in Runners, CreateRow(r) \/ Enter(r) \/ Cleanup(r) \/ List(r)
        PROVE  UNCHANGED Turns
    <2>1. pc[r] \in Waits
      BY <1>2 DEF CreateRow, Enter, Cleanup, List, At, Waits, Stages, Gone
    <2>2. \E stage \in Waits : Goto(r, stage)
      BY <1>2 DEF CreateRow, Enter, Cleanup, List, Waits, Stages, Gone
    <2>3. QED
      BY <2>1, <2>2, WaitsOn
  <1>3. ASSUME NEW r \in Runners, StandBy(r)
        PROVE  UNCHANGED Turns
    <2>1. pc[r] \in Waits /\ "enter" \in Waits
      BY <1>3 DEF StandBy, At, Waits, Stages, Gone
    <2>2. Goto(r, "enter") \/ UNCHANGED pc
      BY <1>3 DEF StandBy
    <2>3. QED
      BY <2>1, <2>2, WaitsOn DEF Turns, TurnOf
  <1>4. ASSUME NEW r \in Runners, KillLook(r) \/ KillTerm(r) \/ KillPoll(r) \/ Bury(r)
        PROVE  UNCHANGED Turns
    <2>1. pc[r] \in Waits
      BY <1>4 DEF KillLook, KillTerm, KillPoll, Bury, At, Waits, Stages, Gone
    <2>2. \E stage \in Waits : Goto(r, stage)
      BY <1>4 DEF KillLook, KillTerm, KillPoll, Bury, Waits, Stages, Gone
    <2>3. QED
      BY <2>1, <2>2, WaitsOn
  <1>5. ASSUME NEW r \in Runners, Decide(r)
        PROVE  Turn!TurnsNext \/ UNCHANGED Turns
    <2>1. pc[r] \in Waits /\ pc[r] = "decide" /\ Alive(r)
      BY <1>5 DEF Decide, At, Waits, Stages, Gone, Alive
    <2>2. CASE Vanish(r, "crashed")
      BY <2>1, <2>2, VanishTurns DEF Gone
    <2>3. CASE Goto(r, "promote") \/ Goto(r, "kill")
      BY <2>1, <2>3, WaitsOn DEF Waits, Stages, Gone
    <2>4. CASE Live(r) # {} /\ MaxOf(Live(r)) # r /\ Goto(r, "leave")
      <3>1. PICK s \in Runners : s > r /\ TurnOf(s) # "absent"
        BY <1>5, <2>4, GivesWay DEF Decide
      <3>2. pc'[r] = "leave" /\ Turns' = [Turns EXCEPT ![r] = TurnOf(r)']
        BY <2>4, OneMoves DEF Stages
      <3>3. TurnOf(r) = "waiting" /\ TurnOf(r)' = "done"
        BY <2>1, <3>2 DEF TurnOf
      <3>4. QED
        BY <3>1, <3>2, <3>3 DEF Turn!TurnsNext, Turn!GiveWay, Turn!Moves, Turns
    <2>5. QED
      BY <1>5, <2>2, <2>3, <2>4 DEF Decide
  <1>6. ASSUME NEW r \in Runners, KillHard(r)
        PROVE  Turn!TurnsNext \/ UNCHANGED Turns
    <2> SUFFICES ASSUME NEW q, q = owner[pid[Victim(r)]]
                 PROVE  Turn!TurnsNext \/ UNCHANGED Turns
      OBVIOUS
    <2>1. /\ pc' = [p \in Runners |-> CASE p = r -> "bury" [] p = q -> "killed" [] OTHER -> pc[p]]
          /\ pc[r] = "wait"
      BY <1>6 DEF KillHard, At
    <2>2. TurnOf(r) = "waiting" /\ TurnOf(r)' = "waiting"
      <3>1. pid[Victim(r)] \in Pids /\ pid[Victim(r)] # pid[r]
        BY <2>1, VictimRuns DEF Killing, IInv, VictimGone
      <3>2. q # r
        BY <3>1 DEF IInv, PidsOwned
      <3>3. pc'[r] = "bury"
        BY <2>1, <3>2
      <3>4. QED
        BY <2>1, <3>3 DEF TurnOf
    <2>3. \A p \in Runners \ {r, q} : TurnOf(p)' = TurnOf(p)
      <3>1. \A p \in Runners \ {r, q} : pc'[p] = pc[p]
        BY <2>1
      <3>2. QED
        BY <3>1 DEF TurnOf
    <2>4. CASE q \notin Runners \ {r}
      BY <2>2, <2>3, <2>4 DEF Turns
    <2>5. CASE q \in Runners \ {r}
      <3>1. pid[Victim(r)] \in Pids
        BY <2>1, VictimRuns DEF Killing
      <3>2. Alive(q)
        BY <2>5, <3>1 DEF IInv, PidsOwned
      <3>3. TurnOf(q) \in {"waiting", "working", "done"}
        BY <1>T, <2>5, <3>2, TurnNames
      <3>4. TurnOf(q)' = "dead"
        <4>1. pc'[q] = "killed"
          BY <2>1, <2>5
        <4>2. QED
          BY <4>1 DEF TurnOf
      <3>5. {q} \in SUBSET Runners /\ Turns[q] \in {"waiting", "working", "done"}
        BY <2>5, <3>3 DEF Turns
      <3>6. Turns' = [p \in Runners |-> IF p \in {q} THEN "dead" ELSE Turns[p]]
        <4>1. \A p \in Runners : TurnOf(p)' = IF p \in {q} THEN "dead" ELSE TurnOf(p)
          BY <2>2, <2>3, <3>4
        <4>2. QED
          BY <4>1, <2>5 DEF Turns
      <3>7. Turn!Die
        BY <3>5, <3>6 DEF Turn!Die, Turns
      <3>8. QED
        BY <3>7 DEF Turn!TurnsNext
    <2>6. QED
      BY <2>4, <2>5
  <1>7. ASSUME NEW r \in Runners, Promote(r)
        PROVE  Turn!TurnsNext \/ UNCHANGED Turns
    <2>1. pc[r] = "promote" /\ pc[r] \in Waits
      BY <1>7 DEF Promote, At, Waits, Stages, Gone
    <2>2. CASE Goto(r, "cleanup")
      BY <2>1, <2>2, WaitsOn DEF Waits, Stages, Gone
    <2>3. CASE ~Goto(r, "cleanup")
      <3>1. Goto(r, "working") /\ \A v \in Runners \ {r} : ~(Running(v) /\ row[v].role = "worker_runner")
        BY <1>7, <2>3 DEF Promote
      <3>2. \A v \in Runners : pc[v] # "working"
        BY <2>1, <3>1 DEF IInv, WorkerOnRecord, Working
      <3>3. \A v \in Runners : Turns[v] # "working"
        BY <1>T, <3>2, TurnNames DEF Turns
      <3>4. pc'[r] = "working" /\ Turns' = [Turns EXCEPT ![r] = TurnOf(r)']
        BY <3>1, OneMoves DEF Stages
      <3>5. TurnOf(r)' = "working" /\ Turns[r] = "waiting"
        BY <2>1, <3>4 DEF TurnOf, Turns
      <3>6. QED
        BY <3>3, <3>4, <3>5 DEF Turn!TurnsNext, Turn!Take, Turn!Moves, Turns
    <2>4. QED
      BY <2>2, <2>3
  <1>8. ASSUME NEW r \in Runners, Finish(r)
        PROVE  Turn!TurnsNext
    <2>1. pc[r] = "working" /\ Goto(r, "leave") /\ "leave" \in Stages
      BY <1>8 DEF Finish, At, Stages
    <2>2. pc'[r] = "leave" /\ Turns' = [Turns EXCEPT ![r] = TurnOf(r)']
      BY <2>1, OneMoves
    <2>3. Turns[r] = "working" /\ TurnOf(r)' = "done"
      BY <2>1, <2>2 DEF TurnOf, Turns
    <2>4. QED
      BY <2>2, <2>3 DEF Turn!TurnsNext, Turn!Finish, Turn!Moves, Turns
  <1>9. ASSUME NEW r \in Runners, Leave(r) \/ TermDies(r) \/ Crash(r)
        PROVE  Turn!TurnsNext \/ UNCHANGED Turns
    <2>1. Alive(r)
      BY <1>9, TermedAlive DEF Leave, TermDies, Crash, At, Alive, Gone
    <2>2. \E stage \in Gone : Vanish(r, stage) /\ (stage = "ended" => pc[r] = "leave")
      BY <1>9 DEF Leave, TermDies, Crash, At, Gone
    <2>3. QED
      BY <2>1, <2>2, VanishTurns
  <1>10. ASSUME UNCHANGED pc
         PROVE  UNCHANGED Turns
    BY <1>10 DEF Turns, TurnOf
  <1>11. CASE Restart
    <2> DEFINE S == {r \in Runners : Alive(r)}
    <2>1. pc' = [r \in Runners |-> IF pc[r] \in Gone \cup {"unborn"} THEN pc[r] ELSE "crashed"]
      BY <1>11 DEF Restart
    <2>2. \A r \in S : Turns[r] \in {"waiting", "working", "done"}
      BY <1>T, TurnNames DEF Turns
    <2>3. \A r \in Runners : TurnOf(r)' = IF r \in S THEN "dead" ELSE TurnOf(r)
      BY <2>1 DEF TurnOf, Alive
    <2>4. Turns' = [r \in Runners |-> IF r \in S THEN "dead" ELSE Turns[r]]
      BY <2>3 DEF Turns
    <2>5. S \in SUBSET Runners
      OBVIOUS
    <2>6. Turn!Die
      BY <2>2, <2>4, <2>5 DEF Turn!Die, Turns
    <2>7. QED
      BY <2>6 DEF Turn!TurnsNext
  <1>12. ASSUME NEW r \in Runners, Recover(r) \/ Age(r)
         PROVE  UNCHANGED Turns
    BY <1>10, <1>12 DEF Recover, Age
  <1>13. ASSUME NEW i \in Pids, StrangerComes(i)
         PROVE  UNCHANGED Turns
    BY <1>10, <1>13 DEF StrangerComes
  <1>14. CASE UNCHANGED vars
    BY <1>10, <1>14 DEF vars
  <1>15. QED
    BY <1>1, <1>2, <1>3, <1>4, <1>5, <1>6, <1>7, <1>8, <1>9, <1>11, <1>12, <1>13, <1>14 DEF Next, Gate

(* The gate implements turns: one runner at a time works, once at most,    *)
(* and takes over from nobody; and whoever leaves without a turn leaves    *)
(* to a newer runner, if no more than one daemon stands by.                *)
THEOREM TakesTurnsAlways ==
    ASSUME AgesAt \subseteq {"standby"}, OneDaemon
    PROVE  Spec => TakesTurns
  <1>1. Init => Turn!TurnsInit
    BY DEF Init, Turn!TurnsInit, TurnOf
  <1>2. IInv /\ [Next]_vars => [Turn!TurnsNext]_Turns
    BY StepTurns
  <1>3. QED
    BY <1>1, <1>2, Invariance, PTL DEF Spec, TakesTurns, Turn!TurnsSpec, Turns
=============================================================================
