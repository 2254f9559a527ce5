----------------------------- MODULE RunnerTurns -----------------------------
(***************************************************************************)
(* What the gate promises: runners take turns.  They are numbered by age.  *)
(* One at a time is at work, each at most once; the next begins when the   *)
(* one before is done or gone; and one that leaves without a turn leaves   *)
(* to a newer one.                                                         *)
(***************************************************************************)
EXTENDS Integers

CONSTANT Runners

VARIABLE turn  \* turn[r]: "absent", "waiting", "working", "done" or "dead"

Moves(r, from, to) == turn[r] = from /\ turn' = [turn EXCEPT ![r] = to]

TurnsInit == turn = [r \in Runners |-> "absent"]

Arrive(r) == Moves(r, "absent", "waiting")

Take(r) ==
    /\ \A q \in Runners : turn[q] # "working"
    /\ Moves(r, "waiting", "working")

GiveWay(r) ==
    /\ \E s \in Runners : s > r /\ turn[s] # "absent"
    /\ Moves(r, "waiting", "done")

Finish(r) == Moves(r, "working", "done")

(* Processes die, one or a whole container of them.                        *)
Die ==
    \E S \in SUBSET Runners :
        /\ \A r \in S : turn[r] \in {"waiting", "working", "done"}
        /\ turn' = [r \in Runners |-> IF r \in S THEN "dead" ELSE turn[r]]

TurnsNext == Die \/ \E r \in Runners : Arrive(r) \/ Take(r) \/ GiveWay(r) \/ Finish(r)

TurnsSpec == TurnsInit /\ [][TurnsNext]_turn
=============================================================================
