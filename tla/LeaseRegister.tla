---------------------------- MODULE LeaseRegister ----------------------------
(***************************************************************************)
(* What the durable queue promises of one row, without timestamps: the row *)
(* carries a status and at most one leaseholder.  A lease is taken only    *)
(* from a row nobody holds or whose lease has run out, only the            *)
(* leaseholder writes the row and stays its holder, and a command written  *)
(* by anybody else takes the lease away.                                   *)
(***************************************************************************)
CONSTANTS Procs, NoOne, Status

VARIABLES status, owner, expired

leaseVars == <<status, owner, expired>>

LeaseInit ==
    /\ status \in Status
    /\ owner = NoOne
    /\ expired = FALSE

(* A free or expired row is taken; taking it changes nothing else.         *)
Acquire(p) ==
    /\ owner = NoOne \/ expired
    /\ owner' = p
    /\ expired' = FALSE
    /\ UNCHANGED status

(* Time passes the end of the lease, and nobody else has the row yet.      *)
Expire ==
    /\ owner # NoOne
    /\ expired' = TRUE
    /\ UNCHANGED <<status, owner>>

(* The holder writes: it keeps a lease that is running again, or lets go.  *)
HolderWrite(p) ==
    /\ owner = p
    /\ status' \in Status
    /\ owner' \in {p, NoOne}
    /\ expired' = FALSE

(* A holder that crashes, or reads the row again, forgets its lease.       *)
LetGo ==
    /\ owner' = NoOne
    /\ expired' = FALSE
    /\ UNCHANGED status

(* A command of another process ends any lease.                            *)
Override ==
    /\ status' \in Status
    /\ owner' = NoOne
    /\ expired' = FALSE

LeaseNext ==
    \/ \E p \in Procs : Acquire(p) \/ HolderWrite(p)
    \/ Expire \/ LetGo \/ Override

LeaseSpec == LeaseInit /\ [][LeaseNext]_leaseVars
=============================================================================
