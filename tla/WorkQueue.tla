------------------------------ MODULE WorkQueue ------------------------------
(***************************************************************************)
(* The queue protocol every work row of ArchiveBox shares: ModelWithQueue  *)
(* in workers/models.py.  A row has a status and retry_at; retry_at is the *)
(* time the row becomes due, the lease of the process working on it, and   *)
(* the version number conditional updates compare.  Processes (runner,     *)
(* web requests, CLI commands) hold loaded copies of the row and write it  *)
(* with single conditional UPDATE statements, so one action here is one    *)
(* SELECT or one UPDATE.                                                   *)
(*                                                                         *)
(* A timestamp is a pair: "at" is the coarse tick that decides whether it  *)
(* is due, "id" the microseconds below the tick, which make two            *)
(* timestamps written by different statements different.  NULL and         *)
(* RETRY_AT_MAX are single values, the same whoever writes them.           *)
(***************************************************************************)
EXTENDS Integers

CONSTANTS
    Procs,        \* processes that load and write the row
    NoOne,        \* no process
    LockSeconds,  \* lock_seconds, in ticks
    Parks,        \* statuses of rows at RETRY_AT_MAX, besides Paused
    MaxNow,       \* bound on the clock
    MaxWrites     \* bound on the timestamps written

ASSUME LockAssumption  == LockSeconds \in Nat \ {0}
ASSUME BoundAssumption == MaxNow \in Nat /\ MaxWrites \in Nat
ASSUME NoOneAssumption == NoOne \notin Procs

VARIABLES
    row,      \* the database row
    now,      \* timezone.now(), in ticks
    writes,   \* timestamps written so far
    mem,      \* mem[p]: p's loaded copy of the row
    claimed   \* claimed[p]: mem[p].retry is a lease p took and has not lost sight of

vars == <<row, now, writes, mem, claimed>>

-----------------------------------------------------------------------------
Queued   == "queued"
Started  == "started"
Paused   == "paused"
Sealed   == "sealed"
Deleting == "deleting"
Status   == {Queued, Started, Paused, Sealed, Deleting}

(* Besides the paused ones there are at RETRY_AT_MAX: a Snapshot that is   *)
(* being deleted, and a started Crawl while all that is left of its        *)
(* snapshots is paused.  A Crawl is never Deleting.                        *)
ASSUME ParksAssumption == Parks \subseteq {Queued, Started, Deleting}
Waiting  == Parks \cup {Paused}

NULL         == [at |-> -1, id |-> 0]
RETRY_AT_MAX == [at |-> -2, id |-> 0]
Stamps       == [at : Nat, id : Nat \ {0}]
RetryAt      == Stamps \cup {NULL, RETRY_AT_MAX}
Rows         == [status : Status, retry : RetryAt]

(* retry_at__lte=now: NULL never satisfies it, RETRY_AT_MAX not for ages.  *)
IsDue(r) == r.at \in 0..now

(* Faulty: the clock is read in whole ticks, as a column without           *)
(* microseconds would store it.                                            *)
StampCoarse(t) == [at |-> t, id |-> 1]

(* Faulty: rounds the time down a tick.                                    *)
StampEarly(t) == [at |-> t - 1, id |-> writes + 1]

(* A timestamp no earlier statement has written.                           *)
Stamp(t) == [at |-> t, id |-> writes + 1]

-----------------------------------------------------------------------------
(* A row in the queue, at rest after its last write, or paused.            *)
InitRows ==
    {[status |-> s, retry |-> [at |-> 0, id |-> 1]] : s \in {Queued, Started, Sealed}}
      \cup {[status |-> Sealed, retry |-> NULL],
            [status |-> Paused, retry |-> RETRY_AT_MAX]}
      \cup {[status |-> s, retry |-> RETRY_AT_MAX] : s \in Parks}

Init ==
    /\ now = 0
    /\ writes = 1
    /\ row \in InitRows
    /\ mem = [p \in Procs |-> row]
    /\ claimed = [p \in Procs |-> FALSE]

Tick ==
    /\ now < MaxNow
    /\ now' = now + 1
    /\ UNCHANGED <<row, writes, mem, claimed>>

(* refresh_from_db, or a fresh query.  A process that reads back another   *)
(* timestamp than the one it wrote has lost its lease.                     *)
Load(p) ==
    /\ mem' = [mem EXCEPT ![p] = row]
    /\ claimed' = [claimed EXCEPT ![p] = @ /\ mem[p].retry = row.retry]
    /\ UNCHANGED <<row, now, writes>>

(* One UPDATE that sets the row and, in the same statement's Python, the   *)
(* writer's copy; "mine" says whether the writer now counts as claimer.    *)
Write(p, new, mine) ==
    /\ writes < MaxWrites
    /\ row' = new
    /\ mem' = [mem EXCEPT ![p] = new]
    /\ claimed' = [claimed EXCEPT ![p] = mine]
    /\ writes' = writes + 1
    /\ UNCHANGED now

(* An UPDATE whose filter matches no row.  claim_for_worker leaves the     *)
(* copy as it is, safe_update reads it again (refresh=True).               *)
Miss(p, copy) ==
    /\ mem' = [mem EXCEPT ![p] = copy]
    /\ claimed' = [claimed EXCEPT ![p] = FALSE]
    /\ UNCHANGED <<row, now, writes>>

(* Faulty: claims whatever retry_at it has loaded, due or not.             *)
ClaimNotYetDue(p) ==
    LET hit == row.retry = mem[p].retry IN
    \/ hit /\ Write(p, [row EXCEPT !.retry = Stamp(now + LockSeconds)], TRUE)
    \/ ~hit /\ Miss(p, mem[p])

(* claim_for_worker: filter(retry_at=obj.retry_at, retry_at__lte=now).     *)
ClaimForWorker(p) ==
    LET hit == row.retry = mem[p].retry /\ IsDue(row.retry) IN
    \/ /\ hit
       /\ writes < MaxWrites
       /\ row' = [row EXCEPT !.retry = Stamp(now + LockSeconds)]
       /\ mem' = [mem EXCEPT ![p].retry = Stamp(now + LockSeconds)]
       /\ claimed' = [claimed EXCEPT ![p] = TRUE]
       /\ writes' = writes + 1
       /\ UNCHANGED now
    \/ ~hit /\ Miss(p, mem[p])

(* claim_processing_lock: not on a final row, nor on one outside the queue *)
ClaimProcessingLock(p) ==
    /\ mem[p].status # Sealed
    /\ mem[p].retry # NULL
    /\ ClaimForWorker(p)

(* Faulty: a plain save(), without the retry_at filter.                    *)
SaveAndRequeue(p, s, r) ==
    Write(p, [status |-> s, retry |-> r], claimed[p] /\ r.at > now)

(* update_and_requeue(status=s, retry_at=r): safe_update with the loaded   *)
(* retry_at as its only guard.  A copy of one status may be written back   *)
(* with another; only a sealed row leaves the queue (retry_at=None).       *)
UpdateAndRequeue(p, s, r) ==
    LET hit == row.retry = mem[p].retry IN
    \/ hit /\ Write(p, [status |-> s, retry |-> r], claimed[p] /\ r.at > now)
    \/ ~hit /\ Miss(p, row)

(* Faulty: sets the status and forgets retry_at.                           *)
PauseKeepsRetry(p) ==
    LET hit == row.status = mem[p].status IN
    /\ mem[p].status \notin {Sealed, Paused}
    /\ \/ hit /\ Write(p, [row EXCEPT !.status = Paused], FALSE)
       \/ ~hit /\ Miss(p, row)

(* pause: the filter is the loaded status, not retry_at, so that it wins   *)
(* over a lease renewed since the copy was loaded.                         *)
Pause(p) ==
    LET hit == row.status = mem[p].status IN
    /\ mem[p].status \notin {Sealed, Paused}
    /\ \/ hit /\ Write(p, [status |-> Paused, retry |-> RETRY_AT_MAX], FALSE)
       \/ ~hit /\ Miss(p, row)

(* resume: only a copy loaded as paused, only onto a row still paused.     *)
Resume(p) ==
    LET hit == row.status = Paused IN
    /\ mem[p].status = Paused
    /\ \/ hit /\ Write(p, [status |-> Queued, retry |-> Stamp(now)], FALSE)
       \/ ~hit /\ Miss(p, row)

(* Snapshot.delete and the admin page's Delete: an UPDATE of both columns  *)
(* that compares nothing.  The page has no copy of the row, and delete     *)
(* writes from its own no more.                                            *)
MarkDeleting ==
    /\ Deleting \in Parks
    /\ writes < MaxWrites
    /\ row' = [status |-> Deleting, retry |-> RETRY_AT_MAX]
    /\ writes' = writes + 1
    /\ UNCHANGED <<now, mem, claimed>>

(* What callers pass: a runnable status due now, leased, or to wait for    *)
(* ever, a seal, or a new time for a sealed row that needs maintenance.    *)
Requeues ==
    {[status |-> s, retry |-> Stamp(t)] :
        s \in {Queued, Started}, t \in {now, now + LockSeconds}}
      \cup {[status |-> Sealed, retry |-> NULL], [status |-> Sealed, retry |-> Stamp(now)]}
      \cup {[status |-> s, retry |-> RETRY_AT_MAX] : s \in Parks \ {Deleting}}

Requeue(p) == \E new \in Requeues : UpdateAndRequeue(p, new.status, new.retry)

Next ==
    \/ Tick \/ MarkDeleting
    \/ \E p \in Procs :
         \/ Load(p) \/ ClaimForWorker(p) \/ ClaimProcessingLock(p)
         \/ Requeue(p) \/ Pause(p) \/ Resume(p)

Spec == Init /\ [][Next]_vars

-----------------------------------------------------------------------------
(* Every variable stays in its range.                                      *)
TypeOK ==
    /\ row \in Rows
    /\ now \in Nat
    /\ writes \in Nat
    /\ mem \in [Procs -> Rows]
    /\ claimed \in [Procs -> BOOLEAN]

(* retry_at is a version number of the whole row: a copy that still        *)
(* carries the row's retry_at carries its status too, which is what lets   *)
(* update_and_requeue compare retry_at alone.  There is one exception:     *)
(* RETRY_AT_MAX says only that the row waits, not in which status.         *)
VersionFaithful ==
    \A p \in Procs :
        mem[p].retry = row.retry
            => \/ mem[p].status = row.status
               \/ row.retry = RETRY_AT_MAX /\ {mem[p].status, row.status} \subseteq Waiting

(* A status changes only by a deletion, in a statement of a process whose  *)
(* copy had the current status, or in one whose copy waited as the row     *)
(* does: a runner with a copy from before a pause, a resume, a seal or a   *)
(* deletion cannot undo it, unless that copy was itself put to wait.       *)
WriterSawStatus ==
    [][row'.status # row.status
         => \/ row' = [status |-> Deleting, retry |-> RETRY_AT_MAX]
            \/ \E p \in Procs :
                  /\ mem'[p] = row'
                  /\ \/ mem[p].status = row.status
                     \/ /\ mem[p].retry = RETRY_AT_MAX /\ row.retry = RETRY_AT_MAX
                        /\ {mem[p].status, row.status} \subseteq Waiting]_vars

(* What comparing retry_at would give if RETRY_AT_MAX had one meaning; the *)
(* code does not have it, for Crawls nor for Snapshots.                    *)
WriterSawExactStatus ==
    [][row'.status # row.status
         => \/ row' = [status |-> Deleting, retry |-> RETRY_AT_MAX]
            \/ \E p \in Procs : mem[p].status = row.status /\ mem'[p] = row']_vars

(* The lease p took is the row's current retry_at.                         *)
Holds(p) == claimed[p] /\ mem[p].retry = row.retry

(* Two processes never hold the row's lease at once, however often leases  *)
(* expire, are renewed, or are cut short by pause and resume.              *)
LeaseExclusive ==
    \A p, q \in Procs : Holds(p) /\ Holds(q) => p = q

(* The protocol implements the abstract lease: claiming is Acquire, a      *)
(* holder's update is HolderWrite, anybody else's write is Override, and   *)
(* the clock is the only thing that expires a lease.                       *)
Owner == IF \E p \in Procs : Holds(p) THEN CHOOSE p \in Procs : Holds(p) ELSE NoOne
Lease == INSTANCE LeaseRegister WITH
            status <- row.status,
            owner <- Owner,
            expired <- Owner # NoOne /\ IsDue(row.retry)
ImplementsLease == Lease!LeaseSpec
=============================================================================
