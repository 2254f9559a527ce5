--------------------------- MODULE WorkQueue_proofs ---------------------------
(***************************************************************************)
(* Proofs about the queue protocol of WorkQueue, for any set of processes, *)
(* any lease length and any bounds.                                        *)
(***************************************************************************)
EXTENDS WorkQueue, TLAPS

(* No copy carries a timestamp that has not been written yet.              *)
IdsWritten ==
    /\ row.retry.id <= writes
    /\ \A p \in Procs : mem[p].retry.id <= writes

(* The values that are not unique tell of the status: a row outside the    *)
(* queue is sealed, a row at RETRY_AT_MAX is paused or in Parks.           *)
WellParked(r) ==
    /\ r.retry = NULL => r.status = Sealed
    /\ r.retry = RETRY_AT_MAX => r.status \in Waiting

AllWellParked == WellParked(row) /\ \A p \in Procs : WellParked(mem[p])

(* A timestamp is a version of the row, and so is NULL.                    *)
StampFaithful ==
    \A p \in Procs :
        mem[p].retry = row.retry /\ row.retry # RETRY_AT_MAX => mem[p].status = row.status

(* No two processes have claimed the same timestamp.                       *)
ClaimsDiffer ==
    /\ \A p \in Procs : claimed[p] => mem[p].retry \in Stamps
    /\ \A p, q \in Procs :
          claimed[p] /\ claimed[q] /\ mem[p].retry = mem[q].retry => p = q

IInv ==
    /\ TypeOK
    /\ IdsWritten
    /\ AllWellParked
    /\ StampFaithful
    /\ ClaimsDiffer

-----------------------------------------------------------------------------
(* Timestamps, NULL and RETRY_AT_MAX are three different things.           *)
LEMMA RetryKinds ==
    /\ NULL \notin Stamps /\ RETRY_AT_MAX \notin Stamps /\ NULL # RETRY_AT_MAX
    /\ NULL \in RetryAt /\ RETRY_AT_MAX \in RetryAt /\ Stamps \subseteq RetryAt
    /\ \A r \in RetryAt : r.id \in Nat /\ r.at \in Int
    /\ \A r \in RetryAt : r.at >= 0 => r \in Stamps
  BY DEF NULL, RETRY_AT_MAX, Stamps, RetryAt

(* A fresh timestamp is one no copy carries.                               *)
LEMMA FreshStamp ==
    ASSUME TypeOK, IdsWritten, NEW t \in Nat
    PROVE  /\ Stamp(t) \in Stamps
           /\ Stamp(t).id = writes + 1 /\ Stamp(t).at = t
           /\ Stamp(t) # row.retry
           /\ \A p \in Procs : Stamp(t) # mem[p].retry
  BY DEF TypeOK, IdsWritten, Stamp, Stamps, Rows, RetryAt

(* What callers of update_and_requeue write is a well-parked row whose     *)
(* timestamp, if it has one, is fresh.                                     *)
LEMMA RequeuesShape ==
    ASSUME TypeOK, NEW new \in Requeues
    PROVE  /\ new \in Rows
           /\ WellParked(new)
           /\ \/ new.retry \in {NULL, RETRY_AT_MAX}
              \/ \E t \in Nat : new.retry = Stamp(t)
  <1>1. now \in Nat /\ now + LockSeconds \in Nat /\ writes \in Nat
    BY LockAssumption DEF TypeOK
  <1>2. CASE new = [status |-> Sealed, retry |-> NULL]
    BY <1>2, RetryKinds DEF Rows, Status, Sealed, Paused, WellParked
  <1>3. ASSUME NEW s \in Status, s # Paused, NEW t \in Nat,
               new = [status |-> s, retry |-> Stamp(t)]
        PROVE  /\ new \in Rows
               /\ WellParked(new)
               /\ \E u \in Nat : new.retry = Stamp(u)
    <2>1. Stamp(t) \in Stamps
      BY <1>1 DEF Stamp, Stamps
    <2>2. QED
      BY <1>3, <2>1, RetryKinds DEF Rows, WellParked
  <1>4. ASSUME NEW s \in Parks \ {Deleting}, new = [status |-> s, retry |-> RETRY_AT_MAX]
        PROVE  new \in Rows /\ WellParked(new) /\ new.retry = RETRY_AT_MAX
    BY <1>4, RetryKinds, ParksAssumption DEF Rows, Status, WellParked, Waiting
  <1>5. \/ new = [status |-> Sealed, retry |-> NULL]
        \/ \E s \in Status, t \in Nat :
              s # Paused /\ new = [status |-> s, retry |-> Stamp(t)]
        \/ \E s \in Parks \ {Deleting} : new = [status |-> s, retry |-> RETRY_AT_MAX]
    BY <1>1 DEF Requeues, Status, Queued, Started, Paused, Sealed
  <1>6. QED
    BY <1>2, <1>3, <1>4, <1>5

-----------------------------------------------------------------------------
(* One UPDATE preserves the invariant when what it writes is well parked   *)
(* and its timestamp fresh, and when a writer that keeps a claim keeps it  *)
(* on a fresh timestamp.                                                   *)
LEMMA WriteInductive ==
    ASSUME IInv, NEW p \in Procs, NEW new \in Rows, NEW mine \in BOOLEAN,
           WellParked(new),
           new.retry \in {NULL, RETRY_AT_MAX} \/ (\E t \in Nat : new.retry = Stamp(t)),
           mine => new.retry \in Stamps,
           Write(p, new, mine)
    PROVE  IInv'
  <1>1. writes \in Nat /\ writes' = writes + 1
    BY DEF IInv, TypeOK, Write
  <1>2. new.retry.id <= writes'
    BY <1>1, FreshStamp DEF IInv, NULL, RETRY_AT_MAX
  <1>3. \A q \in Procs : new.retry = mem[q].retry => new.retry \notin Stamps
    BY FreshStamp, RetryKinds DEF IInv
  <1>4. TypeOK'
    BY <1>1 DEF IInv, TypeOK, Write
  <1>5. IdsWritten'
    BY <1>1, <1>2, RetryKinds DEF IInv, TypeOK, IdsWritten, Write, Rows
  <1>6. AllWellParked'
    BY DEF IInv, TypeOK, AllWellParked, WellParked, Write
  <1>7. StampFaithful'
    <2> SUFFICES ASSUME NEW q \in Procs, mem'[q].retry = new.retry,
                        new.retry # RETRY_AT_MAX
                 PROVE  mem'[q].status = new.status
      BY DEF Write, StampFaithful
    <2>1. CASE q = p
      BY <2>1 DEF IInv, TypeOK, Write
    <2>2. CASE q # p
      <3>1. mem'[q] = mem[q] /\ mem[q] \in Rows
        BY <2>2 DEF IInv, TypeOK, Write
      <3>2. new.retry = NULL
        BY <1>3, <3>1, FreshStamp DEF IInv
      <3>3. WellParked(mem[q])
        BY DEF IInv, AllWellParked
      <3>4. QED
        BY <3>1, <3>2, <3>3 DEF WellParked
    <2>3. QED
      BY <2>1, <2>2
  <1>8. ClaimsDiffer'
    <2>1. \A q \in Procs : q # p => mem'[q] = mem[q] /\ claimed'[q] = claimed[q]
      BY DEF IInv, TypeOK, Write
    <2>2. mem'[p] = new /\ claimed'[p] = mine
      BY DEF IInv, TypeOK, Write
    <2>3. QED
      BY <1>3, <2>1, <2>2 DEF IInv, ClaimsDiffer
  <1>9. QED
    BY <1>4, <1>5, <1>6, <1>7, <1>8 DEF IInv

(* Reading the row, or missing an UPDATE, preserves the invariant.         *)
LEMMA ReadInductive ==
    ASSUME IInv, NEW p \in Procs,
           UNCHANGED <<row, now, writes>>,
           NEW copy \in {row, mem[p]},
           mem' = [mem EXCEPT ![p] = copy],
           NEW keep \in BOOLEAN,
           keep => claimed[p] /\ copy.retry = mem[p].retry,
           claimed' = [claimed EXCEPT ![p] = keep]
    PROVE  IInv'
  <1>1. TypeOK'
    BY DEF IInv, TypeOK
  <1>2. IdsWritten' /\ AllWellParked' /\ StampFaithful'
    BY DEF IInv, TypeOK, IdsWritten, AllWellParked, WellParked, StampFaithful
  <1>3. ClaimsDiffer'
    BY DEF IInv, TypeOK, ClaimsDiffer
  <1>4. QED
    BY <1>1, <1>2, <1>3 DEF IInv
-----------------------------------------------------------------------------
(* Claiming: the row and the claimer's copy get the same fresh lease.      *)
LEMMA ClaimInductive ==
    ASSUME IInv, NEW p \in Procs, ClaimForWorker(p)
    PROVE  IInv'
  <1> DEFINE hit == row.retry = mem[p].retry /\ IsDue(row.retry)
             lease == Stamp(now + LockSeconds)
  <1>1. CASE hit /\ row' = [row EXCEPT !.retry = lease]
                 /\ mem' = [mem EXCEPT ![p].retry = lease]
                 /\ claimed' = [claimed EXCEPT ![p] = TRUE]
                 /\ writes' = writes + 1 /\ now' = now
                 /\ writes < MaxWrites
    <2>1. lease \in Stamps
      BY LockAssumption, FreshStamp DEF IInv, TypeOK
    <2>2. [row EXCEPT !.retry = lease] \in Rows
      BY <2>1, RetryKinds DEF IInv, TypeOK, Rows
    <2>3. mem[p] \in Rows /\ row \in Rows /\ mem[p].status = row.status
      BY <1>1 DEF IInv, TypeOK, StampFaithful, IsDue, RETRY_AT_MAX
    <2>4. [mem[p] EXCEPT !.retry = lease] = [row EXCEPT !.retry = lease]
      BY <2>3 DEF Rows
    <2>5. mem' = [mem EXCEPT ![p] = [row EXCEPT !.retry = lease]]
      BY <1>1, <2>4
    <2>6. Write(p, [row EXCEPT !.retry = lease], TRUE)
      BY <1>1, <2>5 DEF Write
    <2>7. WellParked([row EXCEPT !.retry = lease])
      BY <2>1, <2>2, RetryKinds DEF WellParked, Rows
    <2>8. [row EXCEPT !.retry = lease].retry = lease
      BY <2>3 DEF Rows
    <2>9. now + LockSeconds \in Nat
      BY LockAssumption DEF IInv, TypeOK
    <2>10. QED
      BY <2>1, <2>2, <2>6, <2>7, <2>8, <2>9, WriteInductive
  <1>2. CASE Miss(p, mem[p])
    BY <1>2, ReadInductive DEF Miss
  <1>3. QED
    BY <1>1, <1>2 DEF ClaimForWorker

(* update_and_requeue with any of the rows its callers pass.               *)
LEMMA RequeueInductive ==
    ASSUME IInv, NEW p \in Procs, NEW new \in Requeues,
           UpdateAndRequeue(p, new.status, new.retry)
    PROVE  IInv'
  <1>1. new \in Rows /\ WellParked(new)
        /\ (new.retry \in {NULL, RETRY_AT_MAX} \/ \E t \in Nat : new.retry = Stamp(t))
    BY RequeuesShape DEF IInv
  <1>2. [status |-> new.status, retry |-> new.retry] = new
    BY <1>1 DEF Rows
  <1>3. CASE Write(p, new, claimed[p] /\ new.retry.at > now)
    <2>1. (claimed[p] /\ new.retry.at > now) \in BOOLEAN
      OBVIOUS
    <2>2. claimed[p] /\ new.retry.at > now => new.retry \in Stamps
      BY <1>1, FreshStamp DEF IInv, TypeOK, NULL, RETRY_AT_MAX
    <2>3. QED
      BY <1>1, <1>3, <2>1, <2>2, WriteInductive
  <1>4. CASE Miss(p, row)
    BY <1>4, ReadInductive DEF Miss
  <1>5. QED
    BY <1>2, <1>3, <1>4 DEF UpdateAndRequeue

LEMMA PauseInductive ==
    ASSUME IInv, NEW p \in Procs, Pause(p)
    PROVE  IInv'
  <1> DEFINE new == [status |-> Paused, retry |-> RETRY_AT_MAX]
  <1>1. new \in Rows /\ WellParked(new) /\ new.retry = RETRY_AT_MAX
    BY RetryKinds DEF Rows, Status, WellParked, Waiting
  <1>2. CASE Write(p, new, FALSE)
    BY <1>1, <1>2, WriteInductive
  <1>3. CASE Miss(p, row)
    BY <1>3, ReadInductive DEF Miss
  <1>4. QED
    BY <1>2, <1>3 DEF Pause

LEMMA ResumeInductive ==
    ASSUME IInv, NEW p \in Procs, Resume(p)
    PROVE  IInv'
  <1> DEFINE new == [status |-> Queued, retry |-> Stamp(now)]
  <1>1. now \in Nat
    BY DEF IInv, TypeOK
  <1>2. Stamp(now) \in Stamps
    BY <1>1, FreshStamp DEF IInv
  <1>3. new \in Rows /\ WellParked(new) /\ new.retry = Stamp(now)
    BY <1>2, RetryKinds DEF Rows, Status, WellParked, Waiting
  <1>4. CASE Write(p, new, FALSE)
    BY <1>1, <1>3, <1>4, WriteInductive
  <1>5. CASE Miss(p, row)
    BY <1>5, ReadInductive DEF Miss
  <1>6. QED
    BY <1>4, <1>5 DEF Resume

LEMMA LoadInductive ==
    ASSUME IInv, NEW p \in Procs, Load(p)
    PROVE  IInv'
  <1> DEFINE keep == claimed[p] /\ mem[p].retry = row.retry
  <1>1. keep \in BOOLEAN /\ (keep => claimed[p] /\ row.retry = mem[p].retry)
    OBVIOUS
  <1>2. claimed' = [claimed EXCEPT ![p] = keep] /\ mem' = [mem EXCEPT ![p] = row]
    BY DEF Load, IInv, TypeOK
  <1>3. QED
    BY <1>1, <1>2, ReadInductive DEF Load

LEMMA TickInductive == ASSUME IInv, Tick PROVE IInv'
  BY DEF IInv, TypeOK, IdsWritten, AllWellParked, WellParked, StampFaithful,
         ClaimsDiffer, Tick

(* A deletion only gives up what the others' copies may match.             *)
LEMMA MarkInductive == ASSUME IInv, MarkDeleting PROVE IInv'
  <1> DEFINE new == [status |-> Deleting, retry |-> RETRY_AT_MAX]
  <1>1. new \in Rows /\ WellParked(new) /\ new.retry = RETRY_AT_MAX
    BY RetryKinds DEF Rows, Status, WellParked, Waiting, MarkDeleting
  <1>2. new.retry.id = 0
    BY DEF RETRY_AT_MAX
  <1>3. /\ row' = new /\ writes' = writes + 1
        /\ UNCHANGED <<now, mem, claimed>>
    BY DEF MarkDeleting
  <1>4. QED
    BY <1>1, <1>2, <1>3, RetryKinds
       DEF IInv, TypeOK, IdsWritten, AllWellParked, WellParked, StampFaithful,
           ClaimsDiffer, Rows

LEMMA InitIInv == Init => IInv
  <1> SUFFICES ASSUME Init PROVE IInv
    OBVIOUS
  <1>1. ASSUME \E s \in Parks : row = [status |-> s, retry |-> RETRY_AT_MAX]
        PROVE  row \in Rows /\ WellParked(row)
    BY <1>1, RetryKinds, ParksAssumption
       DEF Rows, Status, WellParked, Waiting, NULL, RETRY_AT_MAX
  <1>2. ASSUME row \in {[status |-> s, retry |-> [at |-> 0, id |-> 1]] :
                           s \in {Queued, Started, Sealed}}
                         \cup {[status |-> Sealed, retry |-> NULL],
                               [status |-> Paused, retry |-> RETRY_AT_MAX]}
        PROVE  row \in Rows /\ WellParked(row)
    BY <1>2 DEF Rows, RetryAt, Stamps, Status, WellParked, Waiting,
                NULL, RETRY_AT_MAX, Queued, Started, Paused, Sealed
  <1>3. row \in Rows /\ row.retry.id <= 1 /\ WellParked(row)
    <2>1. row.retry.id <= 1
      BY DEF Init, InitRows, NULL, RETRY_AT_MAX
    <2>2. QED
      BY <1>1, <1>2, <2>1 DEF Init, InitRows
  <1>4. QED
    BY <1>3 DEF Init, IInv, TypeOK, IdsWritten, AllWellParked, WellParked,
                StampFaithful, ClaimsDiffer

LEMMA NextIInv == IInv /\ [Next]_vars => IInv'
  <1> SUFFICES ASSUME IInv, [Next]_vars PROVE IInv'
    OBVIOUS
  <1>1. CASE Tick
    BY <1>1, TickInductive
  <1>2. ASSUME NEW p \in Procs, Load(p) PROVE IInv'
    BY <1>2, LoadInductive
  <1>3. ASSUME NEW p \in Procs, ClaimForWorker(p) \/ ClaimProcessingLock(p)
        PROVE  IInv'
    BY <1>3, ClaimInductive DEF ClaimProcessingLock
  <1>4. ASSUME NEW p \in Procs, Requeue(p) PROVE IInv'
    BY <1>4, RequeueInductive DEF Requeue
  <1>5. ASSUME NEW p \in Procs, Pause(p) PROVE IInv'
    BY <1>5, PauseInductive
  <1>6. ASSUME NEW p \in Procs, Resume(p) PROVE IInv'
    BY <1>6, ResumeInductive
  <1>7. CASE MarkDeleting
    BY <1>7, MarkInductive
  <1>8. CASE UNCHANGED vars
    BY <1>8 DEF vars, IInv, TypeOK, IdsWritten, AllWellParked, WellParked,
                StampFaithful, ClaimsDiffer
  <1>9. QED
    BY <1>1, <1>2, <1>3, <1>4, <1>5, <1>6, <1>7, <1>8 DEF Next

(* The inductive invariant holds in every reachable state.                 *)
THEOREM Invariance == Spec => []IInv
  <1>1. QED
    BY InitIInv, NextIInv, PTL DEF Spec

(* Two holders' timestamps would both be the row's.                        *)
LEMMA IInvConsequences == IInv => TypeOK /\ LeaseExclusive
  BY DEF IInv, ClaimsDiffer, LeaseExclusive, Holds

(* A copy that agrees in retry_at and not in status agrees in waiting.     *)
LEMMA IInvFaithful == IInv => VersionFaithful
  BY DEF IInv, AllWellParked, WellParked, StampFaithful, VersionFaithful

(* The variables of the queue protocol keep their types: a row's retry_at  *)
(* is NULL, RETRY_AT_MAX or a timestamp, whoever wrote it.                 *)
THEOREM TypeCorrect == Spec => []TypeOK
  BY Invariance, IInvConsequences, PTL

(* retry_at is a faithful version number of every row, but for which       *)
(* waiting status RETRY_AT_MAX stands for: what update_and_requeue of      *)
(* workers/models.py rests on.                                             *)
THEOREM VersionFaithfulAlways == Spec => []VersionFaithful
  BY Invariance, IInvFaithful, PTL

(* At most one process holds the row's lease.                              *)
THEOREM LeaseExclusiveAlways == Spec => []LeaseExclusive
  BY Invariance, IInvConsequences, PTL

-----------------------------------------------------------------------------
(* A step that changes the status is a deletion, or an UPDATE of a process *)
(* whose filter compared the status, or compared retry_at and by           *)
(* VersionFaithful the status or the waiting with it.                      *)
SawStatus ==
    \/ row' = [status |-> Deleting, retry |-> RETRY_AT_MAX]
    \/ \E p \in Procs :
          /\ mem'[p] = row'
          /\ \/ mem[p].status = row.status
             \/ /\ mem[p].retry = RETRY_AT_MAX /\ row.retry = RETRY_AT_MAX
                /\ {mem[p].status, row.status} \subseteq Waiting

LEMMA StepSawStatus ==
    ASSUME IInv, [Next]_vars, row'.status # row.status
    PROVE  SawStatus
  <1>1. ASSUME NEW p \in Procs, NEW new, NEW mine, Write(p, new, mine)
        PROVE  mem'[p] = row'
    BY <1>1 DEF Write, IInv, TypeOK
  <1>2. ASSUME NEW p \in Procs, Requeue(p) PROVE SawStatus
    <2>1. PICK new \in Requeues : UpdateAndRequeue(p, new.status, new.retry)
      BY <1>2 DEF Requeue
    <2>2. row.retry = mem[p].retry
          /\ Write(p, [status |-> new.status, retry |-> new.retry],
                   claimed[p] /\ new.retry.at > now)
      BY <2>1 DEF UpdateAndRequeue, Miss
    <2>3. QED
      BY <1>1, <2>2, IInvFaithful DEF VersionFaithful, SawStatus
  <1>3. ASSUME NEW p \in Procs, Pause(p) PROVE SawStatus
    BY <1>1, <1>3 DEF Pause, Miss, SawStatus
  <1>4. ASSUME NEW p \in Procs, Resume(p) PROVE SawStatus
    BY <1>1, <1>4 DEF Resume, Miss, SawStatus
  <1>5. ASSUME NEW p \in Procs,
               Load(p) \/ ClaimForWorker(p) \/ ClaimProcessingLock(p)
        PROVE  FALSE
    BY <1>5 DEF Load, ClaimForWorker, ClaimProcessingLock, Miss, IInv, TypeOK, Rows
  <1>6. CASE MarkDeleting
    BY <1>6 DEF MarkDeleting, SawStatus
  <1>7. QED
    BY <1>2, <1>3, <1>4, <1>5, <1>6 DEF Next, Tick, vars

(* No process takes a row out of a status it has not read, unless its copy *)
(* and the row both wait at RETRY_AT_MAX or it deletes the row: what       *)
(* workers/models.py gets from comparing retry_at alone.                   *)
THEOREM WriterSawStatusAlways == Spec => WriterSawStatus
  <1>1. IInv /\ [Next]_vars => [row'.status # row.status => SawStatus]_vars
    BY StepSawStatus
  <1>2. QED
    BY <1>1, Invariance, PTL DEF Spec, WriterSawStatus, SawStatus

-----------------------------------------------------------------------------
(* The refinement mapping is well defined: a holder is the owner.          *)
OwnerDetermined ==
    /\ \A p \in Procs : Holds(p) => Owner = p
    /\ (\A p \in Procs : ~Holds(p)) => Owner = NoOne
    /\ Owner # NoOne => Owner \in Procs /\ Holds(Owner)

LEMMA OwnerIsHolder == IInv => OwnerDetermined
  BY IInvConsequences, NoOneAssumption DEF LeaseExclusive, Owner, OwnerDetermined

LEMMA OwnerIsHolderNext == IInv' => OwnerDetermined'
  BY OwnerIsHolder, PTL

(* After an UPDATE the writer owns the row if it keeps a claim, else       *)
(* nobody does: no copy carries the timestamp just written.                *)
LEMMA OwnerAfterWrite ==
    ASSUME IInv, IInv', NEW p \in Procs, NEW new \in Rows, NEW mine \in BOOLEAN,
           new.retry \in {NULL, RETRY_AT_MAX} \/ (\E t \in Nat : new.retry = Stamp(t)),
           Write(p, new, mine)
    PROVE  Owner' = IF mine THEN p ELSE NoOne
  <1>1. /\ \A q \in Procs : Holds(q)' => Owner' = q
        /\ (\A q \in Procs : ~Holds(q)') => Owner' = NoOne
    BY OwnerIsHolderNext DEF OwnerDetermined
  <1>2. row' = new /\ mem'[p] = new /\ claimed'[p] = mine
    BY DEF IInv, TypeOK, Write
  <1>3. ASSUME NEW q \in Procs, q # p PROVE ~Holds(q)'
    <2>1. mem'[q] = mem[q] /\ claimed'[q] = claimed[q]
      BY <1>3 DEF IInv, TypeOK, Write
    <2>2. claimed[q] => mem[q].retry \in Stamps
      BY DEF IInv, ClaimsDiffer
    <2>3. mem[q].retry \in Stamps => mem[q].retry # new.retry
      BY FreshStamp, RetryKinds DEF IInv
    <2>4. QED
      BY <1>2, <2>1, <2>2, <2>3 DEF Holds
  <1>4. Holds(p)' <=> mine
    BY <1>2 DEF Holds
  <1>5. QED
    BY <1>1, <1>3, <1>4

(* A statement that only reads leaves the owner alone, or drops it.        *)
LEMMA OwnerAfterRead ==
    ASSUME IInv, IInv', NEW p \in Procs, row' = row,
           \A q \in Procs : q # p => mem'[q] = mem[q] /\ claimed'[q] = claimed[q],
           claimed'[p] => claimed[p] /\ mem'[p].retry = mem[p].retry
    PROVE  Owner' \in {Owner, NoOne}
  <1>1. /\ \A q \in Procs : Holds(q)' => Owner' = q
        /\ (\A q \in Procs : ~Holds(q)') => Owner' = NoOne
    BY OwnerIsHolderNext DEF OwnerDetermined
  <1>2. \A q \in Procs : Holds(q)' => Holds(q)
    BY DEF Holds
  <1>3. QED
    BY <1>1, <1>2, OwnerIsHolder DEF OwnerDetermined

(* The clock only expires leases.                                          *)
LEMMA DueForGood ==
    ASSUME IInv, NEW r \in RetryAt, now' >= now, now' \in Nat, IsDue(r)
    PROVE  IsDue(r)'
  BY RetryKinds DEF IInv, TypeOK, IsDue

LEMMA TickRefines == ASSUME IInv, IInv', Tick PROVE [Lease!LeaseNext]_Lease!leaseVars
  <1>1. UNCHANGED <<row, mem, claimed>>
    BY DEF Tick
  <1>2. Owner' = Owner
    BY <1>1 DEF Owner, Holds
  <1>3. IsDue(row.retry) => IsDue(row.retry)'
    BY <1>1, DueForGood DEF IInv, TypeOK, Tick, Rows
  <1>4. CASE IsDue(row.retry)' <=> IsDue(row.retry)
    BY <1>1, <1>2, <1>4 DEF Lease!leaseVars
  <1>5. CASE ~IsDue(row.retry) /\ IsDue(row.retry)' /\ Owner # NoOne
    BY <1>1, <1>2, <1>5 DEF Lease!LeaseNext, Lease!Expire
  <1>6. CASE Owner = NoOne
    BY <1>1, <1>2, <1>6 DEF Lease!leaseVars
  <1>7. QED
    BY <1>3, <1>4, <1>5, <1>6

LEMMA ReadRefines ==
    ASSUME IInv, IInv', NEW p \in Procs, UNCHANGED <<row, now>>,
           \A q \in Procs : q # p => mem'[q] = mem[q] /\ claimed'[q] = claimed[q],
           claimed'[p] => claimed[p] /\ mem'[p].retry = mem[p].retry
    PROVE  [Lease!LeaseNext]_Lease!leaseVars
  <1>1. Owner' \in {Owner, NoOne}
    BY OwnerAfterRead
  <1>2. IsDue(row.retry)' <=> IsDue(row.retry)
    BY DEF IsDue
  <1>3. CASE Owner' = Owner
    BY <1>2, <1>3 DEF Lease!leaseVars
  <1>4. CASE Owner' = NoOne
    BY <1>4 DEF Lease!LeaseNext, Lease!LetGo
  <1>5. QED
    BY <1>1, <1>3, <1>4

(* An UPDATE by the holder is HolderWrite, by anybody else Override: a     *)
(* process that did not hold the row does not after update_and_requeue,    *)
(* pause or resume either.                                                 *)
LEMMA WriteRefines ==
    ASSUME IInv, IInv', NEW p \in Procs, NEW new \in Rows, NEW mine \in BOOLEAN,
           new.retry \in {NULL, RETRY_AT_MAX} \/ (\E t \in Nat : new.retry = Stamp(t)),
           mine => Holds(p) /\ new.retry.at > now,
           Write(p, new, mine)
    PROVE  [Lease!LeaseNext]_Lease!leaseVars
  <1>1. Owner' = IF mine THEN p ELSE NoOne
    BY OwnerAfterWrite
  <1>2. row'.status \in Status /\ row' = new /\ now' = now
    BY DEF Write, Rows
  <1>3. CASE mine
    <2>1. Owner = p
      BY <1>3, OwnerIsHolder DEF OwnerDetermined
    <2>2. ~IsDue(new.retry)
      BY <1>3, RetryKinds DEF IsDue, IInv, TypeOK, Rows
    <2>3. ~IsDue(row.retry)'
      BY <1>2, <2>2 DEF IsDue
    <2>4. QED
      BY <1>1, <1>2, <1>3, <2>1, <2>3 DEF Lease!LeaseNext, Lease!HolderWrite
  <1>4. CASE ~mine
    BY <1>1, <1>2, <1>4 DEF Lease!LeaseNext, Lease!Override
  <1>5. QED
    BY <1>3, <1>4

LEMMA ClaimRefines ==
    ASSUME IInv, IInv', NEW p \in Procs, ClaimForWorker(p)
    PROVE  [Lease!LeaseNext]_Lease!leaseVars
  <1> DEFINE lease == Stamp(now + LockSeconds)
  <1>1. CASE Miss(p, mem[p])
    BY <1>1, ReadRefines DEF Miss, IInv, TypeOK
  <1>2. CASE /\ row.retry = mem[p].retry /\ IsDue(row.retry)
             /\ row' = [row EXCEPT !.retry = lease]
             /\ mem' = [mem EXCEPT ![p].retry = lease]
             /\ claimed' = [claimed EXCEPT ![p] = TRUE]
             /\ now' = now
    <2>1. row \in Rows /\ row'.retry = lease /\ row'.status = row.status
          /\ mem'[p].retry = lease /\ claimed'[p]
      BY <1>2 DEF IInv, TypeOK, Rows
    <2>2. Owner' = p
      BY <2>1, OwnerIsHolderNext DEF OwnerDetermined, Holds
    <2>3. lease.at = now + LockSeconds
      BY LockAssumption, FreshStamp DEF IInv, TypeOK
    <2>4. ~IsDue(row.retry)'
      BY <1>2, <2>1, <2>3, LockAssumption DEF IsDue, IInv, TypeOK
    <2>5. QED
      BY <1>2, <2>1, <2>2, <2>4 DEF Lease!LeaseNext, Lease!Acquire
  <1>3. QED
    BY <1>1, <1>2 DEF ClaimForWorker

(* A deletion takes the lease from whoever has it.                         *)
LEMMA MarkRefines ==
    ASSUME IInv, IInv', MarkDeleting
    PROVE  [Lease!LeaseNext]_Lease!leaseVars
  <1>1. /\ row' = [status |-> Deleting, retry |-> RETRY_AT_MAX]
        /\ UNCHANGED <<now, mem, claimed>>
    BY DEF MarkDeleting
  <1>2. \A p \in Procs : ~Holds(p)'
    BY <1>1, RetryKinds DEF IInv, ClaimsDiffer, Holds
  <1>3. Owner' = NoOne
    BY <1>2, OwnerIsHolderNext DEF OwnerDetermined
  <1>4. row'.status \in Status
    BY <1>1 DEF Status
  <1>5. QED
    BY <1>3, <1>4 DEF Lease!LeaseNext, Lease!Override

LEMMA NextRefines == IInv /\ IInv' /\ [Next]_vars => [Lease!LeaseNext]_Lease!leaseVars
  <1> SUFFICES ASSUME IInv, IInv', [Next]_vars
               PROVE  [Lease!LeaseNext]_Lease!leaseVars
    OBVIOUS
  <1>1. ASSUME NEW p \in Procs, Miss(p, row)
        PROVE  [Lease!LeaseNext]_Lease!leaseVars
    BY <1>1, ReadRefines DEF Miss, IInv, TypeOK
  <1>2. ASSUME NEW p \in Procs, Load(p)
        PROVE  [Lease!LeaseNext]_Lease!leaseVars
    BY <1>2, ReadRefines DEF Load, IInv, TypeOK
  <1>3. ASSUME NEW p \in Procs, Requeue(p)
        PROVE  [Lease!LeaseNext]_Lease!leaseVars
    <2>1. PICK new \in Requeues : UpdateAndRequeue(p, new.status, new.retry)
      BY <1>3 DEF Requeue
    <2>2. new \in Rows
          /\ (new.retry \in {NULL, RETRY_AT_MAX} \/ \E t \in Nat : new.retry = Stamp(t))
      BY RequeuesShape DEF IInv
    <2>3. [status |-> new.status, retry |-> new.retry] = new
      BY <2>2 DEF Rows
    <2>4. CASE /\ row.retry = mem[p].retry
               /\ Write(p, new, claimed[p] /\ new.retry.at > now)
      <3>1. claimed[p] /\ new.retry.at > now => Holds(p) /\ new.retry.at > now
        BY <2>4 DEF Holds
      <3>2. QED
        BY <2>2, <2>4, <3>1, WriteRefines
    <2>5. QED
      BY <1>1, <2>1, <2>3, <2>4 DEF UpdateAndRequeue
  <1>4. ASSUME NEW p \in Procs, Pause(p)
        PROVE  [Lease!LeaseNext]_Lease!leaseVars
    <2> DEFINE new == [status |-> Paused, retry |-> RETRY_AT_MAX]
    <2>1. new \in Rows /\ new.retry = RETRY_AT_MAX
      BY RetryKinds DEF Rows, Status
    <2>2. CASE Write(p, new, FALSE)
      BY <2>1, <2>2, WriteRefines
    <2>3. QED
      BY <1>1, <1>4, <2>2 DEF Pause
  <1>5. ASSUME NEW p \in Procs, Resume(p)
        PROVE  [Lease!LeaseNext]_Lease!leaseVars
    <2> DEFINE new == [status |-> Queued, retry |-> Stamp(now)]
    <2>1. now \in Nat
      BY DEF IInv, TypeOK
    <2>2. new \in Rows /\ new.retry = Stamp(now)
      BY <2>1, FreshStamp, RetryKinds DEF IInv, Rows, Status
    <2>3. CASE Write(p, new, FALSE)
      BY <2>1, <2>2, <2>3, WriteRefines
    <2>4. QED
      BY <1>1, <1>5, <2>3 DEF Resume
  <1>6. ASSUME NEW p \in Procs, ClaimForWorker(p) \/ ClaimProcessingLock(p)
        PROVE  [Lease!LeaseNext]_Lease!leaseVars
    BY <1>6, ClaimRefines DEF ClaimProcessingLock
  <1>7. CASE Tick
    BY <1>7, TickRefines
  <1>8. CASE UNCHANGED vars
    <2>1. Owner' = Owner /\ (IsDue(row.retry)' <=> IsDue(row.retry)) /\ row' = row
      BY <1>8 DEF vars, Owner, Holds, IsDue
    <2>2. QED
      BY <2>1 DEF Lease!leaseVars
  <1>9. CASE MarkDeleting
    BY <1>9, MarkRefines
  <1>10. QED
    BY <1>2, <1>3, <1>4, <1>5, <1>6, <1>7, <1>8, <1>9 DEF Next

LEMMA InitRefines == Init => Lease!LeaseInit
  <1> SUFFICES ASSUME Init PROVE Lease!LeaseInit
    OBVIOUS
  <1>1. Owner = NoOne
    BY DEF Init, Owner, Holds
  <1>2. row.status \in Status
    BY InitIInv DEF IInv, TypeOK, Rows
  <1>3. QED
    BY <1>1, <1>2 DEF Lease!LeaseInit

(* The conditional updates of ModelWithQueue implement a lease: nobody     *)
(* takes a running one, and only its holder renews it.                     *)
THEOREM LeaseRefinement == Spec => ImplementsLease
  BY InitRefines, NextRefines, Invariance, PTL DEF Spec, ImplementsLease, Lease!LeaseSpec
=============================================================================
