------------------------ MODULE LifecycleLock_proofs ------------------------
(***************************************************************************)
(* Mutual exclusion of the lifecycle lock, for any number of processes,    *)
(* threads, nested with-statements, state objects and open files, and any  *)
(* number of crashes, forks and failing calls.                             *)
(*                                                                         *)
(* The invariant gives each process its own account of the lock (ProcInv:  *)
(* what the entry of its registry counts is what its threads do) and ties  *)
(* two processes only by Apart: no two of them have the same open file.    *)
(* A process that is inside has its file locked (StateInv), and there is   *)
(* one flock.  A registry inherited through a fork is engaged by nobody:   *)
(* regpid names the parent.                                                *)
(***************************************************************************)
EXTENDS LifecycleLock, FiniteSetTheorems, TLAPS

(* p uses its registry's entry for the key, and that entry's state object. *)
Engaged(p) == regpid[p] = p /\ registry[p] # None
St(p)      == state[p][registry[p]]

(* How often the RLock, and the depth of the state, count actor a.         *)
Count(a) == IF pc[a] \in {"acquire", "unregister"} THEN level[a] - 1 ELSE level[a]
Depth(a) == IF pc[a] \in {"out", "inside"} THEN level[a] ELSE level[a] - 1

(* The with-statements of p, one for each use of the state.                *)
Uses(p) == {x \in Threads \X (1..MaxLevel) : x[2] <= level[<<p, x[1]>>]}

(* Nothing is left of a process that does not run.                         *)
DeadInv(p) ==
    p \notin alive =>
        /\ regpid[p] = p /\ registry[p] = None
        /\ \A t \in Threads : level[<<p, t>>] = 0
        /\ \A f \in Files : p \notin fds[f]

(* All with-statements of a process use one state: the registry's.         *)
ThreadInv(p, t) ==
    /\ pc[<<p, t>>] = "out" <=> level[<<p, t>>] = 0
    /\ level[<<p, t>>] > 0 => Engaged(p)
    /\ \A i \in 1..level[<<p, t>>] : frame[<<p, t, i>>] = registry[p]
    /\ pc[<<p, t>>] \in {"open", "flock"} => level[<<p, t>>] = 1

(* The RLock's owner and count, and the depth, are those of its owner.     *)
LockInv(p, t) ==
    Engaged(p) =>
        /\ St(p).owner = t <=> Count(<<p, t>>) > 0
        /\ St(p).owner = t => St(p).count = Count(<<p, t>>) /\ St(p).depth = Depth(<<p, t>>)

(* The entry counts its users, and has the lock file open exactly while    *)
(* its owner is inside or about to lock the file.                          *)
StateInv(p) ==
    Engaged(p) =>
        /\ St(p).owner = None => St(p).count = 0 /\ St(p).depth = 0
        /\ St(p).users = Cardinality(Uses(p)) /\ Uses(p) # {}
        /\ St(p).file # None <=> St(p).depth > 0 \/ \E t \in Threads : pc[<<p, t>>] = "flock"
        /\ St(p).depth > 0 => St(p).file = flock

(* The file of the entry is open in the process, inherited or not.         *)
FileInv(p) ==
    registry[p] # None /\ St(p).file # None => p \in fds[St(p).file]

(* Two processes that use the lock opened two files.                       *)
Apart(p, q) ==
    Engaged(p) /\ Engaged(q) /\ St(p).file # None /\ St(p).file = St(q).file => p = q

IInv ==
    /\ TypeOK
    /\ \A p \in Procs : DeadInv(p) /\ StateInv(p) /\ FileInv(p)
    /\ \A p \in Procs, t \in Threads : ThreadInv(p, t) /\ LockInv(p, t)
    /\ \A p, q \in Procs : Apart(p, q)

(* What a step of another process leaves alone.                            *)
Untouched(q) ==
    /\ q \in alive <=> q \in alive'
    /\ regpid'[q] = regpid[q] /\ registry'[q] = registry[q] /\ state'[q] = state[q]
    /\ \A t \in Threads : pc'[<<q, t>>] = pc[<<q, t>>] /\ level'[<<q, t>>] = level[<<q, t>>]
    /\ \A t \in Threads, i \in 1..MaxLevel : frame'[<<q, t, i>>] = frame[<<q, t, i>>]
    /\ \A f \in Files : q \in fds[f] <=> q \in fds'[f]

(* The part of the invariant that is about p alone.                        *)
ProcInv(p) ==
    /\ DeadInv(p) /\ StateInv(p) /\ FileInv(p)
    /\ \A t \in Threads : ThreadInv(p, t) /\ LockInv(p, t)

-----------------------------------------------------------------------------
(* A process has finitely many with-statements to count.                   *)
LEMMA UsesFinite ==
    ASSUME NEW p
    PROVE  IsFiniteSet(Uses(p))
<1>1. IsFiniteSet(1..MaxLevel)
  BY FS_Interval, LevelAssumption
<1>2. IsFiniteSet(Threads \X (1..MaxLevel))
  BY <1>1, FS_Product, FiniteAssumption
<1> QED
  BY <1>2, FS_Subset DEF Uses

(* A process keeps its account through the steps of others, provided that  *)
(* they leave the flock alone while it is inside.                          *)
LEMMA UntouchedKept ==
    ASSUME TypeOK, TypeOK', NEW q \in Procs, ProcInv(q), Untouched(q),
           Engaged(q) /\ St(q).depth > 0 => flock' = flock
    PROVE  ProcInv(q)'
<1>1. Engaged(q)' = Engaged(q) /\ St(q)' = St(q) /\ Uses(q)' = Uses(q)
  BY DEF Untouched, Engaged, St, Uses
<1>2. DeadInv(q)'
  BY DEF ProcInv, DeadInv, Untouched
<1>3. StateInv(q)'
  BY <1>1 DEF ProcInv, StateInv, Untouched
<1>4. FileInv(q)'
  BY <1>1 DEF ProcInv, FileInv, Untouched, TypeOK, St, LockState
<1>5. ASSUME NEW t \in Threads
      PROVE  ThreadInv(q, t)' /\ LockInv(q, t)'
  <2>1. Count(<<q, t>>)' = Count(<<q, t>>) /\ Depth(<<q, t>>)' = Depth(<<q, t>>)
    BY DEF Count, Depth, Untouched
  <2>2. LockInv(q, t)'
    BY <1>1, <2>1 DEF ProcInv, LockInv
  <2>3. ThreadInv(q, t)'
    <3>1. ThreadInv(q, t) /\ level[<<q, t>>] \in 0..MaxLevel
      BY DEF ProcInv, TypeOK, Actors
    <3>2. \A i \in 1..level[<<q, t>>] : i \in 1..MaxLevel
      BY <3>1, LevelAssumption
    <3>3. (\A i \in 1..level[<<q, t>>] : frame[<<q, t, i>>] = registry[q])'
      BY <3>1, <3>2 DEF ThreadInv, Untouched
    <3> QED
      BY <1>1, <3>1, <3>3 DEF ThreadInv, Untouched
  <2> QED
    BY <2>2, <2>3
<1> QED
  BY <1>2, <1>3, <1>4, <1>5 DEF ProcInv

(* A step of p keeps the invariant if p's own account holds afterwards,    *)
(* and p has no file but its old one or one that nobody else has.          *)
LEMMA StepKept ==
    ASSUME IInv, TypeOK', NEW p \in Procs, ProcInv(p)',
           \A q \in Procs \ {p} :
               /\ Untouched(q)
               /\ Engaged(q) /\ St(q).depth > 0 => flock' = flock,
           Engaged(p)' /\ St(p)'.file # None =>
               \/ Engaged(p) /\ St(p)'.file = St(p).file
               \/ \A q \in Procs \ {p} : Engaged(q) => St(q).file # St(p)'.file
    PROVE  IInv'
<1>1. ASSUME NEW q \in Procs \ {p}
      PROVE  ProcInv(q)' /\ Engaged(q)' = Engaged(q) /\ St(q)' = St(q)
  <2>1. ProcInv(q)
    BY DEF IInv, ProcInv
  <2>2. ProcInv(q)'
    BY <2>1, UntouchedKept DEF IInv
  <2>3. Engaged(q)' = Engaged(q) /\ St(q)' = St(q)
    BY DEF Engaged, St, Untouched
  <2> QED
    BY <2>2, <2>3
<1>2. \A q \in Procs : ProcInv(q)'
  BY <1>1
<1>3. ASSUME NEW q \in Procs, NEW r \in Procs
      PROVE  Apart(q, r)'
  <2>1. CASE q # p /\ r # p
    BY <1>1, <2>1 DEF IInv, Apart
  <2>2. CASE q = p /\ r # p
    BY <1>1, <2>2 DEF IInv, Apart
  <2>3. CASE q # p /\ r = p
    BY <1>1, <2>3 DEF IInv, Apart
  <2>4. CASE q = r
    BY <2>4 DEF Apart
  <2> QED
    BY <2>1, <2>2, <2>3, <2>4
<1> QED
  BY <1>2, <1>3 DEF IInv, ProcInv

(* A thread in a with-statement works with the state the registry has.     *)
LEMMA Working ==
    ASSUME IInv, NEW p \in Procs, NEW t \in Threads, pc[<<p, t>>] # "out"
    PROVE  /\ level[<<p, t>>] \in 1..MaxLevel
           /\ Engaged(p) /\ Mine(p, t) = registry[p] /\ registry[p] \in States
           /\ St(p) \in LockState
<1>1. level[<<p, t>>] \in 0..MaxLevel /\ registry[p] \in States \cup {None}
  BY DEF IInv, TypeOK, Actors
<1>2. ThreadInv(p, t)
  BY DEF IInv
<1>3. level[<<p, t>>] \in 1..MaxLevel
  BY <1>1, <1>2, LevelAssumption DEF ThreadInv
<1>4. Engaged(p) /\ Mine(p, t) = registry[p]
  BY <1>2, <1>3, LevelAssumption DEF ThreadInv, Mine
<1>5. registry[p] \in States /\ St(p) \in LockState
  BY <1>1, <1>4 DEF Engaged, St, IInv, TypeOK
<1> QED
  BY <1>3, <1>4, <1>5

(* A step that writes that state and nothing else of it.                   *)
LEMMA Written ==
    ASSUME TypeOK, NEW p \in Procs, registry[p] \in States, NEW st,
           state' = [state EXCEPT ![p][registry[p]] = st], registry' = registry
    PROVE  St(p)' = st /\ \A q \in Procs \ {p} : state'[q] = state[q]
BY DEF TypeOK, St

(* A state object with its fields in range keeps the type of "state".      *)
LEMMA StateTyped ==
    ASSUME TypeOK, NEW p \in Procs, NEW s \in States, NEW st \in LockState
    PROVE  [state EXCEPT ![p][s] = st] \in [Procs -> [States -> LockState]]
BY DEF TypeOK

(* Another thread of the process: its view of the RLock has not changed.   *)
LEMMA BystanderKept ==
    ASSUME IInv, TypeOK', NEW p \in Procs, NEW u \in Threads,
           Engaged(p), Engaged(p)', registry'[p] = registry[p],
           pc'[<<p, u>>] = pc[<<p, u>>], level'[<<p, u>>] = level[<<p, u>>],
           \A i \in 1..MaxLevel : frame'[<<p, u, i>>] = frame[<<p, u, i>>],
           St(p)'.owner = u <=> St(p).owner = u,
           St(p).owner = u => St(p)'.count = St(p).count /\ St(p)'.depth = St(p).depth
    PROVE  ThreadInv(p, u)' /\ LockInv(p, u)'
<1>1. ThreadInv(p, u) /\ LockInv(p, u) /\ level[<<p, u>>] \in 0..MaxLevel
  BY DEF IInv, TypeOK, Actors
<1>2. Count(<<p, u>>)' = Count(<<p, u>>) /\ Depth(<<p, u>>)' = Depth(<<p, u>>)
  BY DEF Count, Depth
<1>3. LockInv(p, u)'
  BY <1>1, <1>2 DEF LockInv
<1>4. \A i \in 1..level[<<p, u>>] : i \in 1..MaxLevel
  BY <1>1, LevelAssumption
<1>5. ThreadInv(p, u)'
  BY <1>1, <1>4 DEF ThreadInv
<1> QED
  BY <1>3, <1>5

(* What an update of some fields makes of a state object.                  *)
LEMMA Updates ==
    ASSUME NEW r \in LockState, NEW t, NEW c, NEW x
    PROVE  /\ x = [r EXCEPT !.owner = t, !.count = @ + 1]
              => x = [owner |-> t, count |-> r.count + 1, users |-> r.users,
                      depth |-> r.depth, file |-> r.file]
           /\ x = [r EXCEPT !.owner = t, !.count = @ + 1, !.depth = @ + 1]
              => x = [owner |-> t, count |-> r.count + 1, users |-> r.users,
                      depth |-> r.depth + 1, file |-> r.file]
           /\ x = [r EXCEPT !.depth = @ - 1, !.file = None]
              => x = [owner |-> r.owner, count |-> r.count, users |-> r.users,
                      depth |-> r.depth - 1, file |-> None]
           /\ x = [r EXCEPT !.count = @ - 1, !.owner = IF c THEN None ELSE @]
              => x = [owner |-> IF c THEN None ELSE r.owner, count |-> r.count - 1,
                      users |-> r.users, depth |-> r.depth, file |-> r.file]
BY DEF LockState

-----------------------------------------------------------------------------
(* Acquiring the RLock: free, so nobody is inside; or the thread's own.    *)
LEMMA AcquireThreadLockKept ==
    ASSUME IInv, NEW p \in Procs, NEW t \in Threads, AcquireThreadLock(p, t)
    PROVE  IInv'
<1> DEFINE deeper == St(p).depth > 0
<1> DEFINE where == IF deeper THEN "inside" ELSE "open"
<1>1. /\ level[<<p, t>>] \in 1..MaxLevel /\ Engaged(p) /\ Mine(p, t) = registry[p]
      /\ registry[p] \in States /\ St(p) \in LockState /\ pc[<<p, t>>] = "acquire"
  BY Working DEF AcquireThreadLock
<1>2. TypeOK /\ ProcInv(p) /\ t # None /\ p \in alive
  BY NoneAssumption DEF IInv, ProcInv, AcquireThreadLock
<1>3. PICK st : st = [owner |-> t, count |-> St(p).count + 1, users |-> St(p).users,
                      depth |-> IF deeper THEN St(p).depth + 1 ELSE St(p).depth,
                      file |-> St(p).file]
  OBVIOUS
<1>4. /\ St(p).owner \in {None, t}
      /\ state' = [state EXCEPT ![p][registry[p]] = st] /\ pc' = [pc EXCEPT ![<<p, t>>] = where]
      /\ UNCHANGED <<alive, regpid, registry, fds, flock, level, frame, faults>>
  <2>1. PICK new :
           /\ Update(p, registry[p], new)
           /\ \/ /\ St(p).depth = 0 /\ GoTo(p, t, "open")
                 /\ new = [St(p) EXCEPT !.owner = t, !.count = @ + 1]
              \/ /\ St(p).depth > 0 /\ GoTo(p, t, "inside")
                 /\ new = [St(p) EXCEPT !.owner = t, !.count = @ + 1, !.depth = @ + 1]
    BY <1>1, Zenon DEF AcquireThreadLock, St
  <2>2. new = st
    <3>1. \/ /\ St(p).depth = 0
             /\ new = [owner |-> t, count |-> St(p).count + 1, users |-> St(p).users,
                       depth |-> St(p).depth, file |-> St(p).file]
          \/ /\ St(p).depth > 0
             /\ new = [owner |-> t, count |-> St(p).count + 1, users |-> St(p).users,
                       depth |-> St(p).depth + 1, file |-> St(p).file]
      BY <1>1, <2>1, Updates, Zenon
    <3> QED
      BY <1>1, <1>3, <3>1 DEF LockState
  <2> QED
    BY <1>1, <1>2, <2>1, <2>2 DEF AcquireThreadLock, Update, St, GoTo
<1>5. st \in LockState
  BY <1>1, <1>3 DEF LockState
<1>6. TypeOK'
  <2>1. state' \in [Procs -> [States -> LockState]]
    BY <1>1, <1>2, <1>4, <1>5, StateTyped
  <2> QED
    BY <1>2, <1>4, <2>1 DEF TypeOK, Where
<1>7. St(p)' = st /\ Engaged(p)' /\ \A q \in Procs \ {p} : Untouched(q)
  BY <1>1, <1>2, <1>4, Written DEF Untouched, Engaged, TypeOK, Actors
<1>8. ProcInv(p)'
  <2>1. Uses(p)' = Uses(p)
    BY <1>4 DEF Uses
  <2>2. pc'[<<p, t>>] = where /\ \A u \in Threads \ {t} : pc'[<<p, u>>] = pc[<<p, u>>]
    BY <1>2, <1>4 DEF TypeOK, Actors
  <2>3. ThreadInv(p, t) /\ LockInv(p, t) /\ StateInv(p)
    BY <1>2 DEF ProcInv
  <2>4. /\ deeper => St(p).owner = t /\ level[<<p, t>>] > 1
        /\ ~ deeper => St(p).owner = None /\ level[<<p, t>>] = 1 /\ St(p).count = 0
        /\ St(p).count = level[<<p, t>>] - 1 /\ St(p).depth = level[<<p, t>>] - 1
    BY <1>1, <1>2, <1>4, <2>3, LevelAssumption DEF LockInv, StateInv, Count, Depth, LockState
  <2>5. StateInv(p)'
    BY <1>1, <1>2, <1>3, <1>4, <1>7, <2>1, <2>2, <2>3 DEF StateInv, LockState
  <2>6. FileInv(p)' /\ DeadInv(p)'
    BY <1>2, <1>3, <1>4, <1>7 DEF ProcInv, FileInv, DeadInv
  <2>7. ThreadInv(p, t)'
    BY <1>1, <1>4, <1>7, <2>2, <2>3, <2>4 DEF ThreadInv
  <2>8. LockInv(p, t)'
    BY <1>1, <1>3, <1>7, <1>4, <2>2, <2>4, LevelAssumption DEF LockInv, Count, Depth, LockState
  <2>9. ASSUME NEW u \in Threads \ {t}
        PROVE  ThreadInv(p, u)' /\ LockInv(p, u)'
    <3>1. (St(p)'.owner = u <=> St(p).owner = u) /\ St(p).owner # u
      BY <1>3, <1>4, <1>7, NoneAssumption
    <3>2. St(p).owner = u => St(p)'.count = St(p).count /\ St(p)'.depth = St(p).depth
      BY <3>1
    <3> QED
      BY <1>1, <1>4, <1>6, <1>7, <2>2, <3>1, <3>2, BystanderKept
  <2> QED
    BY <2>5, <2>6, <2>7, <2>8, <2>9 DEF ProcInv
<1> QED
  BY <1>1, <1>3, <1>4, <1>6, <1>7, <1>8, StepKept

(* The file opened is one no process has.                                  *)
LEMMA OpenFileKept ==
    ASSUME IInv, NEW p \in Procs, NEW t \in Threads, OpenFile(p, t)
    PROVE  IInv'
<1>1. /\ level[<<p, t>>] \in 1..MaxLevel /\ Engaged(p) /\ Mine(p, t) = registry[p]
      /\ registry[p] \in States /\ St(p) \in LockState /\ pc[<<p, t>>] = "open"
  BY Working DEF OpenFile
<1>2. TypeOK /\ ProcInv(p) /\ t # None /\ p \in alive
  BY NoneAssumption DEF IInv, ProcInv, OpenFile
<1>3. PICK f \in Files : fds[f] = {} /\ fds' = [fds EXCEPT ![f] = {p}]
                         /\ Update(p, registry[p], [St(p) EXCEPT !.file = f])
  <2>1. \E f \in Files : fds[f] = {}
    BY DEF OpenFile
  <2> QED
    BY <1>1, <2>1, Zenon DEF OpenFile, St
<1>4. PICK st : st = [St(p) EXCEPT !.file = f]
  OBVIOUS
<1>5. /\ st = [owner |-> St(p).owner, count |-> St(p).count, users |-> St(p).users,
               depth |-> St(p).depth, file |-> f]
      /\ st \in LockState /\ f # None
  BY <1>1, <1>4, NoneAssumption DEF LockState
<1>6. /\ state' = [state EXCEPT ![p][registry[p]] = st] /\ pc' = [pc EXCEPT ![<<p, t>>] = "flock"]
      /\ UNCHANGED <<alive, regpid, registry, flock, level, frame, faults>>
  BY <1>3, <1>4 DEF OpenFile, GoTo, Update
<1>7. TypeOK'
  <2>1. state' \in [Procs -> [States -> LockState]]
    BY <1>1, <1>2, <1>6, <1>5, StateTyped
  <2> QED
    BY <1>2, <1>3, <1>6, <2>1 DEF TypeOK, Where
<1>8. St(p)' = st /\ Engaged(p)' /\ \A q \in Procs \ {p} : state'[q] = state[q]
  BY <1>1, <1>2, <1>6, Written DEF Engaged
<1>9. ASSUME NEW q \in Procs \ {p}
      PROVE  Untouched(q)
  <2>1. \A g \in Files : q \in fds[g] <=> q \in fds'[g]
    BY <1>2, <1>3 DEF TypeOK
  <2> QED
    BY <1>2, <1>6, <1>8, <2>1 DEF Untouched, TypeOK, Actors
<1>10. ProcInv(p)'
  <2>1. Uses(p)' = Uses(p)
    BY <1>6 DEF Uses
  <2>2. pc'[<<p, t>>] = "flock" /\ \A u \in Threads \ {t} : pc'[<<p, u>>] = pc[<<p, u>>]
    BY <1>2, <1>6 DEF TypeOK, Actors
  <2>3. ThreadInv(p, t) /\ LockInv(p, t) /\ StateInv(p)
    BY <1>2 DEF ProcInv
  <2>4. St(p).owner = t /\ level[<<p, t>>] = 1 /\ St(p).count = 1 /\ St(p).depth = 0
    BY <1>1, <2>3 DEF ThreadInv, LockInv, Count, Depth
  <2>5. StateInv(p)'
    BY <1>1, <1>2, <1>5, <1>6, <1>8, <2>1, <2>2, <2>3, <2>4 DEF StateInv
  <2>6. FileInv(p)' /\ DeadInv(p)'
    BY <1>2, <1>3, <1>5, <1>6, <1>8 DEF FileInv, DeadInv, TypeOK
  <2>7. ThreadInv(p, t)'
    BY <1>1, <1>6, <1>8, <2>2, <2>3, <2>4 DEF ThreadInv
  <2>8. LockInv(p, t)'
    BY <1>5, <1>8, <1>6, <2>2, <2>4 DEF LockInv, Count, Depth
  <2>9. ASSUME NEW u \in Threads \ {t}
        PROVE  ThreadInv(p, u)' /\ LockInv(p, u)'
    <3>1. St(p)'.owner = St(p).owner /\ St(p).owner # u
      BY <1>5, <1>8, <2>4
    <3> QED
      BY <1>1, <1>6, <1>7, <1>8, <2>2, <3>1, BystanderKept
  <2> QED
    BY <2>5, <2>6, <2>7, <2>8, <2>9 DEF ProcInv
<1>11. \A q \in Procs \ {p} : Engaged(q) => St(q).file # f
  BY <1>3, <1>5 DEF IInv, FileInv, Engaged
<1> QED
  BY <1>5, <1>6, <1>7, <1>8, <1>9, <1>10, <1>11, StepKept

(* The flock was free, so no process was inside.                           *)
LEMMA FlockKept ==
    ASSUME IInv, NEW p \in Procs, NEW t \in Threads, Flock(p, t)
    PROVE  IInv'
<1>1. /\ level[<<p, t>>] \in 1..MaxLevel /\ Engaged(p) /\ Mine(p, t) = registry[p]
      /\ registry[p] \in States /\ St(p) \in LockState /\ pc[<<p, t>>] = "flock"
  BY Working DEF Flock
<1>2. TypeOK /\ ProcInv(p) /\ t # None /\ p \in alive
  BY NoneAssumption DEF IInv, ProcInv, Flock
<1>3. PICK st : st = [St(p) EXCEPT !.depth = @ + 1]
  OBVIOUS
<1>4. /\ st = [owner |-> St(p).owner, count |-> St(p).count, users |-> St(p).users,
               depth |-> St(p).depth + 1, file |-> St(p).file]
      /\ st \in LockState
  BY <1>1, <1>3 DEF LockState
<1>5. /\ state' = [state EXCEPT ![p][registry[p]] = st] /\ pc' = [pc EXCEPT ![<<p, t>>] = "inside"]
      /\ flock = None /\ flock' = St(p).file
      /\ UNCHANGED <<alive, regpid, registry, fds, level, frame, faults>>
  BY <1>1, <1>3 DEF Flock, GoTo, Update, St
<1>6. TypeOK'
  <2>1. state' \in [Procs -> [States -> LockState]]
    BY <1>1, <1>2, <1>5, <1>4, StateTyped
  <2> QED
    BY <1>1, <1>2, <1>5, <2>1 DEF TypeOK, Where, LockState
<1>7. St(p)' = st /\ Engaged(p)' /\ \A q \in Procs \ {p} : Untouched(q)
  BY <1>1, <1>2, <1>5, Written DEF Untouched, Engaged, TypeOK, Actors
<1>8. ProcInv(p)'
  <2>1. Uses(p)' = Uses(p)
    BY <1>5 DEF Uses
  <2>2. pc'[<<p, t>>] = "inside" /\ \A u \in Threads \ {t} : pc'[<<p, u>>] = pc[<<p, u>>]
    BY <1>2, <1>5 DEF TypeOK, Actors
  <2>3. ThreadInv(p, t) /\ LockInv(p, t) /\ StateInv(p) /\ FileInv(p)
    BY <1>2 DEF ProcInv
  <2>4. /\ St(p).owner = t /\ level[<<p, t>>] = 1 /\ St(p).count = 1 /\ St(p).depth = 0
        /\ St(p).file # None
    BY <1>1, <2>3 DEF ThreadInv, LockInv, StateInv, Count, Depth
  <2>5. StateInv(p)'
    BY <1>1, <1>2, <1>4, <1>5, <1>7, <2>1, <2>2, <2>3, <2>4 DEF StateInv
  <2>6. FileInv(p)' /\ DeadInv(p)'
    BY <1>2, <1>4, <1>5, <1>7, <2>3 DEF FileInv, DeadInv
  <2>7. ThreadInv(p, t)'
    BY <1>1, <1>5, <1>7, <2>2, <2>3, <2>4 DEF ThreadInv
  <2>8. LockInv(p, t)'
    BY <1>4, <1>7, <1>5, <2>2, <2>4 DEF LockInv, Count, Depth
  <2>9. ASSUME NEW u \in Threads \ {t}
        PROVE  ThreadInv(p, u)' /\ LockInv(p, u)'
    <3>1. St(p)'.owner = St(p).owner /\ St(p).owner # u
      BY <1>4, <1>7, <2>4
    <3> QED
      BY <1>1, <1>5, <1>6, <1>7, <2>2, <3>1, BystanderKept
  <2> QED
    BY <2>5, <2>6, <2>7, <2>8, <2>9 DEF ProcInv
<1>9. \A q \in Procs \ {p} : ~(Engaged(q) /\ St(q).depth > 0)
  BY <1>5 DEF IInv, StateInv
<1> QED
  BY <1>1, <1>4, <1>6, <1>7, <1>8, <1>9, StepKept

(* The RLock is free again only when the outermost with-statement ends.    *)
LEMMA ReleaseThreadLockKept ==
    ASSUME IInv, NEW p \in Procs, NEW t \in Threads, ReleaseThreadLock(p, t)
    PROVE  IInv'
<1>1. /\ level[<<p, t>>] \in 1..MaxLevel /\ Engaged(p) /\ Mine(p, t) = registry[p]
      /\ registry[p] \in States /\ St(p) \in LockState /\ pc[<<p, t>>] = "release"
  BY Working DEF ReleaseThreadLock
<1>2. TypeOK /\ ProcInv(p) /\ t # None /\ p \in alive
  BY NoneAssumption DEF IInv, ProcInv, ReleaseThreadLock
<1>3. PICK st : /\ Update(p, registry[p], st)
                /\ st = [St(p) EXCEPT !.count = @ - 1,
                                      !.owner = IF St(p).count = 1 THEN None ELSE @]
  BY <1>1, Zenon DEF ReleaseThreadLock, St
<1>4. st = [owner |-> IF St(p).count = 1 THEN None ELSE St(p).owner, count |-> St(p).count - 1,
            users |-> St(p).users, depth |-> St(p).depth, file |-> St(p).file]
  BY <1>1, <1>3, Updates, Zenon
<1>5. /\ state' = [state EXCEPT ![p][registry[p]] = st]
      /\ pc' = [pc EXCEPT ![<<p, t>>] = "unregister"]
      /\ UNCHANGED <<alive, regpid, registry, fds, flock, level, frame, faults>>
  <2> HIDE DEF St
  <2> QED
    BY <1>3, Zenon DEF ReleaseThreadLock, GoTo, Update
<1>6. /\ St(p).owner = t /\ St(p).count = level[<<p, t>>] /\ St(p).depth = level[<<p, t>>] - 1
      /\ ThreadInv(p, t) /\ StateInv(p) /\ FileInv(p)
  BY <1>1, <1>2 DEF ProcInv, LockInv, Count, Depth
<1>7. st \in LockState
  BY <1>1, <1>4, <1>6 DEF LockState
<1>8. TypeOK'
  <2>1. state' \in [Procs -> [States -> LockState]]
    BY <1>1, <1>2, <1>5, <1>7, StateTyped
  <2> QED
    BY <1>2, <1>5, <2>1 DEF TypeOK, Where
<1>9. St(p)' = st /\ Engaged(p)' /\ \A q \in Procs \ {p} : Untouched(q)
  BY <1>1, <1>2, <1>5, Written DEF Untouched, Engaged, TypeOK, Actors
<1>10. ProcInv(p)'
  <2>1. Uses(p)' = Uses(p)
    BY <1>5 DEF Uses
  <2>2. pc'[<<p, t>>] = "unregister" /\ \A u \in Threads \ {t} : pc'[<<p, u>>] = pc[<<p, u>>]
    BY <1>2, <1>5 DEF TypeOK, Actors
  <2>3. StateInv(p)'
    <3>1. /\ St(p)'.users = St(p).users /\ St(p)'.depth = St(p).depth /\ St(p)'.file = St(p).file
          /\ St(p)'.owner = None => St(p)'.count = 0 /\ St(p)'.depth = 0
      BY <1>1, <1>2, <1>4, <1>6, <1>9
    <3>2. (\E u \in Threads : pc'[<<p, u>>] = "flock") <=> \E u \in Threads : pc[<<p, u>>] = "flock"
      BY <1>1, <2>2
    <3> QED
      BY <1>1, <1>5, <1>6, <2>1, <3>1, <3>2 DEF StateInv
  <2>4. FileInv(p)' /\ DeadInv(p)'
    BY <1>2, <1>4, <1>5, <1>6, <1>9 DEF FileInv, DeadInv
  <2>5. ThreadInv(p, t)'
    BY <1>1, <1>5, <1>6, <1>9, <2>2 DEF ThreadInv
  <2>6. LockInv(p, t)'
    BY <1>1, <1>2, <1>4, <1>5, <1>6, <1>9, <2>2 DEF LockInv, Count, Depth
  <2>7. ASSUME NEW u \in Threads \ {t}
        PROVE  ThreadInv(p, u)' /\ LockInv(p, u)'
    <3>1. St(p).owner # u /\ St(p)'.owner # u
      BY <1>4, <1>6, <1>9, NoneAssumption
    <3> QED
      BY <1>1, <1>5, <1>8, <1>9, <2>2, <3>1, BystanderKept
  <2> QED
    BY <2>3, <2>4, <2>5, <2>6, <2>7 DEF ProcInv
<1> QED
  BY <1>1, <1>4, <1>5, <1>8, <1>9, <1>10, StepKept

(* The outermost with-statement unlocks its own file and nobody else's.    *)
LEMMA LeaveKept ==
    ASSUME IInv, NEW p \in Procs, NEW t \in Threads, Leave(p, t)
    PROVE  IInv'
<1>1. /\ level[<<p, t>>] \in 1..MaxLevel /\ Engaged(p) /\ Mine(p, t) = registry[p]
      /\ registry[p] \in States /\ St(p) \in LockState /\ pc[<<p, t>>] = "inside"
  BY Working DEF Leave
<1>2. TypeOK /\ ProcInv(p) /\ t # None /\ p \in alive
  BY NoneAssumption DEF IInv, ProcInv, Leave
<1>3. /\ St(p).owner = t /\ St(p).count = level[<<p, t>>] /\ St(p).depth = level[<<p, t>>]
      /\ St(p).file = flock /\ St(p).file \in Files /\ St(p).file # None
      /\ ThreadInv(p, t) /\ StateInv(p) /\ FileInv(p)
  BY <1>1, <1>2 DEF ProcInv, LockInv, StateInv, Count, Depth, LockState
<1> DEFINE last == level[<<p, t>>] = 1
<1>4. PICK st : st = [owner |-> St(p).owner, count |-> St(p).count, users |-> St(p).users,
                      depth |-> St(p).depth - 1, file |-> IF last THEN None ELSE St(p).file]
  OBVIOUS
<1>5. /\ state' = [state EXCEPT ![p][registry[p]] = st] /\ pc' = [pc EXCEPT ![<<p, t>>] = "release"]
      /\ fds' = IF last THEN [fds EXCEPT ![St(p).file] = @ \ {p}] ELSE fds
      /\ flock' = IF last THEN None ELSE flock
      /\ UNCHANGED <<alive, regpid, registry, level, frame, faults>>
  <2>1. PICK new :
           /\ Update(p, registry[p], new)
           /\ IF St(p).depth = 1 /\ St(p).file # None
                THEN /\ fds' = [fds EXCEPT ![St(p).file] = @ \ {p}]
                     /\ flock' = IF flock = St(p).file THEN None ELSE flock
                     /\ new = [St(p) EXCEPT !.depth = @ - 1, !.file = None]
                ELSE /\ new = [St(p) EXCEPT !.depth = @ - 1]
                     /\ UNCHANGED <<fds, flock>>
    BY <1>1, Zenon DEF Leave, St
  <2>2. new = st
    <3>1. CASE last
      <4>1. new = [owner |-> St(p).owner, count |-> St(p).count, users |-> St(p).users,
                   depth |-> St(p).depth - 1, file |-> None]
        BY <1>1, <1>3, <2>1, <3>1, Updates, Zenon
      <4> QED
        BY <1>4, <3>1, <4>1
    <3>2. CASE ~ last
      <4>1. new = [St(p) EXCEPT !.depth = @ - 1]
        BY <1>3, <2>1, <3>2, Zenon
      <4> QED
        BY <1>1, <1>4, <3>2, <4>1 DEF LockState
    <3> QED
      BY <3>1, <3>2
  <2>3. GoTo(p, t, "release") /\ UNCHANGED <<alive, regpid, registry, level, frame, faults>>
    BY Zenon DEF Leave
  <2>4. /\ fds' = IF last THEN [fds EXCEPT ![St(p).file] = @ \ {p}] ELSE fds
        /\ flock' = IF last THEN None ELSE flock
    BY <1>3, <2>1, Zenon
  <2> QED
    BY <2>1, <2>2, <2>3, <2>4 DEF GoTo, Update
<1>6. st \in LockState
  BY <1>1, <1>3, <1>4 DEF LockState
<1>7. TypeOK'
  <2>1. state' \in [Procs -> [States -> LockState]]
    BY <1>1, <1>2, <1>5, <1>6, StateTyped
  <2>2. fds' \in [Files -> SUBSET Procs] /\ flock' \in Files \cup {None}
    BY <1>2, <1>5 DEF TypeOK
  <2> QED
    BY <1>2, <1>5, <2>1, <2>2 DEF TypeOK, Where
<1>8. St(p)' = st /\ Engaged(p)' /\ \A q \in Procs \ {p} : state'[q] = state[q]
  BY <1>1, <1>2, <1>5, Written DEF Engaged
<1>9. ASSUME NEW q \in Procs \ {p}
      PROVE  Untouched(q)
  <2>1. \A g \in Files : q \in fds[g] <=> q \in fds'[g]
    BY <1>2, <1>5 DEF TypeOK
  <2> QED
    BY <1>2, <1>5, <1>8, <2>1 DEF Untouched, TypeOK, Actors
<1>10. ProcInv(p)'
  <2>1. Uses(p)' = Uses(p)
    BY <1>5 DEF Uses
  <2>2. pc'[<<p, t>>] = "release" /\ \A u \in Threads \ {t} : pc'[<<p, u>>] = pc[<<p, u>>]
    BY <1>2, <1>5 DEF TypeOK, Actors
  <2>3. \A u \in Threads : pc[<<p, u>>] # "flock"
    BY <1>1, <1>2, <1>3 DEF ProcInv, LockInv, ThreadInv, Count
  <2>4. StateInv(p)'
    <3>1. St(p)'.users = St(p).users /\ St(p)'.owner = t
      BY <1>3, <1>4, <1>8
    <3>2. St(p)'.depth = level[<<p, t>>] - 1 /\ St(p)'.file = IF last THEN None ELSE flock
      BY <1>3, <1>4, <1>8
    <3>3. St(p)'.depth > 0 <=> ~ last
      BY <1>1, <3>2, LevelAssumption
    <3>4. \A u \in Threads : pc'[<<p, u>>] # "flock"
      BY <2>2, <2>3
    <3> QED
      BY <1>1, <1>2, <1>3, <1>5, <2>1, <3>1, <3>2, <3>3, <3>4 DEF StateInv
  <2>5. FileInv(p)' /\ DeadInv(p)'
    BY <1>2, <1>3, <1>4, <1>5, <1>8 DEF FileInv, DeadInv
  <2>6. ThreadInv(p, t)'
    BY <1>1, <1>3, <1>5, <1>8, <2>2 DEF ThreadInv
  <2>7. LockInv(p, t)'
    BY <1>1, <1>2, <1>3, <1>4, <1>5, <1>8, <2>2 DEF LockInv, Count, Depth
  <2>8. ASSUME NEW u \in Threads \ {t}
        PROVE  ThreadInv(p, u)' /\ LockInv(p, u)'
    <3>1. St(p)'.owner = St(p).owner /\ St(p).owner # u
      BY <1>3, <1>4, <1>8
    <3> QED
      BY <1>1, <1>5, <1>7, <1>8, <2>2, <3>1, BystanderKept
  <2> QED
    BY <2>4, <2>5, <2>6, <2>7, <2>8 DEF ProcInv
<1>11. \A q \in Procs \ {p} : Engaged(q) /\ St(q).depth > 0 => flock' = flock
  BY <1>1, <1>3, <1>5 DEF IInv, StateInv, Apart
<1> QED
  BY <1>1, <1>4, <1>7, <1>8, <1>9, <1>10, <1>11, StepKept

(* A failing open or flock leaves no open file behind.                     *)
LEMMA FailKept ==
    ASSUME IInv, NEW p \in Procs, NEW t \in Threads, Fail(p, t)
    PROVE  IInv'
<1>1. /\ level[<<p, t>>] = 1 /\ Engaged(p) /\ Mine(p, t) = registry[p]
      /\ registry[p] \in States /\ St(p) \in LockState /\ pc[<<p, t>>] \in {"open", "flock"}
  <2>1. pc[<<p, t>>] \in {"open", "flock"}
    BY DEF Fail
  <2> QED
    BY <2>1, Working DEF IInv, ThreadInv
<1>2. TypeOK /\ ProcInv(p) /\ t # None /\ p \in alive
  BY NoneAssumption DEF IInv, ProcInv, Fail
<1>3. /\ St(p).owner = t /\ St(p).count = 1 /\ St(p).depth = 0
      /\ ThreadInv(p, t) /\ StateInv(p) /\ FileInv(p)
      /\ \A u \in Threads \ {t} : pc[<<p, u>>] # "flock"
  <2>1. ThreadInv(p, t) /\ LockInv(p, t) /\ StateInv(p) /\ FileInv(p)
    BY <1>2 DEF ProcInv
  <2>2. St(p).owner = t /\ St(p).count = 1 /\ St(p).depth = 0
    BY <1>1, <2>1 DEF LockInv, Count, Depth
  <2>3. ASSUME NEW u \in Threads \ {t}, pc[<<p, u>>] = "flock"
        PROVE  FALSE
    BY <1>1, <1>2, <2>2, <2>3 DEF ProcInv, ThreadInv, LockInv, Count
  <2> QED
    BY <2>1, <2>2, <2>3
<1> DEFINE opened == pc[<<p, t>>] = "flock"
<1>4. PICK st : st = [St(p) EXCEPT !.file = IF opened THEN None ELSE @]
  OBVIOUS
<1>5. /\ st = [owner |-> St(p).owner, count |-> St(p).count, users |-> St(p).users,
               depth |-> St(p).depth, file |-> IF opened THEN None ELSE St(p).file]
      /\ st \in LockState
  BY <1>1, <1>4 DEF LockState
<1>6. /\ state' = [state EXCEPT ![p][registry[p]] = st] /\ pc' = [pc EXCEPT ![<<p, t>>] = "release"]
      /\ opened => Close(p, St(p).file)
      /\ ~ opened => UNCHANGED <<fds, flock>>
      /\ faults' = faults + 1
      /\ UNCHANGED <<alive, regpid, registry, level, frame>>
  <2>1. CASE opened
    <3>1. /\ Update(p, registry[p], [St(p) EXCEPT !.file = None]) /\ GoTo(p, t, "release")
          /\ Close(p, St(p).file) /\ faults' = faults + 1
          /\ UNCHANGED <<alive, regpid, registry, level, frame>>
      BY <1>1, <2>1, Zenon DEF Fail, St
    <3>2. [St(p) EXCEPT !.file = None] = st
      BY <1>4, <2>1
    <3> QED
      BY <2>1, <3>1, <3>2 DEF Update, GoTo
  <2>2. CASE ~ opened
    <3>1. UNCHANGED <<state, fds, flock>>
      BY <2>2 DEF Fail
    <3>2. st = St(p)
      BY <1>1, <1>5, <2>2 DEF LockState
    <3>3. state = [state EXCEPT ![p][registry[p]] = st]
      BY <1>1, <1>2, <3>2 DEF TypeOK, St
    <3> QED
      BY <2>2, <3>1, <3>3 DEF Fail, GoTo
  <2> QED
    BY <2>1, <2>2
<1>7. TypeOK'
  <2>1. state' \in [Procs -> [States -> LockState]]
    BY <1>1, <1>2, <1>5, <1>6, StateTyped
  <2>2. fds' \in [Files -> SUBSET Procs] /\ flock' \in Files \cup {None}
    BY <1>2, <1>6 DEF TypeOK, Close
  <2>3. pc' \in [Actors -> Where]
    <3>1. pc' = [pc EXCEPT ![<<p, t>>] = "release"] /\ pc \in [Actors -> Where]
      BY <1>2, <1>6 DEF TypeOK
    <3> HIDE <1>6
    <3> QED
      BY <3>1 DEF Where
  <2>5. faults' \in Nat
    BY <1>2, <1>6 DEF TypeOK
  <2>4. UNCHANGED <<alive, regpid, registry, level, frame>>
    BY <1>6
  <2> QED
    BY <1>2, <2>1, <2>2, <2>3, <2>4, <2>5 DEF TypeOK
<1>8. St(p)' = st /\ Engaged(p)' /\ \A q \in Procs \ {p} : state'[q] = state[q]
  BY <1>1, <1>2, <1>6, Written DEF Engaged
<1>9. ASSUME NEW q \in Procs \ {p}
      PROVE  Untouched(q)
  <2>1. \A g \in Files : q \in fds[g] <=> q \in fds'[g]
    BY <1>2, <1>6 DEF TypeOK, Close
  <2> QED
    BY <1>2, <1>6, <1>8, <2>1 DEF Untouched, TypeOK, Actors
<1>10. ProcInv(p)'
  <2>1. Uses(p)' = Uses(p)
    BY <1>6 DEF Uses
  <2>2. pc'[<<p, t>>] = "release" /\ \A u \in Threads \ {t} : pc'[<<p, u>>] = pc[<<p, u>>]
    BY <1>2, <1>6 DEF TypeOK, Actors
  <2>3. St(p)'.file = None
    <3>1. CASE opened
      BY <1>5, <1>8, <3>1
    <3>2. CASE ~ opened
      <4>1. ~ \E u \in Threads : pc[<<p, u>>] = "flock"
        BY <1>3, <3>2
      <4>2. St(p).file = None
        BY <1>1, <1>3, <4>1 DEF StateInv
      <4> QED
        BY <1>5, <1>8, <3>2, <4>2
    <3> QED
      BY <3>1, <3>2
  <2>4. StateInv(p)'
    <3>1. St(p)'.users = St(p).users /\ St(p)'.owner = t /\ St(p)'.depth = 0
      BY <1>3, <1>5, <1>8
    <3>2. ~ \E u \in Threads : pc'[<<p, u>>] = "flock"
      BY <1>3, <2>2
    <3> QED
      BY <1>1, <1>2, <1>3, <2>1, <2>3, <3>1, <3>2 DEF StateInv
  <2>5. FileInv(p)' /\ DeadInv(p)'
    BY <1>2, <1>6, <2>3 DEF FileInv, DeadInv
  <2>6. ThreadInv(p, t)'
    BY <1>1, <1>3, <1>6, <1>8, <2>2 DEF ThreadInv
  <2>7. LockInv(p, t)'
    BY <1>1, <1>3, <1>5, <1>6, <1>8, <2>2 DEF LockInv, Count, Depth
  <2>8. ASSUME NEW u \in Threads \ {t}
        PROVE  ThreadInv(p, u)' /\ LockInv(p, u)'
    <3>1. St(p)'.owner = St(p).owner /\ St(p).owner # u
      BY <1>3, <1>5, <1>8
    <3> QED
      BY <1>1, <1>6, <1>7, <1>8, <2>2, <3>1, BystanderKept
  <2> QED
    BY <2>4, <2>5, <2>6, <2>7, <2>8 DEF ProcInv
<1>11. ASSUME NEW q \in Procs \ {p}, Engaged(q), St(q).depth > 0
       PROVE  flock' = flock
  <2>1. St(q).file = flock /\ flock # None /\ q \in fds[flock]
    BY <1>11 DEF IInv, StateInv, FileInv, Engaged
  <2> QED
    BY <1>6, <2>1 DEF Close
<1> QED
  BY <1>1, <1>5, <1>7, <1>8, <1>9, <1>10, <1>11, StepKept

(* The entry goes with its last user, at depth 0.                          *)
LEMMA UnregisterKept ==
    ASSUME IInv, NEW p \in Procs, NEW t \in Threads, Unregister(p, t)
    PROVE  IInv'
<1>1. /\ level[<<p, t>>] \in 1..MaxLevel /\ Engaged(p) /\ Mine(p, t) = registry[p]
      /\ registry[p] \in States /\ St(p) \in LockState /\ pc[<<p, t>>] = "unregister"
  BY Working DEF Unregister
<1>2. TypeOK /\ ProcInv(p) /\ p \in alive
  BY DEF IInv, ProcInv, Unregister
<1> DEFINE users == St(p).users - 1
<1> DEFINE gone == users = 0 /\ St(p).depth = 0
<1> DEFINE where == IF level[<<p, t>>] = 1 THEN "out" ELSE "inside"
<1>3. PICK st : st = [St(p) EXCEPT !.users = users]
  OBVIOUS
<1>4. st = [owner |-> St(p).owner, count |-> St(p).count, users |-> users,
            depth |-> St(p).depth, file |-> St(p).file]
  BY <1>1, <1>3 DEF LockState
<1>5. /\ state' = [state EXCEPT ![p][registry[p]] = st]
      /\ registry' = [registry EXCEPT ![p] = IF gone THEN None ELSE @]
      /\ level' = [level EXCEPT ![<<p, t>>] = @ - 1]
      /\ frame' = [frame EXCEPT ![<<p, t, level[<<p, t>>]>>] = None]
      /\ pc' = [pc EXCEPT ![<<p, t>>] = where]
      /\ UNCHANGED <<alive, regpid, fds, flock, faults>>
  BY <1>1, <1>3 DEF Unregister, GoTo, Update, St
<1>6. Uses(p)' = Uses(p) \ {<<t, level[<<p, t>>]>>} /\ <<t, level[<<p, t>>]>> \in Uses(p)
  <2>1. /\ level \in [Actors -> 0..MaxLevel]
        /\ level'[<<p, t>>] = level[<<p, t>>] - 1
        /\ \A u \in Threads \ {t} : level'[<<p, u>>] = level[<<p, u>>]
    BY <1>2, <1>5 DEF TypeOK, Actors
  <2>2. <<t, level[<<p, t>>]>> \in Uses(p)
    BY <1>1 DEF Uses
  <2>3. ASSUME NEW u \in Threads, NEW i \in 1..MaxLevel
        PROVE  i <= level'[<<p, u>>]
                 <=> i <= level[<<p, u>>] /\ <<u, i>> # <<t, level[<<p, t>>]>>
    <3>1. CASE u = t
      BY <1>1, <2>1, <3>1, LevelAssumption
    <3>2. CASE u # t
      BY <2>1, <3>2
    <3> QED
      BY <3>1, <3>2
  <2> QED
    BY <2>2, <2>3 DEF Uses
<1>7. users = Cardinality(Uses(p)') /\ users \in Nat /\ (users = 0 <=> Uses(p)' = {})
  <2>1. StateInv(p)
    BY <1>2 DEF ProcInv
  <2>2. St(p).users = Cardinality(Uses(p)) /\ IsFiniteSet(Uses(p))
    BY <1>1, <2>1, UsesFinite DEF StateInv
  <2>3. IsFiniteSet(Uses(p)') /\ Cardinality(Uses(p)') = St(p).users - 1
    BY <1>1, <1>6, <2>2, FS_RemoveElement DEF LockState
  <2> QED
    BY <2>3, FS_CardinalityType, FS_EmptySet
<1>8. st \in LockState
  BY <1>1, <1>4, <1>7 DEF LockState
<1>9. TypeOK'
  <2>1. state' \in [Procs -> [States -> LockState]]
    BY <1>1, <1>2, <1>5, <1>8, StateTyped
  <2>2. level' \in [Actors -> 0..MaxLevel]
    BY <1>1, <1>2, <1>5, LevelAssumption DEF TypeOK, Actors
  <2>3. registry' \in [Procs -> States \cup {None}] /\ frame' \in [Frames -> States \cup {None}]
    BY <1>2, <1>5 DEF TypeOK
  <2> QED
    BY <1>2, <1>5, <2>1, <2>2, <2>3 DEF TypeOK, Where
<1>10. /\ state'[p][registry[p]] = st /\ registry'[p] = IF gone THEN None ELSE registry[p]
       /\ pc'[<<p, t>>] = where /\ level'[<<p, t>>] = level[<<p, t>>] - 1
       /\ \A u \in Threads \ {t} : /\ pc'[<<p, u>>] = pc[<<p, u>>]
                                   /\ level'[<<p, u>>] = level[<<p, u>>]
       /\ \A u \in Threads : \A i \in 1..MaxLevel :
             u # t \/ i # level[<<p, t>>] => frame'[<<p, u, i>>] = frame[<<p, u, i>>]
       /\ \A q \in Procs \ {p} : Untouched(q)
  BY <1>1, <1>2, <1>5 DEF TypeOK, Actors, Frames, Untouched
<1>11. Uses(p)' = {} => \A u \in Threads : level'[<<p, u>>] = 0
  <2>1. ASSUME NEW u \in Threads, level'[<<p, u>>] # 0
        PROVE  <<u, 1>> \in Uses(p)'
    <3>1. level'[<<p, u>>] \in 0..MaxLevel
      BY <1>9 DEF TypeOK, Actors
    <3> QED
      BY <2>1, <3>1, LevelAssumption DEF Uses
  <2> QED
    BY <2>1
<1>12. ProcInv(p)'
  <2>1. /\ St(p).count = level[<<p, t>>] - 1 \/ St(p).owner # t
        /\ St(p).depth = level[<<p, t>>] - 1 \/ St(p).owner # t
        /\ level[<<p, t>>] > 1 => St(p).owner = t
        /\ ThreadInv(p, t) /\ LockInv(p, t) /\ StateInv(p) /\ FileInv(p)
    BY <1>1, <1>2 DEF ProcInv, LockInv, Count, Depth
  <2>2. Count(<<p, t>>)' = Count(<<p, t>>) /\ Depth(<<p, t>>)' = Depth(<<p, t>>)
    BY <1>1, <1>10 DEF Count, Depth
  <2>3. users = 0 => gone
    <3>1. SUFFICES ASSUME users = 0 PROVE St(p).depth = 0
      OBVIOUS
    <3>2. level'[<<p, t>>] = 0 /\ \A u \in Threads \ {t} : level[<<p, u>>] = 0
      BY <1>7, <1>10, <1>11, <3>1
    <3>3. ASSUME NEW u \in Threads
          PROVE  ~(Count(<<p, u>>) > 0)
      <4>1. CASE u = t
        BY <1>1, <1>10, <3>2, <4>1 DEF Count
      <4>2. CASE u # t
        BY <3>2, <4>2 DEF Count
      <4> QED
        BY <4>1, <4>2
    <3>4. St(p).owner = None
      BY <1>1, <1>2, <3>3 DEF ProcInv, LockInv, LockState
    <3> QED
      BY <1>1, <2>1, <3>4 DEF StateInv
  <2>4. CASE gone
    <3>1. registry'[p] = None /\ ~ Engaged(p)'
      BY <1>10, <2>4 DEF Engaged
    <3>2. \A u \in Threads : level'[<<p, u>>] = 0
      BY <1>7, <1>11, <2>4
    <3>3. ASSUME NEW u \in Threads
          PROVE  ThreadInv(p, u)'
      <4>1. pc'[<<p, u>>] = "out"
        BY <1>1, <1>2, <1>10, <3>2 DEF ProcInv, ThreadInv
      <4> QED
        BY <3>2, <4>1 DEF ThreadInv
    <3> QED
      BY <1>2, <1>5, <3>1, <3>3 DEF ProcInv, DeadInv, StateInv, FileInv, LockInv
  <2>5. CASE ~ gone
    <3>1. St(p)' = st /\ Engaged(p)' /\ registry'[p] = registry[p]
      BY <1>1, <1>5, <1>10, <2>5 DEF St, Engaged
    <3>2. (\E u \in Threads : pc'[<<p, u>>] = "flock") <=> \E u \in Threads : pc[<<p, u>>] = "flock"
      BY <1>1, <1>10
    <3>3. StateInv(p)'
      <4>1. /\ St(p)'.users = users /\ St(p)'.depth = St(p).depth /\ St(p)'.file = St(p).file
            /\ St(p)'.owner = St(p).owner /\ St(p)'.count = St(p).count
        BY <1>4, <3>1
      <4>2. Uses(p)' # {}
        BY <1>7, <2>3, <2>5
      <4> QED
        BY <1>1, <1>5, <1>7, <2>1, <3>2, <4>1, <4>2 DEF StateInv
    <3>4. FileInv(p)' /\ DeadInv(p)'
      BY <1>2, <1>4, <1>5, <2>1, <3>1 DEF FileInv, DeadInv
    <3>5. ThreadInv(p, t)'
      <4>1. \A i \in 1..level'[<<p, t>>] :
               i \in 1..MaxLevel /\ i \in 1..level[<<p, t>>] /\ i # level[<<p, t>>]
        BY <1>1, <1>10, LevelAssumption
      <4>2. (\A i \in 1..level[<<p, t>>] : frame[<<p, t, i>>] = registry[p])'
        BY <1>10, <2>1, <3>1, <4>1 DEF ThreadInv
      <4>3. pc'[<<p, t>>] = "out" <=> level'[<<p, t>>] = 0
        BY <1>1, <1>10
      <4> QED
        BY <1>10, <3>1, <4>2, <4>3 DEF ThreadInv
    <3>6. LockInv(p, t)'
      BY <1>1, <1>4, <2>1, <2>2, <3>1 DEF LockInv
    <3>7. ASSUME NEW u \in Threads \ {t}
          PROVE  ThreadInv(p, u)' /\ LockInv(p, u)'
      <4>1. /\ St(p)'.owner = St(p).owner /\ St(p)'.count = St(p).count
            /\ St(p)'.depth = St(p).depth
        BY <1>4, <3>1
      <4> QED
        BY <1>1, <1>9, <1>10, <3>1, <4>1, BystanderKept
    <3> QED
      BY <3>3, <3>4, <3>5, <3>6, <3>7 DEF ProcInv
  <2> QED
    BY <2>4, <2>5
<1>13. Engaged(p)' => St(p)'.file = St(p).file
  BY <1>4, <1>10 DEF Engaged, St
<1> QED
  BY <1>1, <1>5, <1>9, <1>10, <1>12, <1>13, StepKept

(* A process that dies takes its own descriptors with it, and the flock    *)
(* only if nobody else has that file open.                                 *)
LEMMA CrashKept ==
    ASSUME IInv, NEW p \in Procs, Crash(p)
    PROVE  IInv'
<1>1. TypeOK
  BY DEF IInv
<1>2. _LifecycleLockState \in LockState
  BY DEF _LifecycleLockState, LockState
<1>3. TypeOK'
  BY <1>1, <1>2, LevelAssumption DEF Crash, TypeOK, Where, Actors
<1>4. \A q \in Procs \ {p} : Untouched(q)
  BY <1>1 DEF Crash, TypeOK, Untouched, Actors, Frames
<1>5. ~ Engaged(p)' /\ registry'[p] = None /\ regpid'[p] = p
  BY <1>1 DEF Crash, TypeOK, Engaged
<1>6. \A t \in Threads : pc'[<<p, t>>] = "out" /\ level'[<<p, t>>] = 0
  BY DEF Crash, Actors
<1>7. \A f \in Files : p \notin fds'[f]
  BY DEF Crash
<1>8. ProcInv(p)'
  <2>1. DeadInv(p)' /\ StateInv(p)' /\ FileInv(p)'
    BY <1>5, <1>6, <1>7 DEF DeadInv, StateInv, FileInv
  <2>2. \A t \in Threads : ThreadInv(p, t)' /\ LockInv(p, t)'
    BY <1>5, <1>6 DEF ThreadInv, LockInv
  <2> QED
    BY <2>1, <2>2 DEF ProcInv
<1>9. ASSUME NEW q \in Procs \ {p}, Engaged(q), St(q).depth > 0
      PROVE  flock' = flock
  <2>1. St(q).file = flock /\ flock # None /\ q \in fds[flock]
    BY <1>9 DEF IInv, StateInv, FileInv, Engaged
  <2> QED
    BY <2>1 DEF Crash
<1> QED
  BY <1>3, <1>4, <1>5, <1>8, <1>9, StepKept

(* A new process has an empty registry.                                    *)
LEMMA StartKept ==
    ASSUME IInv, NEW p \in Procs, Start(p)
    PROVE  IInv'
<1>1. TypeOK /\ TypeOK' /\ ProcInv(p)
  BY DEF IInv, ProcInv, Start, TypeOK
<1>2. \A q \in Procs \ {p} : Untouched(q)
  BY DEF Start, Untouched
<1>3. Engaged(p)' = Engaged(p) /\ St(p)' = St(p) /\ Uses(p)' = Uses(p)
  BY DEF Start, Engaged, St, Uses
<1>4. ProcInv(p)'
  <2>1. DeadInv(p)' /\ StateInv(p)' /\ FileInv(p)'
    BY <1>1, <1>3 DEF ProcInv, DeadInv, StateInv, FileInv, Start
  <2>2. ASSUME NEW t \in Threads
        PROVE  ThreadInv(p, t)' /\ LockInv(p, t)'
    <3>1. Count(<<p, t>>)' = Count(<<p, t>>) /\ Depth(<<p, t>>)' = Depth(<<p, t>>)
      BY DEF Count, Depth, Start
    <3> QED
      BY <1>1, <1>3, <3>1 DEF ProcInv, ThreadInv, LockInv, Start
  <2> QED
    BY <2>1, <2>2 DEF ProcInv
<1> QED
  BY <1>1, <1>2, <1>3, <1>4, StepKept DEF Start

(* A forked child has copies, but uses nothing it inherited.               *)
LEMMA ForkKept ==
    ASSUME IInv, NEW p \in Procs, NEW q \in Procs, Fork(p, q)
    PROVE  IInv'
<1>1. TypeOK /\ ProcInv(q) /\ p # q /\ FileInv(p)
  BY DEF IInv, ProcInv, Fork
<1>2. TypeOK'
  BY <1>1 DEF Fork, TypeOK
<1>3. \A r \in Procs \ {q} : Untouched(r)
  BY <1>1 DEF Fork, TypeOK, Untouched
<1>4. /\ registry'[q] = registry[p] /\ regpid'[q] = regpid[p] /\ state'[q] = state[p]
      /\ ~ Engaged(q)'
  BY <1>1 DEF Fork, TypeOK, Engaged
<1>5. \A t \in Threads : pc'[<<q, t>>] = "out" /\ level'[<<q, t>>] = 0
  BY <1>1 DEF Fork, ProcInv, DeadInv, ThreadInv
<1>6. ProcInv(q)'
  <2>1. DeadInv(q)' /\ StateInv(q)'
    BY <1>4 DEF Fork, DeadInv, StateInv
  <2>2. FileInv(q)'
    <3>1. SUFFICES ASSUME registry[p] # None, St(p).file # None
                   PROVE  q \in fds'[St(p).file]
      BY <1>4 DEF FileInv, St
    <3>2. p \in fds[St(p).file] /\ St(p).file \in Files
      BY <1>1, <3>1 DEF FileInv, TypeOK, St, LockState
    <3> QED
      BY <3>2 DEF Fork
  <2>3. \A t \in Threads : ThreadInv(q, t)' /\ LockInv(q, t)'
    BY <1>4, <1>5 DEF ThreadInv, LockInv
  <2> QED
    BY <2>1, <2>2, <2>3 DEF ProcInv
<1> QED
  BY <1>2, <1>3, <1>4, <1>6, StepKept DEF Fork

(* Entering adds a use to the entry, or makes a new one in an empty or an  *)
(* inherited registry, whose file it closes without unlocking it.          *)
LEMMA EnterKept ==
    ASSUME IInv, NEW p \in Procs, NEW t \in Threads, Enter(p, t)
    PROVE  IInv'
<1> DEFINE current == IF regpid[p] = p THEN registry[p] ELSE None
<1> DEFINE fresh == current = None
<1>1. /\ TypeOK /\ ProcInv(p) /\ p \in alive /\ pc[<<p, t>>] \in {"out", "inside"}
      /\ level[<<p, t>>] \in 0..MaxLevel /\ level[<<p, t>>] < MaxLevel
      /\ \A u \in Threads : ThreadInv(p, u)
  BY DEF IInv, ProcInv, Enter, TypeOK, Actors
<1>2. /\ Register(p, t, current) /\ regpid' = [regpid EXCEPT ![p] = p]
      /\ UNCHANGED <<fds, flock>> \/ \E f \in Files : f = state[p][registry[p]].file /\ Close(p, f)
      /\ UNCHANGED <<alive, faults>>
  <2>1. CASE regpid[p] = p
    BY <1>1, <2>1 DEF Enter, TypeOK
  <2>2. CASE regpid[p] # p
    BY <1>1, <2>2 DEF Enter, TypeOK, LockState
  <2> QED
    BY <2>1, <2>2
<1>3. PICK s \in States :
        /\ fresh \/ s = registry[p]
        /\ Update(p, s, IF fresh THEN [_LifecycleLockState EXCEPT !.users = 1]
                                 ELSE [state[p][s] EXCEPT !.users = @ + 1])
        /\ registry' = [registry EXCEPT ![p] = s]
        /\ frame' = [frame EXCEPT ![<<p, t, level[<<p, t>>] + 1>>] = s]
        /\ level' = [level EXCEPT ![<<p, t>>] = @ + 1]
        /\ GoTo(p, t, "acquire")
  <2>1. CASE fresh
    <3>1. (CHOOSE x \in Unreferenced(p) : TRUE) \in States
      BY <1>2, <2>1, Zenon DEF Register, Unreferenced
    <3> QED
      BY <1>2, <2>1, <3>1, Zenon DEF Register
  <2>2. CASE ~ fresh
    <3>1. registry[p] \in States
      BY <1>1, <2>2 DEF TypeOK
    <3> QED
      BY <1>2, <2>2, <3>1, Zenon DEF Register
  <2> QED
    BY <2>1, <2>2
<1>4. /\ ~ fresh => Engaged(p) /\ s = registry[p] /\ state[p][s] = St(p) /\ St(p) \in LockState
      /\ fresh => ~ Engaged(p) /\ \A u \in Threads : level[<<p, u>>] = 0 /\ pc[<<p, u>>] = "out"
      /\ s # None
  <2>1. s # None
    BY NoneAssumption
  <2>2. CASE ~ fresh
    BY <1>1, <1>3, <2>1, <2>2 DEF Engaged, St, TypeOK
  <2>3. CASE fresh
    <3>1. ~ Engaged(p)
      BY <2>3 DEF Engaged
    <3>2. \A u \in Threads : level[<<p, u>>] \in 0..MaxLevel
      BY <1>1 DEF TypeOK, Actors
    <3> QED
      BY <1>1, <2>1, <2>3, <3>1, <3>2, LevelAssumption DEF ThreadInv
  <2> QED
    BY <2>2, <2>3
<1>5. PICK st : st = [owner |-> IF fresh THEN None ELSE St(p).owner,
                      count |-> IF fresh THEN 0 ELSE St(p).count,
                      users |-> IF fresh THEN 1 ELSE St(p).users + 1,
                      depth |-> IF fresh THEN 0 ELSE St(p).depth,
                      file |-> IF fresh THEN None ELSE St(p).file]
  OBVIOUS
<1>6. /\ state' = [state EXCEPT ![p][s] = st] /\ st \in LockState
      /\ pc' = [pc EXCEPT ![<<p, t>>] = "acquire"]
  <2>1. CASE fresh
    <3>1. [_LifecycleLockState EXCEPT !.users = 1] = st
      BY <1>5, <2>1 DEF _LifecycleLockState
    <3>2. st \in LockState
      BY <1>5, <2>1 DEF LockState
    <3> QED
      BY <1>3, <2>1, <3>1, <3>2 DEF Update, GoTo
  <2>2. CASE ~ fresh
    <3>1. [St(p) EXCEPT !.users = @ + 1] = st
      BY <1>4, <1>5, <2>2 DEF LockState
    <3>2. st \in LockState
      BY <1>4, <1>5, <2>2 DEF LockState
    <3>3. state[p][s] = St(p)
      BY <1>4, <2>2
    <3> QED
      BY <1>3, <2>2, <3>1, <3>2, <3>3 DEF Update, GoTo
  <2> QED
    BY <2>1, <2>2
<1> HIDE DEF current, fresh
<1>7. TypeOK'
  <2>1. state' \in [Procs -> [States -> LockState]]
    BY <1>1, <1>3, <1>6, StateTyped
  <2>2. level' \in [Actors -> 0..MaxLevel]
    BY <1>1, <1>3, LevelAssumption DEF TypeOK, Actors
  <2>3. /\ registry' \in [Procs -> States \cup {None}] /\ frame' \in [Frames -> States \cup {None}]
        /\ regpid' \in [Procs -> Procs] /\ pc' \in [Actors -> Where]
    BY <1>1, <1>2, <1>3, <1>6 DEF TypeOK, Where
  <2>4. fds' \in [Files -> SUBSET Procs] /\ flock' \in Files \cup {None}
    BY <1>1, <1>2 DEF TypeOK, Close
  <2> QED
    BY <1>1, <1>2, <2>1, <2>2, <2>3, <2>4 DEF TypeOK
<1>8. /\ St(p)' = st /\ Engaged(p)' /\ registry'[p] = s
      /\ pc'[<<p, t>>] = "acquire" /\ level'[<<p, t>>] = level[<<p, t>>] + 1
      /\ frame'[<<p, t, level[<<p, t>>] + 1>>] = s
      /\ \A u \in Threads \ {t} : /\ pc'[<<p, u>>] = pc[<<p, u>>]
                                  /\ level'[<<p, u>>] = level[<<p, u>>]
      /\ \A u \in Threads : \A i \in 1..MaxLevel :
            u # t \/ i # level[<<p, t>>] + 1 => frame'[<<p, u, i>>] = frame[<<p, u, i>>]
  <2>1. <<p, t, level[<<p, t>>] + 1>> \in Frames
    BY <1>1, LevelAssumption DEF Frames
  <2> QED
    BY <1>1, <1>2, <1>3, <1>4, <1>6, <2>1 DEF TypeOK, Actors, Frames, St, Engaged
<1>9. ASSUME NEW q \in Procs \ {p}
      PROVE  Untouched(q)
  <2>1. \A g \in Files : q \in fds[g] <=> q \in fds'[g]
    BY <1>1, <1>2 DEF TypeOK, Close
  <2> QED
    BY <1>1, <1>2, <1>3, <1>6, <2>1 DEF Untouched, TypeOK, Actors, Frames
<1>10. /\ Uses(p)' = Uses(p) \cup {<<t, level[<<p, t>>] + 1>>}
       /\ <<t, level[<<p, t>>] + 1>> \notin Uses(p)
  <2>1. level[<<p, t>>] + 1 \in 1..MaxLevel
    BY <1>1, LevelAssumption
  <2>2. ASSUME NEW u \in Threads, NEW i \in 1..MaxLevel
        PROVE  i <= level'[<<p, u>>]
                 <=> i <= level[<<p, u>>] \/ <<u, i>> = <<t, level[<<p, t>>] + 1>>
    <3>1. CASE u = t
      BY <1>1, <1>8, <3>1, LevelAssumption
    <3>2. CASE u # t
      BY <1>8, <3>2
    <3> QED
      BY <3>1, <3>2
  <2>3. ~(level[<<p, t>>] + 1 <= level[<<p, t>>])
    BY <1>1
  <2> QED
    BY <2>1, <2>2, <2>3 DEF Uses
<1>11. st.users = Cardinality(Uses(p)') /\ Uses(p)' # {}
  <2>1. IsFiniteSet(Uses(p)) /\ Cardinality(Uses(p)') = Cardinality(Uses(p)) + 1
    BY <1>10, UsesFinite, FS_AddElement
  <2>2. CASE fresh
    <3>1. Uses(p) = {}
      BY <1>4, <2>2 DEF Uses
    <3> QED
      BY <1>5, <1>10, <2>1, <2>2, <3>1, FS_EmptySet
  <2>3. CASE ~ fresh
    BY <1>1, <1>4, <1>5, <1>10, <2>1, <2>3 DEF ProcInv, StateInv
  <2> QED
    BY <2>2, <2>3
<1>12. ProcInv(p)'
  <2>1. (\E u \in Threads : pc'[<<p, u>>] = "flock") <=> \E u \in Threads : pc[<<p, u>>] = "flock"
    BY <1>1, <1>8
  <2>2. ThreadInv(p, t)'
    <3>1. ASSUME NEW i \in 1..level'[<<p, t>>]
          PROVE  frame'[<<p, t, i>>] = s
      <4>1. CASE i = level[<<p, t>>] + 1
        BY <1>8, <4>1
      <4>2. CASE i # level[<<p, t>>] + 1
        <5>1. i \in 1..MaxLevel /\ i \in 1..level[<<p, t>>] /\ level[<<p, t>>] > 0
          BY <1>1, <1>8, <4>2, LevelAssumption
        <5>2. ~ fresh
          BY <1>4, <5>1
        <5> QED
          BY <1>1, <1>4, <1>8, <4>2, <5>1, <5>2 DEF ThreadInv
      <4> QED
        BY <4>1, <4>2
    <3>2. level'[<<p, t>>] # 0 /\ level'[<<p, t>>] > 0
      BY <1>1, <1>8
    <3> QED
      BY <1>8, <3>1, <3>2 DEF ThreadInv
  <2>3. CASE fresh
    <3>1. st.owner = None /\ st.count = 0 /\ st.depth = 0 /\ st.file = None
      BY <1>5, <2>3
    <3>2. StateInv(p)'
      <4>1. ~ \E u \in Threads : pc'[<<p, u>>] = "flock"
        BY <1>4, <2>1, <2>3
      <4> QED
        BY <1>8, <1>11, <3>1, <4>1 DEF StateInv
    <3>3. FileInv(p)' /\ DeadInv(p)'
      BY <1>1, <1>2, <1>8, <3>1 DEF FileInv, DeadInv
    <3>4. LockInv(p, t)'
      <4>1. Count(<<p, t>>)' = 0
        BY <1>4, <1>8, <2>3 DEF Count
      <4> QED
        BY <1>8, <3>1, <4>1, NoneAssumption DEF LockInv
    <3>5. ASSUME NEW u \in Threads \ {t}
          PROVE  ThreadInv(p, u)' /\ LockInv(p, u)'
      <4>1. level'[<<p, u>>] = 0 /\ pc'[<<p, u>>] = "out"
        BY <1>4, <1>8, <2>3
      <4>2. Count(<<p, u>>)' = 0
        BY <4>1 DEF Count
      <4> QED
        BY <1>8, <3>1, <4>1, <4>2, NoneAssumption DEF ThreadInv, LockInv
    <3> QED
      BY <2>2, <3>2, <3>3, <3>4, <3>5 DEF ProcInv
  <2>4. CASE ~ fresh
    <3>1. /\ st.owner = St(p).owner /\ st.count = St(p).count /\ st.depth = St(p).depth
          /\ st.file = St(p).file /\ Engaged(p) /\ registry'[p] = registry[p]
      BY <1>4, <1>5, <1>8, <2>4
    <3>2. UNCHANGED <<fds, flock>>
      BY <1>1, <2>4 DEF Enter, current, fresh
    <3>3. StateInv(p)'
      BY <1>1, <1>8, <1>11, <2>1, <3>1, <3>2 DEF ProcInv, StateInv
    <3>4. FileInv(p)' /\ DeadInv(p)'
      BY <1>1, <1>2, <1>8, <3>1, <3>2 DEF ProcInv, FileInv, DeadInv
    <3>5. LockInv(p, t)'
      <4>1. Count(<<p, t>>)' = Count(<<p, t>>) /\ Depth(<<p, t>>)' = Depth(<<p, t>>)
        BY <1>1, <1>8 DEF Count, Depth
      <4> QED
        BY <1>1, <1>8, <3>1, <4>1 DEF ProcInv, LockInv
    <3>6. ASSUME NEW u \in Threads \ {t}
          PROVE  ThreadInv(p, u)' /\ LockInv(p, u)'
      <4>1. \A i \in 1..MaxLevel : frame'[<<p, u, i>>] = frame[<<p, u, i>>]
        BY <1>8
      <4>2. /\ St(p)'.owner = St(p).owner /\ St(p)'.count = St(p).count
            /\ St(p)'.depth = St(p).depth
        BY <1>8, <3>1
      <4> QED
        BY <1>7, <1>8, <3>1, <4>1, <4>2, BystanderKept
    <3> QED
      BY <2>2, <3>3, <3>4, <3>5, <3>6 DEF ProcInv
  <2> QED
    BY <2>3, <2>4
<1>13. ASSUME NEW q \in Procs \ {p}, Engaged(q), St(q).depth > 0
       PROVE  flock' = flock
  <2>1. St(q).file = flock /\ flock # None /\ q \in fds[flock]
    BY <1>13 DEF IInv, StateInv, FileInv, Engaged
  <2> QED
    BY <1>2, <2>1 DEF Close
<1>14. Engaged(p)' /\ St(p)'.file # None => Engaged(p) /\ St(p)'.file = St(p).file
  BY <1>4, <1>5, <1>8
<1> QED
  BY <1>7, <1>9, <1>12, <1>13, <1>14, StepKept

-----------------------------------------------------------------------------
(* The invariant holds at the start, in stuttering steps and in all steps. *)
LEMMA InitInv == Init => IInv
<1> SUFFICES ASSUME Init
             PROVE  IInv
  OBVIOUS
<1>1. _LifecycleLockState \in LockState
  BY DEF _LifecycleLockState, LockState
<1>2. TypeOK
  BY <1>1, LevelAssumption DEF Init, TypeOK, Where
<1>3. \A p \in Procs : regpid[p] = p /\ registry[p] = None /\ ~ Engaged(p)
  BY DEF Init, Engaged
<1>4. \A p \in Procs, t \in Threads : pc[<<p, t>>] = "out" /\ level[<<p, t>>] = 0
  BY DEF Init, Actors
<1>5. \A p \in Procs : DeadInv(p) /\ StateInv(p) /\ FileInv(p)
  BY <1>3, <1>4 DEF Init, DeadInv, StateInv, FileInv
<1>6. \A p \in Procs, t \in Threads : ThreadInv(p, t) /\ LockInv(p, t)
  <2> SUFFICES ASSUME NEW p \in Procs, NEW t \in Threads
               PROVE  ThreadInv(p, t) /\ LockInv(p, t)
    OBVIOUS
  <2>1. pc[<<p, t>>] = "out" /\ level[<<p, t>>] = 0 /\ ~ Engaged(p)
    BY <1>3, <1>4
  <2>2. \A i \in 1..level[<<p, t>>] : frame[<<p, t, i>>] = registry[p]
    BY <2>1
  <2> QED
    BY <2>1, <2>2 DEF ThreadInv, LockInv
<1>7. \A p, q \in Procs : Apart(p, q)
  BY <1>3 DEF Apart
<1> QED
  BY <1>2, <1>5, <1>6, <1>7 DEF IInv

LEMMA StutterKept == IInv /\ UNCHANGED vars => IInv'
<1> SUFFICES ASSUME IInv, UNCHANGED vars
             PROVE  IInv'
  OBVIOUS
<1> USE DEF vars
<1>1. TypeOK'
  BY DEF IInv, TypeOK
<1>2. ASSUME NEW p \in Procs
      PROVE  /\ Untouched(p) /\ ProcInv(p)' /\ Engaged(p)' = Engaged(p) /\ St(p)' = St(p)
  <2>1. Untouched(p) /\ ProcInv(p)
    BY DEF Untouched, IInv, ProcInv
  <2>2. ProcInv(p)'
    BY <1>1, <2>1, UntouchedKept DEF IInv
  <2> QED
    BY <2>1, <2>2 DEF Engaged, St
<1>3. \A p, q \in Procs : Apart(p, q)'
  BY <1>2 DEF IInv, Apart
<1> QED
  BY <1>1, <1>2, <1>3 DEF IInv, ProcInv

LEMMA NextInv == IInv /\ [Next]_vars => IInv'
<1> SUFFICES ASSUME IInv, [Next]_vars
             PROVE  IInv'
  OBVIOUS
<1>1. ASSUME NEW p \in Procs, NEW t \in Threads, Enter(p, t)
      PROVE  IInv'
  BY <1>1, EnterKept
<1>2. ASSUME NEW p \in Procs, NEW t \in Threads, Step(p, t)
      PROVE  IInv'
  BY <1>2, AcquireThreadLockKept, OpenFileKept, FlockKept, LeaveKept, ReleaseThreadLockKept,
     UnregisterKept DEF Step
<1>3. ASSUME NEW p \in Procs, NEW t \in Threads, Fail(p, t)
      PROVE  IInv'
  BY <1>3, FailKept
<1>4. ASSUME NEW p \in Procs, Crash(p) \/ Start(p)
      PROVE  IInv'
  BY <1>4, CrashKept, StartKept
<1>5. ASSUME NEW p \in Procs, NEW q \in Procs, Fork(p, q)
      PROVE  IInv'
  BY <1>5, ForkKept
<1>6. CASE UNCHANGED vars
  BY <1>6, StutterKept
<1> QED
  BY <1>1, <1>2, <1>3, <1>4, <1>5, <1>6 DEF Next

(* The inductive invariant holds in every reachable state: crawls/locks.py *)
(* for any number of processes, threads, nested with-statements and        *)
(* faults.                                                                 *)
THEOREM Invariance == Spec => []IInv
<1>1. Init => IInv
  BY InitInv
<1>2. IInv /\ [Next]_vars => IInv'
  BY NextInv
<1> QED
  BY <1>1, <1>2, PTL DEF Spec

(* What a holder has: its process's entry, counted by it, and the flock.   *)
LEMMA HolderHas ==
    ASSUME IInv, NEW p \in Procs, NEW t \in Threads, Holding(<<p, t>>)
    PROVE  /\ Engaged(p) /\ St(p).owner = t /\ St(p).file = flock /\ flock # None
           /\ p \in fds[flock] /\ frame[<<p, t, 1>>] = registry[p]
<1>1. /\ ThreadInv(p, t) /\ LockInv(p, t) /\ StateInv(p) /\ FileInv(p)
      /\ level[<<p, t>>] \in 0..MaxLevel
  BY DEF IInv, TypeOK, Actors
<1>2. Count(<<p, t>>) > 0 /\ Depth(<<p, t>>) > 0 /\ level[<<p, t>>] > 0
  BY <1>1, LevelAssumption DEF Holding, Count, Depth
<1>3. Engaged(p) /\ frame[<<p, t, 1>>] = registry[p]
  BY <1>1, <1>2, LevelAssumption DEF ThreadInv
<1>4. St(p).owner = t /\ St(p).depth > 0
  BY <1>1, <1>2, <1>3 DEF LockInv
<1>5. St(p).file = flock /\ flock # None
  BY <1>1, <1>3, <1>4 DEF StateInv
<1> QED
  BY <1>1, <1>3, <1>4, <1>5 DEF FileInv, Engaged

(* Every variable stays in its range.                                      *)
THEOREM TypeCorrect == Spec => []TypeOK
<1>1. IInv => TypeOK
  BY DEF IInv
<1> QED
  BY <1>1, Invariance, PTL

(* One thread of one process is in the body of the lock: within a process  *)
(* the RLock's owner is the holder, across processes the flock is.         *)
THEOREM MutualExclusionAlways == Spec => []MutualExclusion
<1>1. IInv => MutualExclusion
  <2> SUFFICES ASSUME IInv, NEW a \in Actors, NEW b \in Actors, Holding(a), Holding(b)
               PROVE  a = b
    BY DEF MutualExclusion
  <2>1. PICK p \in Procs, t \in Threads : a = <<p, t>>
    BY DEF Actors
  <2>2. PICK q \in Procs, u \in Threads : b = <<q, u>>
    BY DEF Actors
  <2>3. p = q
    BY <2>1, <2>2, HolderHas DEF IInv, Apart
  <2>4. t = u
    <3>1. Holding(<<p, t>>) /\ Holding(<<p, u>>)
      BY <2>1, <2>2, <2>3
    <3>2. St(p).owner = t
      BY <3>1, HolderHas
    <3>3. St(p).owner = u
      BY <3>1, HolderHas
    <3> QED
      BY <3>2, <3>3
  <2> QED
    BY <2>1, <2>2, <2>3, <2>4
<1> QED
  BY <1>1, Invariance, PTL

(* No fork, crash or failing call elsewhere takes the flock from a holder. *)
THEOREM HolderKeepsFlockAlways == Spec => []HolderKeepsFlock
<1>1. IInv => HolderKeepsFlock
  BY HolderHas DEF HolderKeepsFlock, St
<1> QED
  BY <1>1, Invariance, PTL

(* The registry has the entry as long as somebody uses it, and no longer.  *)
THEOREM RegistryTracksUsersAlways == Spec => []RegistryTracksUsers
<1>1. IInv => RegistryTracksUsers
  <2> SUFFICES ASSUME IInv, NEW p \in alive, regpid[p] = p
               PROVE  /\ \A t \in Threads : \A i \in 1..level[<<p, t>>] :
                            frame[<<p, t, i>>] = registry[p]
                      /\ registry[p] # None => \E t \in Threads : level[<<p, t>>] > 0
    BY DEF RegistryTracksUsers
  <2>1. p \in Procs
    BY DEF IInv, TypeOK
  <2>2. ASSUME registry[p] # None
        PROVE  \E t \in Threads : level[<<p, t>>] > 0
    <3>1. PICK x \in Threads \X (1..MaxLevel) : x[2] <= level[<<p, x[1]>>]
      BY <2>1, <2>2 DEF IInv, StateInv, Engaged, Uses
    <3>2. x[1] \in Threads /\ x[2] \in 1..MaxLevel /\ level[<<p, x[1]>>] \in 0..MaxLevel
      BY <2>1, <3>1 DEF IInv, TypeOK, Actors
    <3> QED
      BY <3>1, <3>2, LevelAssumption
  <2> QED
    BY <2>1, <2>2 DEF IInv, ThreadInv
<1> QED
  BY <1>1, Invariance, PTL
=============================================================================
