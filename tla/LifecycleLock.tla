---------------------------- MODULE LifecycleLock ----------------------------
(***************************************************************************)
(* The per-crawl (and per-binary) lifecycle lock of crawls/locks.py, for   *)
(* one key.  A thread looks its key up in the process's registry, takes    *)
(* the entry's RLock, and, if it is the outermost user of the entry, opens *)
(* the lock file and flocks it; so the runner, a web request and a CLI     *)
(* command exclude each other, while a runner that already holds the lock  *)
(* may enter it again.                                                     *)
(*                                                                         *)
(* Each section the code runs under _registry_lock, and each blocking      *)
(* call, is one action.  A flock belongs to the open file (the "open file  *)
(* description"), which processes share across a fork: it goes when it is  *)
(* unlocked, or when the last process with a descriptor closes it or dies. *)
(***************************************************************************)
EXTENDS Naturals, FiniteSets

CONSTANTS
    Procs,      \* processes
    Threads,    \* thread identifiers, the same in each process
    States,     \* _LifecycleLockState objects a process can allocate
    Files,      \* open files
    None,       \* no thread, no state, no file
    MaxLevel,   \* bound on nested with-statements of one thread
    MaxFaults   \* bound on crashes, forks and failing calls

ASSUME LevelAssumption == MaxLevel \in Nat \ {0} /\ MaxFaults \in Nat
ASSUME FiniteAssumption == IsFiniteSet(Threads)
ASSUME NoneAssumption  == None \notin Threads \cup States \cup Files

Actors == Procs \X Threads
Frames == Procs \X Threads \X (1..MaxLevel)

VARIABLES
    alive,     \* processes that run
    regpid,    \* regpid[p]: _registry_pid in p
    registry,  \* registry[p]: the state p's _registry has for the key
    state,     \* state[p][s]: the state objects of p
    fds,       \* fds[f]: processes with a descriptor of open file f
    flock,     \* the open file that holds the flock
    pc,        \* pc[a]: where actor a = <<process, thread>> is in _lifecycle_lock
    level,     \* level[a]: with-statements a is in, entering or leaving
    frame,     \* frame[<<p, t, i>>]: the local variable "state" of the i-th of them
    faults     \* crashes, forks and failed calls so far

vars == <<alive, regpid, registry, state, fds, flock, pc, level, frame, faults>>

-----------------------------------------------------------------------------
LockState == [owner : Threads \cup {None}, count : Nat, users : Nat,
              depth : Nat, file : Files \cup {None}]

_LifecycleLockState ==
    [owner |-> None, count |-> 0, users |-> 0, depth |-> 0, file |-> None]

Where == {"out", "acquire", "open", "flock", "inside", "release", "unregister"}

(* The state object an actor is working with: that of its innermost with.  *)
Mine(p, t) == frame[<<p, t, level[<<p, t>>]>>]

Init ==
    /\ alive \in {A \in SUBSET Procs : A # {}}
    /\ regpid = [p \in Procs |-> p]
    /\ registry = [p \in Procs |-> None]
    /\ state = [p \in Procs |-> [s \in States |-> _LifecycleLockState]]
    /\ fds = [f \in Files |-> {}]
    /\ flock = None
    /\ pc = [a \in Actors |-> "out"]
    /\ level = [a \in Actors |-> 0]
    /\ frame = [x \in Frames |-> None]
    /\ faults = 0

-----------------------------------------------------------------------------
(* Faulty: unlocks the inherited file before closing it.                   *)
UnlockAndClose(p, f) ==
    /\ fds' = [g \in Files |-> IF g = f THEN fds[g] \ {p} ELSE fds[g]]
    /\ flock' = IF f = flock THEN None ELSE flock

(* p closes its descriptor of f; the flock goes with the last descriptor.  *)
Close(p, f) ==
    /\ fds' = [g \in Files |-> IF g = f THEN fds[g] \ {p} ELSE fds[g]]
    /\ flock' = IF f = flock /\ fds[f] \subseteq {p} THEN None ELSE flock

GoTo(p, t, where) == pc' = [pc EXCEPT ![<<p, t>>] = where]

(* The state object s of p becomes st.                                     *)
Update(p, s, st) == state' = [state EXCEPT ![p][s] = st]

(* States of p that no dictionary entry and no local variable refers to.   *)
Unreferenced(p) ==
    {s \in States : registry[p] # s
        /\ \A t \in Threads : \A i \in 1..level[<<p, t>>] : frame[<<p, t, i>>] # s}

(* setdefault(key, ...), users += 1, and the frame that remembers it.      *)
Register(p, t, current) ==
    LET s == IF current # None THEN current ELSE CHOOSE x \in Unreferenced(p) : TRUE IN
    /\ current = None => Unreferenced(p) # {}
    /\ registry' = [registry EXCEPT ![p] = s]
    /\ Update(p, s, IF current = None THEN [_LifecycleLockState EXCEPT !.users = 1]
                                      ELSE [state[p][s] EXCEPT !.users = @ + 1])
    /\ frame' = [frame EXCEPT ![<<p, t, level[<<p, t>>] + 1>>] = s]
    /\ level' = [level EXCEPT ![<<p, t>>] = @ + 1]
    /\ GoTo(p, t, "acquire")

(* Faulty: does not notice that the registry was inherited through a fork. *)
EnterWithoutPidCheck(p, t) ==
    /\ p \in alive
    /\ pc[<<p, t>>] \in {"out", "inside"}
    /\ level[<<p, t>>] < MaxLevel
    /\ Register(p, t, registry[p])
    /\ UNCHANGED <<alive, faults, regpid, fds, flock>>

(* Entering the with-statement: a registry inherited through a fork is     *)
(* closed and cleared first.                                               *)
Enter(p, t) ==
    /\ p \in alive
    /\ pc[<<p, t>>] \in {"out", "inside"}
    /\ level[<<p, t>>] < MaxLevel
    /\ \/ /\ regpid[p] = p
          /\ Register(p, t, registry[p])
          /\ UNCHANGED <<regpid, fds, flock>>
       \/ /\ regpid[p] # p
          /\ regpid' = [regpid EXCEPT ![p] = p]
          /\ IF registry[p] # None /\ state[p][registry[p]].file # None
               THEN Close(p, state[p][registry[p]].file)
               ELSE UNCHANGED <<fds, flock>>
          /\ Register(p, t, None)
    /\ UNCHANGED <<alive, faults>>

(* state.thread_lock.acquire(), an RLock.  Only the outermost user of the  *)
(* state goes on to the lock file.                                         *)
AcquireThreadLock(p, t) ==
    LET s == Mine(p, t) IN
    /\ p \in alive
    /\ pc[<<p, t>>] = "acquire"
    /\ state[p][s].owner \in {None, t}
    /\ \/ /\ state[p][s].depth = 0
          /\ Update(p, s, [state[p][s] EXCEPT !.owner = t, !.count = @ + 1])
          /\ GoTo(p, t, "open")
       \/ /\ state[p][s].depth > 0
          /\ Update(p, s, [state[p][s] EXCEPT !.owner = t, !.count = @ + 1, !.depth = @ + 1])
          /\ GoTo(p, t, "inside")
    /\ UNCHANGED <<alive, regpid, registry, fds, flock, level, frame, faults>>

OpenFile(p, t) ==
    LET s == Mine(p, t) IN
    /\ p \in alive
    /\ pc[<<p, t>>] = "open"
    /\ \E f \in Files : fds[f] = {}
    /\ LET f == CHOOSE f \in Files : fds[f] = {} IN
         /\ fds' = [fds EXCEPT ![f] = {p}]
         /\ Update(p, s, [state[p][s] EXCEPT !.file = f])
    /\ GoTo(p, t, "flock")
    /\ UNCHANGED <<alive, regpid, registry, flock, level, frame, faults>>

(* fcntl.flock(LOCK_EX) returns: nobody has the file locked.               *)
Flock(p, t) ==
    LET s == Mine(p, t) IN
    /\ p \in alive
    /\ pc[<<p, t>>] = "flock"
    /\ flock = None
    /\ flock' = state[p][s].file
    /\ Update(p, s, [state[p][s] EXCEPT !.depth = @ + 1])
    /\ GoTo(p, t, "inside")
    /\ UNCHANGED <<alive, regpid, registry, fds, level, frame, faults>>

(* Faulty: the failing thread leaves as if depth had been counted.         *)
FailCountsDepth(p, t) ==
    LET s == Mine(p, t) IN
    /\ p \in alive
    /\ faults < MaxFaults
    /\ faults' = faults + 1
    /\ pc[<<p, t>>] = "flock"
    /\ Close(p, state[p][s].file)
    /\ Update(p, s, [state[p][s] EXCEPT !.file = None, !.depth = @ - 1])
    /\ GoTo(p, t, "release")
    /\ UNCHANGED <<alive, regpid, registry, level, frame>>

(* Faulty: the exception leaves without running the outer finally-clause.  *)
FailWithoutFinally(p, t) ==
    /\ p \in alive
    /\ faults < MaxFaults
    /\ faults' = faults + 1
    /\ pc[<<p, t>>] = "open"
    /\ level' = [level EXCEPT ![<<p, t>>] = @ - 1]
    /\ GoTo(p, t, "out")
    /\ UNCHANGED <<alive, regpid, registry, state, fds, flock, frame>>

(* mkdir, open or flock raises (a signal, a full or read-only disk): the   *)
(* file is closed and the finally-clauses run.                             *)
Fail(p, t) ==
    LET s == Mine(p, t) IN
    /\ p \in alive
    /\ faults < MaxFaults
    /\ faults' = faults + 1
    /\ \/ pc[<<p, t>>] = "open" /\ UNCHANGED <<state, fds, flock>>
       \/ /\ pc[<<p, t>>] = "flock"
          /\ Close(p, state[p][s].file)
          /\ Update(p, s, [state[p][s] EXCEPT !.file = None])
    /\ GoTo(p, t, "release")
    /\ UNCHANGED <<alive, regpid, registry, level, frame>>

(* The body ends, with or without an exception.                            *)
Leave(p, t) ==
    LET s == Mine(p, t) IN
    /\ p \in alive
    /\ pc[<<p, t>>] = "inside"
    /\ IF state[p][s].depth = 1 /\ state[p][s].file # None
         THEN /\ fds' = [fds EXCEPT ![state[p][s].file] = @ \ {p}]
              /\ flock' = IF flock = state[p][s].file THEN None ELSE flock
              /\ Update(p, s, [state[p][s] EXCEPT !.depth = @ - 1, !.file = None])
         ELSE /\ Update(p, s, [state[p][s] EXCEPT !.depth = @ - 1])
              /\ UNCHANGED <<fds, flock>>
    /\ GoTo(p, t, "release")
    /\ UNCHANGED <<alive, regpid, registry, level, frame, faults>>

ReleaseThreadLock(p, t) ==
    LET s == Mine(p, t) IN
    /\ p \in alive
    /\ pc[<<p, t>>] = "release"
    /\ Update(p, s, [state[p][s] EXCEPT
                        !.count = @ - 1,
                        !.owner = IF state[p][s].count = 1 THEN None ELSE @])
    /\ GoTo(p, t, "unregister")
    /\ UNCHANGED <<alive, regpid, registry, fds, flock, level, frame, faults>>

(* Faulty: whoever leaves the lock drops the entry, waiting threads or not.*)
UnregisterDropsEntry(p, t) ==
    LET s == Mine(p, t) IN
    /\ p \in alive
    /\ pc[<<p, t>>] = "unregister"
    /\ Update(p, s, [state[p][s] EXCEPT !.users = @ - 1])
    /\ registry' = [registry EXCEPT ![p] = IF state[p][s].depth = 0 THEN None ELSE @]
    /\ level' = [level EXCEPT ![<<p, t>>] = @ - 1]
    /\ frame' = [frame EXCEPT ![<<p, t, level[<<p, t>>]>>] = None]
    /\ GoTo(p, t, IF level[<<p, t>>] = 1 THEN "out" ELSE "inside")
    /\ UNCHANGED <<alive, regpid, fds, flock, faults>>

(* users -= 1; the last user takes the entry out of the registry.          *)
Unregister(p, t) ==
    LET s == Mine(p, t)
        users == state[p][s].users - 1 IN
    /\ p \in alive
    /\ pc[<<p, t>>] = "unregister"
    /\ Update(p, s, [state[p][s] EXCEPT !.users = users])
    /\ registry' = [registry EXCEPT ![p] =
          IF users = 0 /\ state[p][s].depth = 0 /\ @ = s THEN None ELSE @]
    /\ level' = [level EXCEPT ![<<p, t>>] = @ - 1]
    /\ frame' = [frame EXCEPT ![<<p, t, level[<<p, t>>]>>] = None]
    /\ GoTo(p, t, IF level[<<p, t>>] = 1 THEN "out" ELSE "inside")
    /\ UNCHANGED <<alive, regpid, fds, flock, faults>>

-----------------------------------------------------------------------------
(* p is killed, or exits: its memory is gone and the kernel closes its     *)
(* descriptors.                                                            *)
Crash(p) ==
    /\ p \in alive
    /\ faults < MaxFaults
    /\ faults' = faults + 1
    /\ alive' = alive \ {p}
    /\ fds' = [f \in Files |-> fds[f] \ {p}]
    /\ flock' = IF flock # None /\ fds[flock] \subseteq {p} THEN None ELSE flock
    /\ registry' = [registry EXCEPT ![p] = None]
    /\ regpid' = [regpid EXCEPT ![p] = p]
    /\ state' = [state EXCEPT ![p] = [s \in States |-> _LifecycleLockState]]
    /\ pc' = [a \in Actors |-> IF a[1] = p THEN "out" ELSE pc[a]]
    /\ level' = [a \in Actors |-> IF a[1] = p THEN 0 ELSE level[a]]
    /\ frame' = [x \in Frames |-> IF x[1] = p THEN None ELSE frame[x]]

(* A new process, with an empty registry.                                  *)
Start(p) ==
    /\ p \notin alive
    /\ alive' = alive \cup {p}
    /\ UNCHANGED <<regpid, registry, state, fds, flock, pc, level, frame, faults>>

(* p forks q: q gets a copy of p's memory and descriptors, and one thread, *)
(* which runs code of its own and never returns into p's with-statements.  *)
(* A pid is not used again while some process still has its registry.      *)
Fork(p, q) ==
    /\ p \in alive /\ q \notin alive /\ q # regpid[p]
    /\ faults < MaxFaults
    /\ faults' = faults + 1
    /\ alive' = alive \cup {q}
    /\ registry' = [registry EXCEPT ![q] = registry[p]]
    /\ regpid' = [regpid EXCEPT ![q] = regpid[p]]
    /\ state' = [state EXCEPT ![q] = state[p]]
    /\ fds' = [f \in Files |-> IF p \in fds[f] THEN fds[f] \cup {q} ELSE fds[f]]
    /\ UNCHANGED <<flock, pc, level, frame>>

Step(p, t) ==
    \/ AcquireThreadLock(p, t) \/ OpenFile(p, t) \/ Flock(p, t)
    \/ Leave(p, t) \/ ReleaseThreadLock(p, t) \/ Unregister(p, t)

Next ==
    \/ \E p \in Procs, t \in Threads : Enter(p, t) \/ Step(p, t) \/ Fail(p, t)
    \/ \E p \in Procs : Crash(p) \/ Start(p)
    \/ \E p, q \in Procs : Fork(p, q)

Spec == Init /\ [][Next]_vars

(* Threads are scheduled and the code under the lock ends (crawl and hook  *)
(* timeouts bound it); which waiter gets a lock is the kernel's choice.    *)
FairSpec == Spec /\ \A p \in Procs, t \in Threads : WF_vars(Step(p, t))

-----------------------------------------------------------------------------
(* Every variable stays in its range.                                      *)
TypeOK ==
    /\ alive \subseteq Procs
    /\ regpid \in [Procs -> Procs]
    /\ registry \in [Procs -> States \cup {None}]
    /\ state \in [Procs -> [States -> LockState]]
    /\ fds \in [Files -> SUBSET Procs]
    /\ flock \in Files \cup {None}
    /\ pc \in [Actors -> Where]
    /\ level \in [Actors -> 0..MaxLevel]
    /\ frame \in [Frames -> States \cup {None}]
    /\ faults \in Nat

(* The actor is in the body of a with-statement: of its innermost one, or, *)
(* while it enters or leaves that, of the one around it.                   *)
Holding(a) == level[a] > 1 \/ (level[a] = 1 /\ pc[a] = "inside")

(* One thread of one process works on the crawl, whatever forks, crashes   *)
(* or failing system calls happen around it.                               *)
MutualExclusion == \A a, b \in Actors : Holding(a) /\ Holding(b) => a = b

(* A forked child that drops the registry it inherited, or a crash of      *)
(* another process, never takes the file lock from its holder.             *)
HolderKeepsFlock ==
    \A p \in Procs, t \in Threads : Holding(<<p, t>>) =>
        /\ flock # None /\ p \in fds[flock]
        /\ state[p][frame[<<p, t, 1>>]].file = flock

(* The registry neither forgets a state in use (a second thread would get  *)
(* another RLock) nor keeps one nobody uses.                               *)
RegistryTracksUsers ==
    \A p \in alive : regpid[p] = p =>
        /\ \A t \in Threads : \A i \in 1..level[<<p, t>>] : frame[<<p, t, i>>] = registry[p]
        /\ registry[p] # None => \E t \in Threads : level[<<p, t>>] > 0

(* Nobody waits for ever on everybody: while threads wait for the lock,    *)
(* one of them gets into it, or they all gave up - or its owner died and   *)
(* left the locked file to a forked child that has never used the lock.    *)
Waiting(a) == pc[a] \in {"acquire", "open", "flock"}
LeftToChild == flock # None /\ \A p \in fds[flock] : regpid[p] # p
SomebodyGetsIn ==
    (\E a \in Actors : Waiting(a))
        ~> \/ \E a \in Actors : pc[a] = "inside"
           \/ \A a \in Actors : ~Waiting(a)
           \/ LeftToChild
=============================================================================
