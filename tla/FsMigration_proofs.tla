-------------------------- MODULE FsMigration_proofs --------------------------
(***************************************************************************)
(* What holds of the migration for any tree, any number of migrating       *)
(* processes and any number of interruptions: nothing that was in the way  *)
(* is overwritten; and as long as one process migrates at a time, nothing  *)
(* is lost, and fs_version is written when nothing is left to do.          *)
(*                                                                         *)
(* Typing and the owner of a file being written need no condition.  What   *)
(* removal rests on does: a second process may tear a file between the     *)
(* comparison and the rmtree of the first, so the rest of the invariant    *)
(* speaks of a snapshot that one process migrates.                         *)
(***************************************************************************)
EXTENDS FsMigration, FiniteSetTheorems, TLAPS

(* A file is opened only under a name nothing else has.                    *)
OpensFree == \A m \in Migrators : pc[m] \in {"open", "fill"} => new[file[m]] # "other"

OutsidersIdle == \A m \in Migrators \ crew : pc[m] = "idle"

(* What is no directory holds nothing, and what is half copied is still    *)
(* there to be copied again.                                               *)
OldHolds ==
    /\ oldDir # "dir" => \A e \in Entries : ~old[e]
    /\ \A e \in Entries : new[e] = "torn" => old[e]

(* What rmtree is about to remove has been copied.                         *)
RemovesCopied ==
    \A m \in Migrators : pc[m] = "remove" =>
      \A e \in Entries : old[e] => new[e] = "whole" /\ e \in todo[m]

NothingLeft ==
    \A m \in Migrators : pc[m] \in {"persist", "convert_only"} => oldDir = "none"

DoneForGood ==
    version = "current" => oldDir = "none" /\ \A m \in crew : pc[m] = "done"

IInv ==
    /\ TypeOK /\ OpensFree /\ OutsidersIdle /\ IsFiniteSet(crew)
    /\ Alone => OldHolds /\ RemovesCopied /\ NothingLeft /\ DoneForGood

-----------------------------------------------------------------------------
(* Only the one process that migrates the snapshot takes steps.            *)
LEMMA OnlyOne ==
    ASSUME IsFiniteSet(crew), Alone, OutsidersIdle, crew \subseteq Migrators,
           NEW m \in Migrators, pc[m] # "idle" \/ m \in crew
    PROVE  crew = {m} /\ \A n \in Migrators : n # m => pc[n] = "idle"
<1>1. PICK x : crew = {x}
  BY FS_Singleton DEF Alone
<1>2. m = x
  BY <1>1 DEF OutsidersIdle
<1> QED
  BY <1>1, <1>2 DEF OutsidersIdle

LEMMA InitIInv == Init => IInv
<1> SUFFICES ASSUME Init PROVE IInv
  OBVIOUS
<1> USE EntryAssumption, CrashAssumption DEF Init
<1>1. TypeOK
  <2>1. new \in [Entries -> Contents]
    BY DEF Contents
  <2>2. old \in [Entries -> BOOLEAN]
    <3>1. [e \in Entries |-> FALSE] \in [Entries -> BOOLEAN]
      BY Zenon
    <3> QED
      BY <3>1, Zenon
  <2>3. file \in [Migrators -> Files] /\ todo \in [Migrators -> SUBSET Entries]
    BY DEF Entries
  <2>4. pc \in [Migrators -> Stages]
    BY DEF Stages
  <2>5. crew \subseteq Migrators /\ oldDir \in {"dir", "link", "none"} /\ newDir \in BOOLEAN
    BY Zenon
  <2> QED
    BY <2>1, <2>2, <2>3, <2>4, <2>5 DEF TypeOK
<1>2. OpensFree /\ OutsidersIdle
  BY DEF OpensFree, OutsidersIdle
<1>3. IsFiniteSet(crew)
  BY FS_Subset
<1>4. OldHolds /\ RemovesCopied /\ NothingLeft /\ DoneForGood
  <2>1. OldHolds
    BY DEF OldHolds
  <2> QED
    BY <2>1 DEF RemovesCopied, NothingLeft, DoneForGood
<1> QED
  BY <1>1, <1>2, <1>3, <1>4 DEF IInv

(* Typing, by action; the files opened and the crew along with it.         *)
LEMMA StepTyped ==
    ASSUME TypeOK, OpensFree, OutsidersIdle, IsFiniteSet(crew), NEW m \in Migrators, Migrate(m) \/ Crash(m)
    PROVE  TypeOK' /\ OpensFree' /\ OutsidersIdle' /\ IsFiniteSet(crew)'
<1> USE EntryAssumption, CrashAssumption
      DEF TypeOK, OpensFree, OutsidersIdle, places, Goto, Step, Fail, Contents, Stages, Present
<1>0. Files \subseteq Entries /\ Links \subseteq Entries
  BY DEF Entries
<1>1. CASE Begin(m)
  BY <1>1 DEF Begin
<1>2. CASE Start(m)
  BY <1>0, <1>2 DEF Start
<1>3. CASE Rename(m)
  <2>1. pc' \in [Migrators -> Stages]
    BY <1>3 DEF Rename
  <2>2. todo' \in [Migrators -> SUBSET Entries] /\ UNCHANGED <<crew, index, version, file, crashes>>
    BY <1>0, <1>3 DEF Rename
  <2>3. old' \in [Entries -> BOOLEAN] /\ new' \in [Entries -> Contents] /\ oldDir' \in {"dir", "link", "none"}
        /\ newDir' \in BOOLEAN
    BY <1>3 DEF Rename
  <2>4. OpensFree' /\ OutsidersIdle'
    BY <1>0, <1>3 DEF Rename
  <2> QED
    BY <2>1, <2>2, <2>3, <2>4
<1>4. CASE Unlink(m)
  <2>1. UNCHANGED <<crew, oldDir, old, index, version, file, crashes>> /\ newDir' \in BOOLEAN
    BY <1>4 DEF Unlink
  <2>2. todo' \in [Migrators -> SUBSET Entries]
    BY <1>0, <1>4 DEF Unlink
  <2>3. new' \in [Entries -> Contents]
    BY <1>4 DEF Unlink
  <2>4. OpensFree' /\ OutsidersIdle'
    BY <1>0, <1>4 DEF Unlink
  <2>5. pc' \in [Migrators -> Stages]
    BY <1>4 DEF Unlink
  <2> QED
    BY <2>1, <2>2, <2>3, <2>4, <2>5
<1>5. CASE Copy(m)
  BY <1>0, <1>5 DEF Copy, InTheWay, Copied
<1>6. CASE Open(m)
  BY <1>0, <1>6 DEF Open
<1>7. CASE Fill(m)
  BY <1>0, <1>7 DEF Fill
<1>8. CASE Verify(m)
  BY <1>8 DEF Verify
<1>9. CASE Convert(m)
  BY <1>9 DEF Convert
<1>10. CASE Match(m)
  BY <1>10 DEF Match
<1>11. CASE Remove(m)
  <2>1. UNCHANGED <<crew, newDir, new, index, version, file, crashes>> /\ oldDir' \in {"dir", "link", "none"}
    BY <1>11 DEF Remove
  <2>2. old' \in [Entries -> BOOLEAN]
    BY <1>11 DEF Remove
  <2>3. /\ todo' \in [Migrators -> SUBSET Entries]
        /\ pc' \in [Migrators -> Stages]
    BY <1>11 DEF Remove
  <2>4. OpensFree' /\ OutsidersIdle'
    BY <2>1, <1>11 DEF Remove
  <2> QED
    BY <2>1, <2>2, <2>3, <2>4
<1>12. CASE Persist(m)
  BY <1>12 DEF Persist
<1>13. CASE Crash(m)
  BY <1>13 DEF Crash
<1> QED
  BY <1>1, <1>2, <1>3, <1>4, <1>5, <1>6, <1>7, <1>8, <1>9, <1>10, <1>11, <1>12, <1>13 DEF Migrate

(* The rest, for a snapshot that one process migrates.                     *)
LEMMA StepAlone ==
    ASSUME IInv, Alone, NEW m \in Migrators, Migrate(m) \/ Crash(m)
    PROVE  OldHolds' /\ RemovesCopied' /\ NothingLeft' /\ DoneForGood'
<1>0. crew = {m} /\ \A n \in Migrators : n # m => pc[n] = "idle"
  <2>1. pc[m] # "idle" \/ m \in crew
    BY DEF Migrate, Crash, Begin, Start, Rename, Unlink, Copy, Open, Fill, Verify, Convert, Match, Remove, Persist, Step
  <2> QED
    BY <2>1, OnlyOne DEF IInv, TypeOK
<1> USE <1>0, EntryAssumption
      DEF IInv, TypeOK, OldHolds, RemovesCopied, NothingLeft, DoneForGood, places, Goto, Step, Fail, Contents, Stages,
          Entries, Present, Copied
<1>1. CASE Begin(m)
  BY <1>1 DEF Begin
<1>2. CASE Start(m)
  BY <1>2 DEF Start
<1>3. CASE Rename(m)
  BY <1>3 DEF Rename
<1>4. CASE Unlink(m)
  BY <1>4 DEF Unlink
<1>5. CASE Copy(m)
  BY <1>5 DEF Copy, InTheWay
<1>6. CASE Open(m)
  BY <1>6 DEF Open
<1>7. CASE Fill(m)
  BY <1>7 DEF Fill
<1>8. CASE Verify(m)
  BY <1>8 DEF Verify
<1>9. CASE Convert(m)
  BY <1>9 DEF Convert
<1>10. CASE Match(m)
  BY <1>10 DEF Match
<1>11. CASE Remove(m)
  BY <1>11 DEF Remove
<1>12. CASE Persist(m)
  BY <1>12 DEF Persist
<1>13. CASE Crash(m)
  BY <1>13 DEF Crash
<1> QED
  BY <1>1, <1>2, <1>3, <1>4, <1>5, <1>6, <1>7, <1>8, <1>9, <1>10, <1>11, <1>12, <1>13 DEF Migrate

LEMMA CrewStays == [Next]_vars => UNCHANGED crew
BY DEF Next, vars, Migrate, Crash, Begin, Start, Rename, Unlink, Copy, Open, Fill, Verify, Convert, Match, Remove, Persist

LEMMA NextIInv == IInv /\ [Next]_vars => IInv'
<1> SUFFICES ASSUME IInv, [Next]_vars PROVE IInv'
  OBVIOUS
<1>1. CASE UNCHANGED vars
  BY <1>1 DEF IInv, TypeOK, OpensFree, OutsidersIdle, Alone, OldHolds, RemovesCopied, NothingLeft, DoneForGood, vars, places
<1>2. ASSUME NEW m \in Migrators, Migrate(m) \/ Crash(m) PROVE IInv'
  <2>1. TypeOK' /\ OpensFree' /\ OutsidersIdle' /\ IsFiniteSet(crew)'
    BY <1>2, StepTyped DEF IInv
  <2>2. Alone' => Alone
    BY CrewStays DEF Alone
  <2>3. Alone => OldHolds' /\ RemovesCopied' /\ NothingLeft' /\ DoneForGood'
    BY <1>2, StepAlone
  <2> QED
    BY <2>1, <2>2, <2>3 DEF IInv
<1> QED
  BY <1>1, <1>2 DEF Next

-----------------------------------------------------------------------------
(* The inductive invariant.                                                *)
THEOREM Invariance == Spec => []IInv
BY InitIInv, NextIInv, PTL DEF Spec

(* "Persist fs_version last" (core/models.py): a row whose fs_version is   *)
(* current has no old directory, no entry left there and no torn copy.     *)
THEOREM PersistedLastAlways == Spec => []PersistedLast
<1>1. IInv => PersistedLast
  BY DEF IInv, OldHolds, DoneForGood, PersistedLast
<1> QED
  BY <1>1, Invariance, PTL

(* No output that was already in the new directory is overwritten, however *)
(* many processes copy at once (copy_file_without_overwriting).            *)
THEOREM NothingOverwrittenAlways == Spec => NothingOverwritten
<1>1. ASSUME IInv, [Next]_vars
      PROVE  [\A e \in Entries : new[e] = "other" => new'[e] = "other"]_vars
  <2>1. ASSUME NEW m \in Migrators, Migrate(m) \/ Crash(m), NEW e \in Entries, new[e] = "other"
        PROVE  new'[e] = "other"
    <3> USE <1>1, <2>1 DEF IInv, TypeOK, OpensFree, places, Entries
    <3>1. CASE Rename(m)
      BY <3>1 DEF Rename
    <3>2. CASE Unlink(m)
      BY <3>2 DEF Unlink
    <3>3. CASE Copy(m)
      BY <3>3 DEF Copy, InTheWay, Copied
    <3>4. CASE Open(m) \/ Fill(m)
      BY <3>4 DEF Open, Fill
    <3>5. CASE UNCHANGED new
      BY <3>5
    <3> QED
      BY <3>1, <3>2, <3>3, <3>4, <3>5
      DEF Migrate, Crash, Begin, Start, Verify, Convert, Match, Remove, Persist
  <2> QED
    BY <1>1, <2>1 DEF Next
<1> QED
  BY <1>1, Invariance, PTL DEF Spec, NothingOverwritten

(* As long as one process migrates, no entry leaves the old directory      *)
(* without a whole copy in the new one, and no copy is taken away that is  *)
(* the only one (_cleanup_old_migration_dir, copytree's removal of links). *)
THEOREM NothingLostAlways == Spec => NothingLost
<1>1. ASSUME IInv, [Next]_vars PROVE [Alone => KeepsEntries]_vars
  <2>1. ASSUME NEW m \in Migrators, Migrate(m) \/ Crash(m), Alone PROVE KeepsEntries
    <3> USE <1>1, <2>1 DEF IInv, TypeOK, places, KeepsEntries, Entries
    <3>1. CASE Rename(m)
      BY <3>1 DEF Rename
    <3>2. CASE Unlink(m)
      BY <3>2 DEF Unlink
    <3>3. CASE Copy(m)
      BY <3>3 DEF Copy
    <3>4. CASE Open(m) \/ Fill(m)
      BY <3>4 DEF Open, Fill
    <3>5. CASE Remove(m)
      BY <3>5 DEF Remove, RemovesCopied
    <3>6. CASE UNCHANGED <<new, old>>
      BY <3>6
    <3> QED
      BY <3>1, <3>2, <3>3, <3>4, <3>5, <3>6
      DEF Migrate, Crash, Begin, Start, Verify, Convert, Match, Persist
  <2> QED
    BY <1>1, <2>1 DEF Next
<1> QED
  BY <1>1, Invariance, PTL DEF Spec, NothingLost
=============================================================================
