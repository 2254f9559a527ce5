----------------------------- MODULE FsMigration -----------------------------
(***************************************************************************)
(* The move of one snapshot's files from archive/<timestamp> to the layout *)
(* under users/: Snapshot.migrate_filesystem_to_current_version in         *)
(* core/models.py.  The runner calls it when the snapshot is due, and      *)
(* "archivebox update" from a process of its own that holds no lease, so   *)
(* two may be at it at once; either may die at any step and start over     *)
(* for as long as fs_version is the old one.                               *)
(*                                                                         *)
(* A tree is a set of entries, files and symbolic links.  What matters of  *)
(* a destination is whether it is there and equal to its source, there in  *)
(* part, or something else that was there before.                          *)
(***************************************************************************)
EXTENDS Integers, FiniteSets

CONSTANTS
    Files,        \* regular files of the old tree
    Links,        \* symbolic links of the old tree
    Index,        \* index.json, one of the files
    Migrators,    \* processes that may migrate the snapshot
    AtOnce,       \* how many of them do at once
    Conflicts,    \* Init may have other outputs under the names of old ones
    MaxCrashes    \* interruptions

Entries == Files \cup Links
ASSUME EntryAssumption == Index \in Files /\ Files \cap Links = {}
ASSUME CrashAssumption == MaxCrashes \in Nat /\ AtOnce \in Nat \ {0} /\ IsFiniteSet(Migrators)

VARIABLES
    crew,     \* the processes that do migrate it
    oldDir,   \* archive/<timestamp>: "dir", "link" to the new place, or "none"
    old,      \* old[e]: e is in the old directory
    newDir,   \* the new directory exists
    new,      \* new[e]: what is under e's name there
    index,    \* index.jsonl has been written there
    version,  \* the row's fs_version
    pc,       \* pc[m]: where m is
    todo,     \* todo[m]: entries left of m's current step
    file,     \* file[m]: the file m is copying
    crashes

places == <<oldDir, old, newDir, new, index>>
vars == <<crew, places, version, pc, todo, file, crashes>>

Contents == {"absent", "torn", "whole", "other"}
Stages == {"idle", "start", "rename", "unlink", "copy", "open", "fill", "verify",
           "convert", "convert_only", "match", "remove", "persist", "done"}

-----------------------------------------------------------------------------
(* The old directory as an earlier version left it; an attempt may have    *)
(* made the new one before; a link is left by earlier migrations.          *)
Init ==
    /\ crew \in {c \in SUBSET Migrators : Cardinality(c) \in 1..AtOnce}
    /\ \/ /\ oldDir = "dir" /\ old \in [Entries -> BOOLEAN] /\ old[Index]
          /\ newDir \in BOOLEAN /\ new \in [Entries -> {"absent", "other"}]
          /\ \A e \in Entries : new[e] = "other" => newDir /\ old[e] /\ Conflicts
       \/ /\ oldDir = "link" /\ old = [e \in Entries |-> FALSE]
          /\ newDir = TRUE /\ new \in [Entries -> {"absent", "whole"}] /\ new[Index] = "whole"
    /\ index = FALSE /\ version = "legacy" /\ crashes = 0
    /\ pc = [m \in Migrators |-> "idle"]
    /\ todo = [m \in Migrators |-> {}] /\ file = [m \in Migrators |-> Index]

Goto(m, stage, left) ==
    /\ pc' = [pc EXCEPT ![m] = stage]
    /\ todo' = [todo EXCEPT ![m] = left]

Step(m, from, to) == pc[m] = from /\ Goto(m, to, {})

(* SnapshotMigrationError or OSError: the caller gets it, the row stays.   *)
Fail(m) == Goto(m, "idle", {})

Present == {e \in Entries : old[e]}

(* Faulty: compares names only.                                            *)
CopiedByName(e) == new[e] # "absent"

(* filecmp.cmp(shallow=False), or readlink() of both.                      *)
Copied(e) == new[e] = "whole"

-----------------------------------------------------------------------------
(* A caller finds fs_migration_needed in the row it has loaded.            *)
Begin(m) ==
    /\ m \in crew /\ pc[m] = "idle" /\ version = "legacy"
    /\ Goto(m, "start", {})
    /\ UNCHANGED <<crew, places, version, file, crashes>>

(* What is there decides how to go on; rename is tried only where nothing  *)
(* is in its place.                                                        *)
Start(m) ==
    /\ pc[m] = "start"
    /\ \/ oldDir = "link" /\ newDir  /\ Goto(m, "convert", {})
       \/ oldDir = "link" /\ ~newDir /\ Fail(m)
       \/ oldDir = "none" /\ Goto(m, IF newDir THEN "convert_only" ELSE "persist", {})
       \/ oldDir = "dir" /\ newDir  /\ Goto(m, "unlink", Links)
       \/ oldDir = "dir" /\ ~newDir /\ Goto(m, "rename", {})
    /\ UNCHANGED <<crew, places, version, file, crashes>>

(* rename of the whole directory.  It replaces an empty directory, and     *)
(* fails between file systems, or if the source has gone or the target has *)
(* been filled since: then the entries are copied.                         *)
Rename(m) ==
    /\ pc[m] = "rename"
    /\ \/ /\ oldDir = "dir" /\ \A e \in Entries : new[e] = "absent"
          /\ oldDir' = "none" /\ newDir' = TRUE
          /\ new' = [e \in Entries |-> IF old[e] THEN "whole" ELSE "absent"]
          /\ old' = [e \in Entries |-> FALSE]
          /\ Goto(m, "convert", {})
       \/ Goto(m, "unlink", Links) /\ UNCHANGED <<oldDir, old, newDir, new>>
    /\ UNCHANGED <<crew, index, version, file, crashes>>

(* Faulty: goes on to copytree with the links still there.                 *)
UnlinkNothing(m) ==
    /\ pc[m] = "unlink"
    /\ newDir' = TRUE /\ Goto(m, "copy", Present)
    /\ UNCHANGED <<crew, oldDir, old, new, index, version, file, crashes>>

(* Links copied by an interrupted migration are removed again, because     *)
(* copytree cannot replace them; then copytree lists the old tree.         *)
Unlink(m) ==
    /\ pc[m] = "unlink"
    /\ \/ \E e \in todo[m] :
            \/ /\ old[e] /\ new[e] = "other" /\ Fail(m) /\ UNCHANGED <<new, newDir>>
            \/ /\ ~(old[e] /\ new[e] = "other")
               /\ new' = IF old[e] THEN [new EXCEPT ![e] = "absent"] ELSE new
               /\ Goto(m, "unlink", todo[m] \ {e})
               /\ UNCHANGED newDir
       \/ /\ todo[m] = {}
          /\ \/ oldDir = "dir" /\ newDir' = TRUE /\ Goto(m, "copy", Present)
             \/ oldDir # "dir" /\ Fail(m) /\ UNCHANGED newDir
          /\ UNCHANGED new
    /\ UNCHANGED <<crew, oldDir, old, index, version, file, crashes>>

(* Faulty: only links are looked for.                                      *)
LinkInTheWay(e) == e \in Links /\ new[e] # "absent"

InTheWay(e) == IF e \in Links THEN new[e] # "absent" ELSE new[e] # "absent" /\ ~Copied(e)

(* copytree with copy_file_without_overwriting, in some order: an equal    *)
(* file is kept, a different one is an error, and so is a link that is     *)
(* there, or an entry that has gone since it was listed.                   *)
Copy(m) ==
    /\ pc[m] = "copy"
    /\ \/ \E e \in todo[m] :
            \/ (~old[e] \/ InTheWay(e)) /\ Fail(m) /\ UNCHANGED <<new, file>>
            \/ /\ old[e] /\ ~InTheWay(e) /\ (e \in Links \/ Copied(e))
               /\ new' = IF e \in Links THEN [new EXCEPT ![e] = "whole"] ELSE new
               /\ Goto(m, "copy", todo[m] \ {e})
               /\ UNCHANGED file
            \/ /\ old[e] /\ ~InTheWay(e) /\ e \in Files /\ ~Copied(e)
               /\ Goto(m, "open", todo[m] \ {e})
               /\ file' = [file EXCEPT ![m] = e]
               /\ UNCHANGED new
       \/ todo[m] = {} /\ Goto(m, "verify", {}) /\ UNCHANGED <<new, file>>
    /\ UNCHANGED <<crew, oldDir, old, newDir, index, version, crashes>>

(* copy2 opens the source, then truncates and fills the destination.       *)
Open(m) ==
    /\ pc[m] = "open"
    /\ \/ ~old[file[m]] /\ Fail(m) /\ UNCHANGED new
       \/ /\ old[file[m]]
          /\ new' = [new EXCEPT ![file[m]] = "torn"]
          /\ Goto(m, "fill", todo[m])
    /\ UNCHANGED <<crew, oldDir, old, newDir, index, version, file, crashes>>

Fill(m) ==
    /\ pc[m] = "fill"
    /\ new' = [new EXCEPT ![file[m]] = "whole"]
    /\ Goto(m, "copy", todo[m])
    /\ UNCHANGED <<crew, oldDir, old, newDir, index, version, file, crashes>>

(* Every entry of the old tree is compared before anything else happens.   *)
Verify(m) ==
    /\ pc[m] = "verify"
    /\ IF \A e \in Present : Copied(e) THEN Goto(m, "convert", {}) ELSE Fail(m)
    /\ UNCHANGED <<crew, places, version, file, crashes>>

(* Faulty: fs_version is written as soon as the new tree is complete.      *)
ConvertPersists(m) ==
    /\ \/ Step(m, "convert", "match")
       \/ Step(m, "convert_only", "persist")
    /\ index' = (index \/ new[Index] # "absent")
    /\ version' = "current"
    /\ UNCHANGED <<crew, oldDir, old, newDir, new, file, crashes>>

(* convert_index_json_to_jsonl: index.json stays, index.jsonl appears at   *)
(* once by os.replace.  With nothing left to remove, fs_version is next.   *)
Convert(m) ==
    /\ \/ Step(m, "convert", "match")
       \/ Step(m, "convert_only", "persist")
    /\ index' = (index \/ new[Index] # "absent")
    /\ UNCHANGED <<crew, oldDir, old, newDir, new, version, file, crashes>>

(* _cleanup_old_migration_dir: compare once more, then rmtree entry by     *)
(* entry; another process's rmtree of the same entries makes it fail.      *)
Match(m) ==
    /\ pc[m] = "match"
    /\ \/ oldDir = "dir" /\ (\A e \in Present : Copied(e)) /\ Goto(m, "remove", Present)
       \/ oldDir = "dir" /\ (\E e \in Present : ~Copied(e)) /\ Fail(m)
       \/ oldDir = "link" /\ newDir  /\ Goto(m, "remove", {})
       \/ oldDir = "link" /\ ~newDir /\ Fail(m)
       \/ oldDir = "none" /\ Goto(m, "persist", {})
    /\ UNCHANGED <<crew, places, version, file, crashes>>

Remove(m) ==
    /\ pc[m] = "remove"
    /\ \/ \E e \in todo[m] :
            /\ old' = [old EXCEPT ![e] = FALSE]
            /\ IF old[e] THEN Goto(m, "remove", todo[m] \ {e}) ELSE Fail(m)
            /\ UNCHANGED oldDir
       \/ /\ todo[m] = {}
          /\ oldDir' = "none" /\ Goto(m, "persist", {})
          /\ UNCHANGED old
    /\ UNCHANGED <<crew, newDir, new, index, version, file, crashes>>

(* UPDATE ... SET fs_version, last of all.                                 *)
Persist(m) ==
    /\ Step(m, "persist", "done")
    /\ version' = "current"
    /\ UNCHANGED <<crew, places, file, crashes>>

Crash(m) ==
    /\ pc[m] \notin {"idle", "done"} /\ crashes < MaxCrashes
    /\ crashes' = crashes + 1
    /\ Fail(m)
    /\ UNCHANGED <<crew, places, version, file>>

Migrate(m) ==
    \/ Begin(m) \/ Start(m) \/ Rename(m) \/ Unlink(m) \/ Copy(m) \/ Open(m)
    \/ Fill(m) \/ Verify(m) \/ Convert(m) \/ Match(m) \/ Remove(m) \/ Persist(m)

Next == \E m \in Migrators : Migrate(m) \/ Crash(m)

(* The snapshot stays due, so that somebody always tries again.            *)
Fairness == \A m \in Migrators : WF_vars(Migrate(m))
Spec == Init /\ [][Next]_vars /\ Fairness

-----------------------------------------------------------------------------
(* The types of the variables.  *)
TypeOK ==
    /\ crew \subseteq Migrators /\ crashes \in Nat
    /\ oldDir \in {"dir", "link", "none"} /\ old \in [Entries -> BOOLEAN]
    /\ newDir \in BOOLEAN /\ new \in [Entries -> Contents]
    /\ index \in BOOLEAN /\ version \in {"legacy", "current"}
    /\ pc \in [Migrators -> Stages]
    /\ file \in [Migrators -> Files]
    /\ todo \in [Migrators -> SUBSET Entries]

(* One process at a time migrates the snapshot.                            *)
Alone == Cardinality(crew) = 1

KeepsEntries == \A e \in Entries : old[e] \/ new[e] = "whole" => old'[e] \/ new'[e] = "whole"

(* "Copy ... and safely remove the old tree": an output leaves the old     *)
(* directory only for a complete copy in the new one, and a copy is not    *)
(* taken away when it is the only one, wherever a process dies and however *)
(* often it is started again, as long as only one migrates at a time.      *)
NothingLost == [][Alone => KeepsEntries]_vars

(* The same of the function as its comment states it, whoever calls it.    *)
SafelyRemoved == [][KeepsEntries]_vars

(* An output that was in the new directory before stays what it was.       *)
NothingOverwritten == [][\A e \in Entries : new[e] = "other" => new'[e] = "other"]_vars

(* "Persist fs_version last": a row that no query for stale versions will  *)
(* find again has nothing left to migrate.                                 *)
PersistedLast ==
    Alone /\ version = "current" =>
      oldDir = "none" /\ \A e \in Entries : ~old[e] /\ new[e] # "torn"

(* Something in the new place that is no copy, and nobody is writing it.   *)
Obstructed ==
    \E e \in Entries : new[e] \in {"torn", "other"} /\ \A m \in Migrators : pc[m] = "fill" => file[m] # e

(* Unless an output is in the way, the migration gets done in the end.     *)
Migrates == <>(version = "current" \/ Obstructed \/ ~Alone)

(* "an interruption remains selected ... and resumes naturally".           *)
ResumesNaturally == <>(version = "current")
=============================================================================
