---------------------------- MODULE CrawlCommands ----------------------------
(***************************************************************************)
(* What users do to the rows, from the API, the admin pages and the CLI,   *)
(* while the runner works.  A command that makes several statements takes  *)
(* several steps: cmd.at is the statement it makes next.                   *)
(***************************************************************************)
EXTENDS CrawlRows

CONSTANT Commands   \* the commands of this instance

VARIABLE budget     \* commands the user still gives

AllCommands == {"pause", "resume", "cancel", "admin_pause", "admin_resume",
                "snapshot_pause", "snapshot_resume", "snapshot_cancel",
                "queue_for_extraction", "upload"}
ASSUME CommandAssumption == Commands \subseteq AllCommands

NoCommand == [at |-> "none", on |-> NoRow, copy |-> NoCopy, seen |-> [s \in Snaps |-> Absent]]

Begin(kind) == cmd.at = "none" /\ kind \in Commands /\ budget > 0 /\ budget' = budget - 1
Continue(at) == cmd.at = at /\ UNCHANGED budget

(* The command has loaded r and goes on to the statement "at".             *)
Loaded(r, at) == cmd' = [NoCommand EXCEPT !.at = at, !.on = r, !.copy = row[r]]
Finished == cmd' = NoCommand

-----------------------------------------------------------------------------
(* Crawl.pause: the crawl's row under the status it was loaded with, ...   *)
CrawlPause ==
    /\ Begin("pause")
    /\ Status(Crawl) \in Runnable
    /\ Loaded(Crawl, "pause_row")
    /\ UNCHANGED <<row, due>>

CrawlPauseRow ==
    LET hit == Status(Crawl) = cmd.copy.status IN
    /\ Continue("pause_row")
    /\ Set(Crawl, hit, Paused, "max")
    /\ cmd' = IF hit THEN [NoCommand EXCEPT !.at = "pause_list"] ELSE NoCommand

(* ... then the open children, as one query finds them, ...                *)
CrawlPauseList ==
    /\ Continue("pause_list")
    /\ cmd' = [NoCommand EXCEPT !.at = "pause_child",
                  !.seen = [s \in Snaps |-> IF Status(s) \in Open THEN Status(s) ELSE Absent]]
    /\ UNCHANGED <<row, due>>

(* ... each paused under the status it had then.  Paused ones stay.        *)
CrawlPauseChild(s) ==
    /\ Continue("pause_child")
    /\ cmd.seen[s] # Absent
    /\ Set(s, cmd.seen[s] # Paused /\ Status(s) = cmd.seen[s], Paused, "max")
    /\ cmd' = [cmd EXCEPT !.seen[s] = Absent]

CrawlPauseEnd ==
    /\ Continue("pause_child")
    /\ \A s \in Snaps : cmd.seen[s] = Absent
    /\ Finished
    /\ UNCHANGED <<row, due>>

(* Crawl.resume: the row, if it is still paused, then its paused children. *)
CrawlResume ==
    /\ Begin("resume")
    /\ Status(Crawl) = Paused
    /\ Loaded(Crawl, "resume_row")
    /\ UNCHANGED <<row, due>>

CrawlResumeRow ==
    LET hit == Status(Crawl) = Paused IN
    /\ Continue("resume_row")
    /\ Set(Crawl, hit, Queued, "now")
    /\ cmd' = IF hit THEN [NoCommand EXCEPT !.at = "resume_children"] ELSE NoCommand

CrawlResumeChildren ==
    /\ Continue("resume_children")
    /\ Update(With(Snaps, {Paused}), LAMBDA s : Queued, "now")
    /\ Finished

(* Crawl.cancel, and the admin action Seal: wake the children, then seal   *)
(* the crawl, due for the runner's cleanup.                                *)
CrawlCancel ==
    /\ Begin("cancel")
    /\ WakeOpenChildren
    /\ cmd' = [NoCommand EXCEPT !.at = "cancel_row"]

CrawlCancelRow ==
    /\ Continue("cancel_row")
    /\ Set(Crawl, Status(Crawl) # Sealed, Sealed, "now")
    /\ Finished

(* The admin actions Pause and Resume: the crawl's row and nothing else.   *)
AdminPause ==
    /\ Begin("admin_pause")
    /\ Set(Crawl, Status(Crawl) \notin Inactive, Paused, "max")
    /\ UNCHANGED cmd

AdminResume ==
    /\ Begin("admin_resume")
    /\ Set(Crawl, Status(Crawl) \in Inactive, Queued, "now")
    /\ UNCHANGED cmd

-----------------------------------------------------------------------------
(* Snapshot.pause and Snapshot.resume.                                     *)
SnapshotPause(s) ==
    /\ Begin("snapshot_pause")
    /\ Status(s) \in Runnable
    /\ Loaded(s, "snapshot_pause_row")
    /\ UNCHANGED <<row, due>>

SnapshotPauseRow ==
    /\ Continue("snapshot_pause_row")
    /\ Set(cmd.on, Status(cmd.on) = cmd.copy.status, Paused, "max")
    /\ Finished

SnapshotResume(s) ==
    /\ Begin("snapshot_resume")
    /\ Status(s) = Paused
    /\ Loaded(s, "snapshot_resume_row")
    /\ UNCHANGED <<row, due>>

SnapshotResumeRow ==
    /\ Continue("snapshot_resume_row")
    /\ Set(cmd.on, Status(cmd.on) = Paused, Queued, "now")
    /\ Finished

(* Snapshot.cancel seals the row if it is as it was loaded, and says       *)
(* nothing if it is not.                                                   *)
SnapshotCancel(s) ==
    /\ Begin("snapshot_cancel")
    /\ Status(s) \in Open
    /\ Loaded(s, "snapshot_cancel_row")
    /\ UNCHANGED <<row, due>>

SnapshotCancelRow ==
    /\ Continue("snapshot_cancel_row")
    /\ Set(cmd.on, Same(cmd.on, cmd.copy) /\ Status(cmd.on) \in Open, Sealed, "none")
    /\ Finished

(* Snapshot.queue_for_extraction: the snapshot's row by compare-and-set,   *)
(* then the crawl's, which is read again and written by compare-and-set.   *)
QueueForExtraction(s) ==
    /\ Begin("queue_for_extraction")
    /\ Status(s) # Absent
    /\ Loaded(s, "queue_row")
    /\ UNCHANGED <<row, due>>

QueueRow ==
    LET hit == Same(cmd.on, cmd.copy) IN
    /\ Continue("queue_row")
    /\ Set(cmd.on, hit, Queued, "now")
    /\ cmd' = IF hit THEN [NoCommand EXCEPT !.at = "queue_read_crawl", !.on = cmd.on]
                     ELSE NoCommand

QueueReadCrawl ==
    /\ Continue("queue_read_crawl")
    /\ Loaded(Crawl, "queue_crawl")
    /\ UNCHANGED <<row, due>>

QueueCrawl ==
    /\ Continue("queue_crawl")
    /\ Set(Crawl, Same(Crawl, cmd.copy),
           IF cmd.copy.status = Started THEN Started ELSE Queued, "now")
    /\ Finished

(* create_archiveresult writes the result of the browser extension, then   *)
(* _queue_archiveresult_snapshot_maintenance reads the snapshot again and, *)
(* if it was sealed or out of the queue, makes it due, in any case.        *)
Upload(s) ==
    /\ Begin("upload")
    /\ Status(s) # Absent
    /\ cmd' = [NoCommand EXCEPT !.at = "upload_read", !.on = s]
    /\ results' = [results EXCEPT ![s] = @ \cup {"upload"}]
    /\ UNCHANGED <<row, due>>

UploadRead ==
    /\ Continue("upload_read")
    /\ Loaded(cmd.on, "upload_row")
    /\ UNCHANGED <<row, due>>

UploadRow ==
    /\ Continue("upload_row")
    /\ Set(cmd.on, cmd.copy.status = Sealed \/ cmd.copy.retry = NULL, Status(cmd.on), "now")
    /\ Finished

-----------------------------------------------------------------------------
NextStatement ==
    \/ CrawlPauseRow \/ CrawlPauseList \/ CrawlPauseEnd
    \/ \E s \in Snaps : CrawlPauseChild(s)
    \/ CrawlResumeRow \/ CrawlResumeChildren
    \/ CrawlCancelRow
    \/ SnapshotPauseRow \/ SnapshotResumeRow \/ SnapshotCancelRow
    \/ QueueRow \/ QueueReadCrawl \/ QueueCrawl
    \/ UploadRead \/ UploadRow

OwnCommand ==
    \/ CrawlPause \/ CrawlResume \/ CrawlCancel \/ AdminPause \/ AdminResume
    \/ \E s \in Snaps : \/ SnapshotPause(s) \/ SnapshotResume(s) \/ SnapshotCancel(s)
                       \/ QueueForExtraction(s)
    \/ NextStatement

Command ==
    /\ (OwnCommand /\ UNCHANGED results) \/ \E s \in Snaps : Upload(s)
    /\ UNCHANGED <<run, task, hooks>>
=============================================================================
