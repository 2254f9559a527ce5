--------------------------- MODULE LifecycleDiagram ---------------------------
(***************************************************************************)
(* The two state diagrams of docs/ArchiveBox-Architecture-Diagrams.md, one *)
(* for a Crawl and the same for a Snapshot, as a specification of the      *)
(* statuses alone: who writes a row, when, and what it has read before,    *)
(* are left to the detailed specification.  A sealed row is final there;   *)
(* the code has one more arrow, ReopenCrawl and Reopen.                    *)
(***************************************************************************)
CONSTANTS Rows, Crawl

VARIABLES
    status,
    unserved   \* sealed snapshots that have nothing but uploads

Open == {"queued", "started", "paused"}

Becomes(R, new) == status' = [r \in Rows |-> IF r \in R THEN new ELSE status[r]]

DiagramInit == status = [r \in Rows |-> IF r = Crawl THEN "queued" ELSE "absent"]

(* Rows are created queued, several by one statement.                      *)
Create(R) ==
    /\ \A r \in R : status[r] = "absent"
    /\ Becomes(R, "queued")

Start(r) == status[r] = "queued" /\ Becomes({r}, "started")
Pause(r) == status[r] \in {"queued", "started"} /\ Becomes({r}, "paused")
Seal(r)  == status[r] \in Open /\ Becomes({r}, "sealed")

(* A crawl is resumed alone, its snapshots all by one statement.           *)
Resume(R) ==
    /\ \A r \in R : status[r] = "paused"
    /\ Becomes(R, "queued")

DocumentedNext ==
    \/ \E R \in SUBSET Rows : Create(R) \/ Resume(R)
    \/ \E r \in Rows : Start(r) \/ Pause(r) \/ Seal(r)

DocumentedSpec == DiagramInit /\ [][DocumentedNext]_status

(* Not in the diagrams: a sealed crawl is opened started, for snapshots    *)
(* that have to be captured yet; these are then queued by one statement.   *)
ReopenCrawl ==
    /\ status[Crawl] = "sealed" /\ unserved # {}
    /\ Becomes({Crawl}, "started")

Reopen(R) ==
    /\ R \subseteq unserved /\ status[Crawl] # "paused"
    /\ Becomes(R, "queued")

DiagramNext == DocumentedNext \/ ReopenCrawl \/ \E R \in SUBSET Rows : Reopen(R)

DiagramSpec == DiagramInit /\ [][DiagramNext]_status
=============================================================================
