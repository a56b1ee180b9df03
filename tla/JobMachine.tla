----------------------------- MODULE JobMachine -----------------------------
(***************************************************************************)
(* The job state machine every background job of the server promises to    *)
(* follow: the transition table of packages/core/src/platform/jobs.ts, and *)
(* the paths automation_jobs may take through it in one UPDATE             *)
(* (packages/database/src/automations/repository.ts, COLLAPSED_HOPS).      *)
(*                                                                         *)
(* As a specification it is the abstract contract of a table of jobs: each *)
(* row is inserted pending and only ever moves along the table's edges.    *)
(***************************************************************************)
EXTENDS Naturals

CONSTANT Row              \* the rows of the job table

VARIABLE status           \* status[r]: the machine status of row r

JobStatuses == {"pending", "leased", "queued", "processing",
                "completed", "failed", "cancelled", "dead_letter"}

\* A row that has not been inserted yet.
Absent == "absent"

\* `transitions`: the statuses each status may be followed by.
transitions ==
  [ pending     |-> {"leased", "cancelled"},
    leased      |-> {"queued", "pending", "cancelled"},
    queued      |-> {"processing", "pending", "cancelled", "dead_letter"},
    processing  |-> {"completed", "pending", "failed", "cancelled", "dead_letter"},
    completed   |-> {},
    failed      |-> {"pending", "dead_letter"},
    cancelled   |-> {},
    dead_letter |-> {"pending", "cancelled"} ]

CanTransitionJob(from, to) == to \in transitions[from]

\* COLLAPSED_HOPS: one UPDATE may traverse leased -> queued -> processing, or
\* processing -> pending -> leased; every hop of the path must be an edge.
CollapsedHop(from, to) ==
  \/ from = "leased"     /\ to = "processing"
  \/ from = "processing" /\ to = "leased"

Via(from) == IF from = "leased" THEN "queued" ELSE "pending"

\* assertAutomationJobTransition returns normally.
Allowed(from, to) ==
  IF CollapsedHop(from, to)
  THEN CanTransitionJob(from, Via(from)) /\ CanTransitionJob(Via(from), to)
  ELSE CanTransitionJob(from, to)

-----------------------------------------------------------------------------
Init == status = [r \in Row |-> Absent]

\* The write one statement makes to row r.
RowStep(r) ==
  \/ status'[r] = status[r]
  \/ status[r] = Absent /\ status'[r] = "pending"
  \/ status[r] \in JobStatuses /\ Allowed(status[r], status'[r])

\* A batch may write several rows in one transaction.
Next ==
  /\ status' \in [Row -> JobStatuses \union {Absent}]
  /\ \A r \in Row : RowStep(r)

Spec == Init /\ [][Next]_status
=============================================================================
