------------------------------- MODULE Deals -------------------------------
(***************************************************************************)
(* Deals, their pipeline and their tasks.                                  *)
(*                                                                         *)
(*   apps/server/src/deals/service.ts              the requests            *)
(*   packages/database/src/deals/repository.ts     their SQL               *)
(*                                                                         *)
(* A request reads a row, merges a patch into what it read and writes      *)
(* every column back; requests interleave between their awaits.            *)
(* Of a deal's columns the stage, the status with its two times and one    *)
(* plain column (its value) are kept; of a task's the status and its time. *)
(* A time is whether it is set.  The other references a deal holds         *)
(* (contact, company, owner) are checked the way the stage is; they and    *)
(* the audit log are left out.                                             *)
(***************************************************************************)
EXTENDS Naturals, FiniteSets

CONSTANTS
  PipelineIds,    \* uuids pipelines may get
  StagePositions, \* positions of the seed stages (DEFAULT_STAGES)
  DealIds,        \* uuids deals may get
  TaskIds,        \* uuids tasks may get
  Values,         \* what the plain column may hold
  DealRequests,   \* concurrent requests
  Missing,        \* the row of a deal or a task that does not exist
  Unset           \* a field a patch leaves out

Stages == PipelineIds \X StagePositions
DealStatus == {"open", "won", "lost"}
TaskStatus == {"open", "completed"}

(* The columns of a deal that a request writes, and the row they are in.   *)
DealColumns == [stage : Stages, status : DealStatus, value : Values,
                wonAt : BOOLEAN, lostAt : BOOLEAN]
DealRow == [columns : DealColumns, archived : BOOLEAN]
TaskRow == [deal : DealIds, status : TaskStatus, completedAt : BOOLEAN]

ASSUME DealsAssumption ==
  /\ Missing \notin DealRow /\ Missing \notin TaskRow
  /\ Unset \notin Stages /\ Unset \notin Values
  /\ Unset \notin DealStatus /\ Unset \notin TaskStatus
  /\ Stages # {} /\ Values # {} /\ DealIds # {} /\ TaskIds # {}

VARIABLES
  pipelines,    \* the workspace's pipelines, each with its seed stages
  deals,        \* DealIds -> the row, or Missing
  tasks,        \* TaskIds -> the row, or Missing
  archivedAs,   \* history: DealIds -> the columns when the deal was archived
  dealReq       \* DealRequests -> what the request is about to do

dealVars == <<pipelines, deals, tasks, archivedAs, dealReq>>

IdleDeal == [step |-> "idle"]
DealRequestState ==
  {IdleDeal, [step |-> "seed"]}
    \cup [step : {"insertDeal"}, columns : DealColumns]
    \cup [step : {"writeDeal"}, deal : DealIds, columns : DealColumns]
    \cup [step : {"moveDeal"}, deal : DealIds, stage : Stages]
    \cup [step : {"insertTask"}, deal : DealIds]
    \cup [step : {"writeTask"}, task : TaskIds, status : TaskStatus, completedAt : BOOLEAN]

DealTypeOK ==
  /\ pipelines \subseteq PipelineIds
  /\ deals \in [DealIds -> DealRow \cup {Missing}]
  /\ tasks \in [TaskIds -> TaskRow \cup {Missing}]
  /\ archivedAs \in [DealIds -> DealColumns \cup {Missing}]
  /\ dealReq \in [DealRequests -> DealRequestState]

DealInit ==
  /\ pipelines = {}
  /\ deals = [d \in DealIds |-> Missing]
  /\ tasks = [t \in TaskIds |-> Missing]
  /\ archivedAs = [d \in DealIds |-> Missing]
  /\ dealReq = [r \in DealRequests |-> IdleDeal]

Open(d) == deals[d] # Missing /\ ~deals[d].archived
Continue(r, state) == dealReq' = [dealReq EXCEPT ![r] = state]
Step(r) == dealReq[r].step

-----------------------------------------------------------------------------
(* ensureDefaultPipeline: looked up, else seeded with its stages in one    *)
(* batch, which the unique name rejects when another request was first.    *)

FindDefaultPipeline(r) ==
  /\ Step(r) = "idle"
  /\ pipelines = {}
  /\ Continue(r, [step |-> "seed"])
  /\ UNCHANGED <<pipelines, deals, tasks, archivedAs>>

SeedPipeline(r, p) ==
  /\ Step(r) = "seed"
  /\ pipelines' = IF pipelines = {} THEN {p} ELSE pipelines
  /\ Continue(r, IdleDeal)
  /\ UNCHANGED <<deals, tasks, archivedAs>>

-----------------------------------------------------------------------------
(* validateDealReferences: the stage is one of a pipeline there is.        *)
StageExists(stage) == stage[1] \in pipelines

(* createDeal: the references are checked, then the row is inserted.       *)
CheckDeal(r, stage, status, value) ==
  /\ Step(r) = "idle"
  /\ StageExists(stage)
  /\ Continue(r, [step |-> "insertDeal",
                  columns |-> [stage |-> stage, status |-> status, value |-> value,
                               wonAt |-> status = "won", lostAt |-> status = "lost"]])
  /\ UNCHANGED <<pipelines, deals, tasks, archivedAs>>

InsertDeal(r, d) ==
  /\ Step(r) = "insertDeal"
  /\ deals[d] = Missing
  /\ deals' = [deals EXCEPT ![d] = [columns |-> dealReq[r].columns, archived |-> FALSE]]
  /\ Continue(r, IdleDeal)
  /\ UNCHANGED <<pipelines, tasks, archivedAs>>

(* updateDeal: what the patch leaves out (Unset) keeps what was read; a    *)
(* time is kept while the status it belongs to stays.                      *)
Keep(given, stored) == IF given = Unset THEN stored ELSE given

Merged_DropsStage(current, patch) ==
  LET status == Keep(patch.status, current.status)
  IN [stage  |-> patch.stage,
      status |-> status,
      value  |-> Keep(patch.value, current.value),
      wonAt  |-> status = "won" /\ (current.status = "won" => current.wonAt),
      lostAt |-> status = "lost" /\ (current.status = "lost" => current.lostAt)]

Merged(current, patch) ==
  LET status == Keep(patch.status, current.status)
  IN [stage  |-> Keep(patch.stage, current.stage),
      status |-> status,
      value  |-> Keep(patch.value, current.value),
      wonAt  |-> status = "won" /\ (current.status = "won" => current.wonAt),
      lostAt |-> status = "lost" /\ (current.status = "lost" => current.lostAt)]

ReadDeal(r, d, patch) ==
  /\ Step(r) = "idle"
  /\ Open(d)
  /\ StageExists(Keep(patch.stage, deals[d].columns.stage))
  /\ Continue(r, [step |-> "writeDeal", deal |-> d,
                  columns |-> Merged(deals[d].columns, patch)])
  /\ UNCHANGED <<pipelines, deals, tasks, archivedAs>>

(* The UPDATE writes nothing when the deal was archived in between.        *)
WriteDeal_AnyRow(r) ==
  LET d == dealReq[r].deal
  IN /\ Step(r) = "writeDeal"
     /\ deals' = [deals EXCEPT ![d].columns = dealReq[r].columns]
     /\ Continue(r, IdleDeal)
     /\ UNCHANGED <<pipelines, tasks, archivedAs>>

WriteDeal(r) ==
  LET d == dealReq[r].deal
  IN /\ Step(r) = "writeDeal"
     /\ deals' = IF Open(d) THEN [deals EXCEPT ![d].columns = dealReq[r].columns] ELSE deals
     /\ Continue(r, IdleDeal)
     /\ UNCHANGED <<pipelines, tasks, archivedAs>>

(* moveDeal: the stage is looked up in the pipeline of the deal as read.   *)
ReadForMove(r, d, stage) ==
  /\ Step(r) = "idle"
  /\ Open(d)
  /\ stage[1] = deals[d].columns.stage[1]
  /\ Continue(r, [step |-> "moveDeal", deal |-> d, stage |-> stage])
  /\ UNCHANGED <<pipelines, deals, tasks, archivedAs>>

MoveDeal(r) ==
  LET d == dealReq[r].deal
  IN /\ Step(r) = "moveDeal"
     /\ deals' = IF Open(d) THEN [deals EXCEPT ![d].columns.stage = dealReq[r].stage] ELSE deals
     /\ Continue(r, IdleDeal)
     /\ UNCHANGED <<pipelines, tasks, archivedAs>>

ArchiveDeal(d) ==
  /\ Open(d)
  /\ deals' = [deals EXCEPT ![d].archived = TRUE]
  /\ archivedAs' = [archivedAs EXCEPT ![d] = deals[d].columns]
  /\ UNCHANGED <<pipelines, tasks, dealReq>>

-----------------------------------------------------------------------------
(* Tasks.                                                                  *)

CheckTask(r, d) ==
  /\ Step(r) = "idle"
  /\ Open(d)
  /\ Continue(r, [step |-> "insertTask", deal |-> d])
  /\ UNCHANGED <<pipelines, deals, tasks, archivedAs>>

InsertTask(r, t) ==
  /\ Step(r) = "insertTask"
  /\ tasks[t] = Missing
  /\ tasks' = [tasks EXCEPT ![t] = [deal |-> dealReq[r].deal, status |-> "open",
                                    completedAt |-> FALSE]]
  /\ Continue(r, IdleDeal)
  /\ UNCHANGED <<pipelines, deals, archivedAs>>

ReadTask(r, t, patch) ==
  LET status == Keep(patch, tasks[t].status)
  IN /\ Step(r) = "idle"
     /\ tasks[t] # Missing
     /\ Continue(r, [step |-> "writeTask", task |-> t, status |-> status,
                     completedAt |-> /\ status = "completed"
                                     /\ tasks[t].status = "completed" => tasks[t].completedAt])
     /\ UNCHANGED <<pipelines, deals, tasks, archivedAs>>

(* The row may be gone, and the deal may be archived: neither is looked at.*)
WriteTask(r) ==
  LET t == dealReq[r].task
  IN /\ Step(r) = "writeTask"
     /\ tasks' = IF tasks[t] = Missing THEN tasks
                 ELSE [tasks EXCEPT ![t].status = dealReq[r].status,
                                    ![t].completedAt = dealReq[r].completedAt]
     /\ Continue(r, IdleDeal)
     /\ UNCHANGED <<pipelines, deals, archivedAs>>

DeleteTask(t) ==
  /\ tasks[t] # Missing
  /\ tasks' = [tasks EXCEPT ![t] = Missing]
  /\ UNCHANGED <<pipelines, deals, archivedAs, dealReq>>

DealRequestDies(r) ==
  /\ Step(r) # "idle"
  /\ Continue(r, IdleDeal)
  /\ UNCHANGED <<pipelines, deals, tasks, archivedAs>>

-----------------------------------------------------------------------------
Patch == [stage : Stages \cup {Unset}, status : DealStatus \cup {Unset},
          value : Values \cup {Unset}]

DealNext ==
  \/ \E r \in DealRequests :
       \/ FindDefaultPipeline(r) \/ \E p \in PipelineIds : SeedPipeline(r, p)
       \/ \E stage \in Stages, status \in DealStatus, value \in Values :
            CheckDeal(r, stage, status, value)
       \/ \E d \in DealIds : InsertDeal(r, d) \/ CheckTask(r, d)
       \/ \E d \in DealIds, patch \in Patch : ReadDeal(r, d, patch)
       \/ \E d \in DealIds, stage \in Stages : ReadForMove(r, d, stage)
       \/ \E t \in TaskIds : InsertTask(r, t)
       \/ \E t \in TaskIds, patch \in TaskStatus \cup {Unset} : ReadTask(r, t, patch)
       \/ WriteDeal(r) \/ MoveDeal(r) \/ WriteTask(r) \/ DealRequestDies(r)
  \/ \E d \in DealIds : ArchiveDeal(d)
  \/ \E t \in TaskIds : DeleteTask(t)

DealSpec == DealInit /\ [][DealNext]_dealVars

-----------------------------------------------------------------------------
(* The workspace has at most one pipeline, however many first visits race  *)
(* to seed it.  (deals/repository.ts:101 ensureDefaultPipeline)            *)
OnePipeline == \A p, q \in pipelines : p = q

(* A deal stands in a stage of a pipeline there is, and carries the time   *)
(* of the status it has and of no other, whichever patches and moves write *)
(* over each other.  (deals/service.ts updateDeal, moveDeal)               *)
DealsWellFormed ==
  \A d \in DealIds : deals[d] # Missing =>
    LET c == deals[d].columns
    IN /\ StageExists(c.stage)
       /\ c.wonAt <=> c.status = "won"
       /\ c.lostAt <=> c.status = "lost"

(* A request that read a deal before it was archived does not change it    *)
(* afterwards.  (deals/repository.ts updateDeal, moveDeal)                 *)
ArchivedKept ==
  \A d \in DealIds :
    deals[d] # Missing /\ deals[d].archived => deals[d].columns = archivedAs[d]

(* A task belongs to a deal and has a completion time exactly while it is  *)
(* completed.  (deals/service.ts updateDealTask)                           *)
TasksWellFormed ==
  \A t \in TaskIds : tasks[t] # Missing =>
    /\ deals[tasks[t].deal] # Missing
    /\ tasks[t].completedAt <=> tasks[t].status = "completed"

(* What the deal board and the reports count on, under concurrent patches, *)
(* moves, archives and task updates of requests that read before they      *)
(* write.                                                                  *)
DealsConsistent == OnePipeline /\ DealsWellFormed /\ ArchivedKept /\ TasksWellFormed

=============================================================================
