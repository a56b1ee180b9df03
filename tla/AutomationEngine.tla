-------------------------- MODULE AutomationEngine --------------------------
(***************************************************************************)
(* The automation engine: the Cron dispatcher that leases due              *)
(* automation_jobs and puts them on the jobs queue, the queue consumers    *)
(* that run one node of an enrollment's graph per message, and the dead    *)
(* letters of the messages they give up on.                                *)
(*                                                                         *)
(*   apps/server/src/runtime/dispatch.ts          scheduled(), queue()     *)
(*   apps/server/src/automations/worker.ts        processAutomationJob()   *)
(*   packages/database/src/automations/repository.ts                       *)
(*                                   AutomationEngineRepository            *)
(*                                                                         *)
(* Each await of the code is a step boundary: a consumer may be overtaken, *)
(* or die, between any two of the D1 calls it makes.  A D1 batch is one    *)
(* step.  The jobs queue redelivers a message whose consumer failed, and   *)
(* may deliver a message twice.                                            *)
(***************************************************************************)
EXTENDS Naturals, FiniteSets

CONSTANTS
  Enrollments,   \* automation_enrollments rows that may be created
  Nodes,         \* node ids of the published graph
  Source,        \* its one source node
  Kind,          \* Kind[n]: the type of node n
  TagConditions, \* the condition nodes that test the contact's tags
  Edge,          \* Edge[n][b]: target of the first edge of n with branch b
  NoNode,        \* no such edge; also a NULL current_node_id
  Leases,        \* lease ids (uuids: a claim takes one nobody refers to)
  NoLease,       \* a NULL lease_id
  Ticks,         \* Cron invocations that may overlap
  Workers,       \* queue consumer invocations that may overlap
  NoMessage,     \* what an idle consumer holds
  MaxRetries,    \* max_retries of the jobs queue
  Limit          \* Limit[h]: how often hazard h may strike in a behaviour

Branches == {"next", "yes", "no", "timeout"}

\* branchesByNodeType
BranchesOf(kind) ==
  CASE kind = "condition" -> {"yes", "no"}
    [] kind = "decision"  -> {"yes", "no", "timeout"}
    [] OTHER              -> {"next"}

Kinds == {"source", "action", "delay", "condition", "decision"}

(***************************************************************************)
(* fault: a consumer throws a retryable error or dies; reject: an action   *)
(* throws a PermanentChannelError; tick: a Cron invocation dies before it  *)
(* sends; duplicate: the queue delivers a message once more; replay: an    *)
(* administrator replays a dead letter.                                    *)
(***************************************************************************)
Hazards == {"fault", "reject", "tick", "duplicate", "replay"}

\* What validateAutomation guarantees of a published graph, and the types of
\* the other parameters.
ASSUME EngineAssumption ==
  /\ Source \in Nodes
  /\ Kind \in [Nodes -> Kinds]
  /\ TagConditions \subseteq { n \in Nodes : Kind[n] = "condition" }
  /\ Edge \in [Nodes -> [Branches -> Nodes \union {NoNode}]]
  /\ \A n \in Nodes : Kind[n] = "source" <=> n = Source
  /\ \A n \in Nodes, b \in Branches :
        Edge[n][b] # NoNode => b \in BranchesOf(Kind[n]) /\ Edge[n][b] # Source
  /\ NoNode \notin Nodes
  /\ NoLease \notin Leases
  /\ MaxRetries \in Nat
  /\ Limit \in [Hazards -> Nat]

\* It also guarantees that the graph has no cycle: each edge leads to a node of
\* a lower rank.
ASSUME AcyclicAssumption ==
  /\ IsFiniteSet(Nodes)
  /\ \E rank \in [Nodes -> 0..Cardinality(Nodes)] :
       \A n \in Nodes, b \in Branches :
         Edge[n][b] # NoNode => rank[Edge[n][b]] < rank[n]

(***************************************************************************)
(* A job is the row with idempotency key enrollment:node:contact; the      *)
(* contact is the enrollment's, and the key is unique in the table.        *)
(***************************************************************************)
Jobs == Enrollments \X Nodes
EnrollmentOf(j) == j[1]
NodeOf(j) == j[2]

VARIABLES
  enrollment,    \* enrollment[e]: status and current_node_id
  job,           \* job[j]: status, lease_id, payload.waiting, due_at <= now
  queue,         \* messages on the jobs queue, not being processed
  deadLetters,   \* dead_letters rows still pending
  tick,          \* tick[t]: what Cron invocation t has read and claimed
  worker,        \* worker[w]: what consumer w has read and where it stands
  happened,      \* happened[e]: the decisions' event occurred since entered_at
  attribute,     \* attribute[e]: the contact satisfies the conditions
  acted,         \* history: the jobs whose action has taken effect
  spent          \* spent[h]: how often hazard h has struck

vars == <<enrollment, job, queue, deadLetters, tick, worker, happened,
          attribute, acted, spent>>

JobStatus == {"absent", "pending", "leased", "running", "succeeded"}

JobRow == [status  : JobStatus, lease : Leases \union {NoLease},
           waiting : BOOLEAN,   due   : BOOLEAN]

EnrollmentRow == [status : {"absent", "active", "completed"},
                  cursor : Nodes \union {NoNode}]

\* {kind: "automation_job", jobId, leaseId}, and its delivery attempts so far.
Message == [job : Jobs, lease : Leases, tries : 0..MaxRetries]

ASSUME NoMessageAssumption == NoMessage \notin Message

\* source_queue tells which consumer filed the letter.
DeadLetter == [job : Jobs, lease : Leases,
               from : {"jobs", "dead-letter", "delivery"}]

Claims == [job : Jobs, lease : Leases]

TickState == [pc : {"idle", "selected", "claimed"},
              candidates : SUBSET Jobs, claims : SUBSET Claims]

WorkerState == [pc : {"idle", "found", "executing", "parking",
                      "finishing", "ack"},
                msg : Message \union {NoMessage},
                running : BOOLEAN, waiting : BOOLEAN, attribute : BOOLEAN,
                branch : Branches]

NoJob     == [status |-> "absent", lease |-> NoLease,
              waiting |-> FALSE, due |-> FALSE]
IdleTick  == [pc |-> "idle", candidates |-> {}, claims |-> {}]
IdleWorker == [pc |-> "idle", msg |-> NoMessage, running |-> FALSE,
               waiting |-> FALSE, attribute |-> FALSE, branch |-> "next"]

Spend(h) ==
  /\ spent[h] < Limit[h]
  /\ spent' = [spent EXCEPT ![h] = @ + 1]

-----------------------------------------------------------------------------
(* Enrolling, and what the rest of the system does to the contact.         *)

\* The row both inserts create: born pending, due now, without a lease.
NewJob == [status |-> "pending", lease |-> NoLease,
           waiting |-> FALSE, due |-> TRUE]

\* enrollContact: the enrollment and its first job, in one batch.
EnrollContact(e) ==
  /\ enrollment[e].status = "absent"
  /\ enrollment' = [enrollment EXCEPT ![e] = [status |-> "active", cursor |-> Source]]
  /\ job' = [job EXCEPT ![<<e, Source>>] = NewJob]
  /\ UNCHANGED <<queue, deadLetters, tick, worker, happened, attribute,
                 acted, spent>>

\* A contact event a decision waits for is recorded; events are never removed.
ContactEvent(e) ==
  /\ enrollment[e].status = "active" /\ ~happened[e]
  /\ happened' = [happened EXCEPT ![e] = TRUE]
  /\ UNCHANGED <<enrollment, job, queue, deadLetters, tick, worker,
                 attribute, acted, spent>>

\* The contact is edited: a condition that held no longer does, or conversely.
ContactEdited(e) ==
  /\ attribute' = [attribute EXCEPT ![e] = ~@]
  /\ UNCHANGED <<enrollment, job, queue, deadLetters, tick, worker,
                 happened, acted, spent>>

\* due_at is reached.
BecomeDue(j) ==
  /\ job[j].status = "pending" /\ ~job[j].due
  /\ job' = [job EXCEPT ![j].due = TRUE]
  /\ UNCHANGED <<enrollment, queue, deadLetters, tick, worker, happened,
                 attribute, acted, spent>>

-----------------------------------------------------------------------------
(* The Cron dispatcher: scheduled() and claimDueJobs.                      *)

\* The WHERE of the candidates' SELECT.  lease_until is set and cleared
\* together with lease_id.
Claimable(j) ==
  job[j].status = "pending" /\ job[j].due /\ job[j].lease = NoLease

\* The lease ids of job j that anything still refers to.
LeasesInUse(j) ==
  { m.lease : m \in { m \in queue : m.job = j } } \union
  { d.lease : d \in { d \in deadLetters : d.job = j } } \union
  { c.lease : c \in { c \in UNION { tick[t].claims : t \in Ticks } : c.job = j } } \union
  { worker[w].msg.lease : w \in { w \in Workers : /\ worker[w].pc # "idle"
                                                  /\ worker[w].msg.job = j } }

\* The candidates are read (the LIMITs may leave some for a later tick).
SelectDueJobs(t) ==
  /\ tick[t].pc = "idle"
  /\ \E C \in SUBSET { j \in Jobs : Claimable(j) } :
       /\ C # {}
       /\ tick' = [tick EXCEPT ![t] =
                     [pc |-> "selected", candidates |-> C, claims |-> {}]]
  /\ UNCHANGED <<enrollment, job, queue, deadLetters, worker, happened,
                 attribute, acted, spent>>

\* Mutant: the lease UPDATE trusts the SELECT.
StillPending_Unchecked(j) == TRUE

\* The WHERE of the lease UPDATE, which checks the row once more.
StillPending(j) == job[j].status = "pending" /\ job[j].lease = NoLease

\* One batch of conditional UPDATEs; only the rows it changed are kept.
ClaimDueJobs(t) ==
  /\ tick[t].pc = "selected"
  /\ LET won == { j \in tick[t].candidates : StillPending(j) } IN
     \E lease \in [won -> Leases] :
       /\ \A j \in won : lease[j] \notin LeasesInUse(j)
       /\ job' = [j \in Jobs |-> IF j \in won
                                 THEN [job[j] EXCEPT !.status = "leased",
                                                     !.lease = lease[j]]
                                 ELSE job[j]]
       /\ tick' = [tick EXCEPT ![t] =
                     IF won = {} THEN IdleTick
                     ELSE [pc |-> "claimed", candidates |-> {},
                           claims |-> { [job |-> j, lease |-> lease[j]] : j \in won }]]
  /\ UNCHANGED <<enrollment, queue, deadLetters, worker, happened, attribute,
                 acted, spent>>

NewMessage(c) == [job |-> c.job, lease |-> c.lease, tries |-> 0]

\* JOBS_QUEUE.sendBatch(messages)
SendClaimed(t) ==
  /\ tick[t].pc = "claimed"
  /\ queue' = queue \union { NewMessage(c) : c \in tick[t].claims }
  /\ tick' = [tick EXCEPT ![t] = IdleTick]
  /\ UNCHANGED <<enrollment, job, deadLetters, worker, happened, attribute,
                 acted, spent>>

\* The invocation dies, or sendBatch throws: what it claimed is never sent.
TickDies(t) ==
  /\ tick[t].pc = "claimed"
  /\ Spend("tick")
  /\ tick' = [tick EXCEPT ![t] = IdleTick]
  /\ UNCHANGED <<enrollment, job, queue, deadLetters, worker, happened,
                 attribute, acted>>

-----------------------------------------------------------------------------
(* The queue consumer: queue() and processAutomationJob.                   *)

Busy(w, pc) == worker[w].pc = pc
JobOf(w) == worker[w].msg.job
LeaseOf(w) == worker[w].msg.lease

\* Mutant: the row is found by its id alone.
Processable_AnyLease(m) == job[m.job].status \in {"leased", "running"}

\* findJobForProcessing returns a row.
Processable(m) ==
  job[m.job].status \in {"leased", "running"} /\ job[m.job].lease = m.lease

\* What the consumer keeps of the row it read, for the rest of its run.
ReadJob(m) ==
  [pc |-> "found", msg |-> m, running |-> job[m.job].status = "running",
   waiting |-> job[m.job].waiting,
   attribute |-> attribute[EnrollmentOf(m.job)], branch |-> "next"]

\* A message is delivered and its row looked up; a stale message is acked.
Take(w, m) ==
  /\ worker[w].pc = "idle" /\ m \in queue
  /\ worker' = [worker EXCEPT ![w] = IF Processable(m) THEN ReadJob(m) ELSE @]
  /\ UNCHANGED <<enrollment, job, deadLetters, tick, happened, attribute, acted>>

Deliver(w, m) == Take(w, m) /\ queue' = queue \ {m} /\ UNCHANGED spent

\* The queue is at-least-once: m will be delivered again.
DeliverDuplicate(w, m) == Take(w, m) /\ Spend("duplicate") /\ UNCHANGED queue

\* The WHERE of startLeasedJob, parkJobUntil and releaseJobForRetry: the row
\* still carries this consumer's lease and has the expected status.
HeldAs(status, w) ==
  job[JobOf(w)].status = status /\ job[JobOf(w)].lease = LeaseOf(w)

\* Mutant: a row found running is never resumed.
AfterStart_NoResume(w) == IF HeldAs("leased", w) THEN "executing" ELSE "ack"

\* The early return when another consumer started the row meanwhile; a row
\* that was read as running is the remains of a dead consumer, and is resumed.
AfterStart(w) ==
  IF HeldAs("leased", w) \/ worker[w].running THEN "executing" ELSE "ack"

\* startLeasedJob
StartLeasedJob(w) ==
  /\ Busy(w, "found")
  /\ job' = IF HeldAs("leased", w)
            THEN [job EXCEPT ![JobOf(w)].status = "running"] ELSE job
  /\ worker' = [worker EXCEPT ![w].pc = AfterStart(w)]
  /\ UNCHANGED <<enrollment, queue, deadLetters, tick, happened, attribute,
                 acted, spent>>

\* evaluateCondition: columns come from the row read before the job was
\* started, tags are looked up now.
ConditionHolds(w) ==
  IF NodeOf(JobOf(w)) \in TagConditions
  THEN attribute[EnrollmentOf(JobOf(w))] ELSE worker[w].attribute

\* executeNode: the branch the node takes.
Taken(w) ==
  LET kind == Kind[NodeOf(JobOf(w))] IN
  CASE kind = "condition" -> IF ConditionHolds(w) THEN "yes" ELSE "no"
    [] kind = "decision"  -> IF happened[EnrollmentOf(JobOf(w))]
                             THEN "yes" ELSE "timeout"
    [] OTHER              -> "next"

\* executeNode returns waitUntil: a delay always does; a decision does until
\* its event occurs or it has waited once.
MustWait(w) ==
  LET kind == Kind[NodeOf(JobOf(w))] IN
  \/ kind = "delay"
  \/ kind = "decision" /\ ~happened[EnrollmentOf(JobOf(w))] /\ ~worker[w].waiting

ExecuteNode(w) ==
  /\ Busy(w, "executing") /\ ~MustWait(w)
  /\ worker' = [worker EXCEPT ![w] =
                  [@ EXCEPT !.pc = "finishing", !.branch = Taken(w)]]
  /\ acted' = IF Kind[NodeOf(JobOf(w))] = "action"
              THEN acted \union {JobOf(w)} ELSE acted
  /\ UNCHANGED <<enrollment, job, queue, deadLetters, tick, happened,
                 attribute, spent>>

ExecuteWait(w) ==
  /\ Busy(w, "executing") /\ MustWait(w)
  /\ worker' = [worker EXCEPT ![w].pc = "parking"]
  /\ UNCHANGED <<enrollment, job, queue, deadLetters, tick, happened,
                 attribute, acted, spent>>

\* parkJobUntil
ParkJobUntil(w) ==
  /\ Busy(w, "parking")
  /\ job' = IF HeldAs("running", w)
            THEN [job EXCEPT ![JobOf(w)] =
                    [status |-> "pending", lease |-> NoLease,
                     waiting |-> TRUE, due |-> FALSE]]
            ELSE job
  /\ worker' = [worker EXCEPT ![w].pc = "ack"]
  /\ UNCHANGED <<enrollment, queue, deadLetters, tick, happened, attribute,
                 acted, spent>>

\* outgoingEdges(definition, nodeId, branch)[0]
NextNode(w) == Edge[NodeOf(JobOf(w))][worker[w].branch]

\* Mutant: lease_id is not cleared.
JobSucceeded_KeepsLease(row, lease) ==
  IF row.lease = lease THEN [row EXCEPT !.status = "succeeded"] ELSE row

\* jobSucceededUpdate matches the lease, whatever the status.
JobSucceeded(row, lease) ==
  IF row.lease = lease
  THEN [row EXCEPT !.status = "succeeded", !.lease = NoLease] ELSE row

CompleteJobClosingEnrollment(w) ==
  /\ Busy(w, "finishing") /\ NextNode(w) = NoNode
  /\ job' = [job EXCEPT ![JobOf(w)] = JobSucceeded(@, LeaseOf(w))]
  /\ enrollment' = [enrollment EXCEPT ![EnrollmentOf(JobOf(w))] =
                      [status |-> "completed", cursor |-> NoNode]]
  /\ worker' = [worker EXCEPT ![w].pc = "ack"]
  /\ UNCHANGED <<queue, deadLetters, tick, happened, attribute, acted, spent>>

\* Mutant: the follow-up job is forgotten.
InsertJob_Dropped(row) == row

\* INSERT ... ON CONFLICT DO NOTHING on the idempotency key.
InsertJob(row) == IF row.status = "absent" THEN NewJob ELSE row

\* Mutant: the cursor moves whatever the enrollment's status.
MoveCursor_AnyStatus(row, n) == [row EXCEPT !.cursor = n]

\* UPDATE ... SET current_node_id WHERE status = 'active'
MoveCursor(row, n) == IF row.status = "active" THEN [row EXCEPT !.cursor = n] ELSE row

CompleteJobAdvancingEnrollment(w) ==
  LET e == EnrollmentOf(JobOf(w)) IN
  /\ Busy(w, "finishing") /\ NextNode(w) # NoNode
  /\ job' = [j \in Jobs |-> CASE j = JobOf(w) -> JobSucceeded(job[j], LeaseOf(w))
                             [] j = <<e, NextNode(w)>> /\ j # JobOf(w) -> InsertJob(job[j])
                             [] OTHER -> job[j]]
  /\ enrollment' = [enrollment EXCEPT ![e] = MoveCursor(@, NextNode(w))]
  /\ worker' = [worker EXCEPT ![w].pc = "ack"]
  /\ UNCHANGED <<queue, deadLetters, tick, happened, attribute, acted, spent>>

\* message.ack()
Ack(w) ==
  /\ Busy(w, "ack")
  /\ worker' = [worker EXCEPT ![w] = IdleWorker]
  /\ UNCHANGED <<enrollment, job, queue, deadLetters, tick, happened,
                 attribute, acted, spent>>

-----------------------------------------------------------------------------
(* Failure: retries, dead letters and their replay.                        *)

Letter(m, from) == [job |-> m.job, lease |-> m.lease, from |-> from]

\* Mutant: one retry too many.
RetriesLeft_OffByOne(m) == m.tries <= MaxRetries

RetriesLeft(m) == m.tries < MaxRetries

\* Mutant: the jobs queue has no dead_letter_queue.
Redeliver_Dropped(m) ==
  /\ queue' = IF RetriesLeft(m) THEN queue \union {[m EXCEPT !.tries = @ + 1]} ELSE queue
  /\ UNCHANGED deadLetters

\* The message goes back on the queue; after max_retries it goes to the
\* dead-letter queue, whose consumer files it under that queue's name.
Redeliver(m) ==
  \/ /\ RetriesLeft(m)
     /\ queue' = queue \union {[m EXCEPT !.tries = @ + 1]}
     /\ UNCHANGED deadLetters
  \/ /\ ~RetriesLeft(m)
     /\ deadLetters' = deadLetters \union {Letter(m, "dead-letter")}
     /\ UNCHANGED queue

\* releaseJobForRetry: the running row is handed back, its lease kept.
Released(w) ==
  IF HeldAs("running", w)
  THEN [job EXCEPT ![JobOf(w)].status = "leased"] ELSE job

\* A retryable error inside the try: release the row, message.retry().
FailRetryably(w) ==
  /\ worker[w].pc \in {"executing", "parking", "finishing"}
  /\ Spend("fault")
  /\ job' = Released(w)
  /\ Redeliver(worker[w].msg)
  /\ worker' = [worker EXCEPT ![w] = IdleWorker]
  /\ UNCHANGED <<enrollment, tick, happened, attribute, acted>>

\* The consumer dies, or a call outside the try throws: no release.
ConsumerDies(w) ==
  /\ worker[w].pc # "idle"
  /\ Spend("fault")
  /\ Redeliver(worker[w].msg)
  /\ worker' = [worker EXCEPT ![w] = IdleWorker]
  /\ UNCHANGED <<enrollment, job, tick, happened, attribute, acted>>

\* A PermanentChannelError: release the row, persistDeadLetter, then ack.
FailPermanently(w) ==
  /\ Busy(w, "executing") /\ Kind[NodeOf(JobOf(w))] = "action"
  /\ Spend("reject")
  /\ job' = Released(w)
  /\ deadLetters' = deadLetters \union {Letter(worker[w].msg, "jobs")}
  /\ worker' = [worker EXCEPT ![w].pc = "ack"]
  /\ UNCHANGED <<enrollment, queue, tick, happened, attribute, acted>>

(***************************************************************************)
(* replayDeadLetter sends the body, then marks the row.  A letter filed    *)
(* from the jobs queue goes back there; any other goes to the delivery     *)
(* queue, whose consumer rejects a job's body and files it again.  The row *)
(* may stay pending: the request dies before markReplayed, or a second     *)
(* request has read it too.                                                *)
(***************************************************************************)
ReplayTarget(d) == IF d.from = "jobs" THEN "jobs" ELSE "delivery"

ReplayDeadLetter(d) ==
  /\ d \in deadLetters
  /\ Spend("replay")
  /\ \E kept \in {{d}, {}} :
       \/ /\ ReplayTarget(d) = "jobs"
          /\ queue' = queue \union {NewMessage(d)}
          /\ deadLetters' = (deadLetters \ {d}) \union kept
       \/ /\ ReplayTarget(d) = "delivery"
          /\ deadLetters' = (deadLetters \ {d}) \union kept
                              \union {[d EXCEPT !.from = "delivery"]}
          /\ UNCHANGED queue
  /\ UNCHANGED <<enrollment, job, tick, worker, happened, attribute, acted>>

-----------------------------------------------------------------------------
Init ==
  /\ enrollment = [e \in Enrollments |-> [status |-> "absent", cursor |-> NoNode]]
  /\ job = [j \in Jobs |-> NoJob]
  /\ queue = {}
  /\ deadLetters = {}
  /\ tick = [t \in Ticks |-> IdleTick]
  /\ worker = [w \in Workers |-> IdleWorker]
  /\ happened = [e \in Enrollments |-> FALSE]
  /\ attribute = [e \in Enrollments |-> FALSE]
  /\ acted = {}
  /\ spent = [h \in Hazards |-> 0]

Environment ==
  \/ \E e \in Enrollments : EnrollContact(e) \/ ContactEvent(e) \/ ContactEdited(e)
  \/ \E j \in Jobs : BecomeDue(j)

Dispatcher ==
  \E t \in Ticks : \/ SelectDueJobs(t) \/ ClaimDueJobs(t)
                   \/ SendClaimed(t)   \/ TickDies(t)

Running(w) ==
  \/ StartLeasedJob(w) \/ ExecuteNode(w) \/ ExecuteWait(w) \/ ParkJobUntil(w)
  \/ CompleteJobClosingEnrollment(w) \/ CompleteJobAdvancingEnrollment(w)
  \/ Ack(w)

Failing(w) == FailRetryably(w) \/ ConsumerDies(w) \/ FailPermanently(w)

Consumer ==
  \E w \in Workers :
    \/ \E m \in queue : Deliver(w, m) \/ DeliverDuplicate(w, m)
    \/ Running(w)
    \/ Failing(w)

Replay == \E d \in deadLetters : ReplayDeadLetter(d)

Next == Environment \/ Dispatcher \/ Consumer \/ Replay

Spec == Init /\ [][Next]_vars

(***************************************************************************)
(* Fairness: time passes, the Cron trigger fires every minute and an       *)
(* invocation that is not killed runs to its end, the queue delivers, and  *)
(* a consumer that is not killed runs to its end.  The hazards, the        *)
(* contact's doings and administrators' requests are not fair.             *)
(***************************************************************************)
Fairness ==
  /\ \A j \in Jobs : WF_vars(BecomeDue(j))
  /\ \A t \in Ticks : WF_vars(SelectDueJobs(t)) /\ WF_vars(ClaimDueJobs(t))
                      /\ WF_vars(SendClaimed(t))
  /\ WF_vars(\E w \in Workers, m \in queue : Deliver(w, m))
  /\ \A w \in Workers : WF_vars(Running(w))

FairSpec == Spec /\ Fairness

-----------------------------------------------------------------------------
\* Every variable stays in its type.
TypeOK ==
  /\ enrollment \in [Enrollments -> EnrollmentRow]
  /\ job \in [Jobs -> JobRow]
  /\ queue \subseteq Message
  /\ deadLetters \subseteq DeadLetter
  /\ tick \in [Ticks -> TickState]
  /\ worker \in [Workers -> WorkerState]
  /\ \A w \in Workers : worker[w].pc = "idle" <=> worker[w].msg = NoMessage
  /\ happened \in [Enrollments -> BOOLEAN]
  /\ attribute \in [Enrollments -> BOOLEAN]
  /\ acted \subseteq Jobs
  /\ spent \in [Hazards -> Nat]

Unfinished(e) == { n \in Nodes : job[<<e, n>>].status \in {"pending", "leased", "running"} }

\* A row carries a lease exactly while it is leased or running: a parked row
\* can be claimed again, and no late message finds a finished one.
LeaseConsistency ==
  \A j \in Jobs : job[j].lease # NoLease <=> job[j].status \in {"leased", "running"}

\* A job that succeeded handed its enrollment on: the enrollment is completed,
\* or the job of one of the node's targets exists.
TokenNotLost ==
  \A e \in Enrollments, n \in Nodes :
    job[<<e, n>>].status = "succeeded" =>
      \/ enrollment[e].status = "completed"
      \/ \E b \in Branches : /\ Edge[n][b] # NoNode
                             /\ job[<<e, Edge[n][b]>>].status # "absent"

\* An active enrollment always has a job left to run, whatever crashes or is
\* delivered twice.
NeverAbandoned ==
  \A e \in Enrollments : enrollment[e].status = "active" => Unfinished(e) # {}

\* Without concurrent deliveries the enrollment is one token on the graph:
\* the only unfinished job is at current_node_id, and none outlives completion.
OneToken ==
  \A e \in Enrollments :
    Unfinished(e) = IF enrollment[e].status = "active"
                    THEN {enrollment[e].cursor} ELSE {}

\* Who may still bring a leased or running row to its end.
Carried(j, l) ==
  \/ \E m \in queue : m.job = j /\ m.lease = l
  \/ \E d \in deadLetters : d.job = j /\ d.lease = l
  \/ \E t \in Ticks : [job |-> j, lease |-> l] \in tick[t].claims
  \/ \E w \in Workers : /\ worker[w].pc \in {"found", "executing", "parking", "finishing"}
                        /\ JobOf(w) = j /\ LeaseOf(w) = l

\* A leased or running row is never stranded while the dispatcher survives:
\* a message, a consumer or a dead letter still carries its lease.
LeaseCarried ==
  \A j \in Jobs : job[j].lease # NoLease => Carried(j, job[j].lease)

\* An action's job succeeds only after the action has taken effect.
ActedBeforeSuccess ==
  \A j \in Jobs : Kind[NodeOf(j)] = "action" /\ job[j].status = "succeeded" => j \in acted

\* A decision takes its timeout branch only when its wait was over.
TimeoutAfterWait ==
  \A w \in Workers : Busy(w, "finishing") /\ worker[w].branch = "timeout" => job[JobOf(w)].waiting

\* Whatever dies, repeats or is replayed, what is left of an enrollment is not
\* stranded and did not skip what it stands for.
NothingSkipped == NeverAbandoned /\ LeaseCarried /\ TimeoutAfterWait /\ ActedBeforeSuccess

\* Succeeded is final, and a completed enrollment is never reopened.
FinalStates ==
  [][/\ \A j \in Jobs : job[j].status = "succeeded" => job'[j] = job[j]
     /\ \A e \in Enrollments : enrollment[e].status = "completed" =>
                                 enrollment'[e] = enrollment[e]]_vars

\* MACHINE_STATUS
MachineStatus(s) ==
  CASE s = "running" -> "processing" [] s = "succeeded" -> "completed" [] OTHER -> s

Machine == INSTANCE JobMachine WITH
             Row <- Jobs, status <- [j \in Jobs |-> MachineStatus(job[j].status)]

\* Every write to automation_jobs.status follows the shared job machine.
FollowsJobMachine == Machine!Spec

\* A contact in progress runs its version of the graph to the end, as long as
\* no claim is lost, nothing is rejected and the retries absorb the failures.
Absorbed == spent["tick"] = 0 /\ spent["reject"] = 0 /\ spent["fault"] <= MaxRetries

RunsToCompletion ==
  []Absorbed =>
    \A e \in Enrollments :
      enrollment[e].status = "active" ~> enrollment[e].status = "completed"
=============================================================================
