----------------------- MODULE AutomationEngine_proofs -----------------------
(***************************************************************************)
(* Theorems about AutomationEngine for every graph without cycles, every   *)
(* number of enrollments, dispatchers, consumers and lease ids, and every  *)
(* hazard budget the theorem does not restrict.                            *)
(***************************************************************************)
EXTENDS AutomationEngine, TLAPS, FiniteSetTheorems, WellFoundedInduction

-----------------------------------------------------------------------------
\* A consumer that is not idle holds a message, of a job and with a lease.
LEMMA BusyHolds ==
  ASSUME TypeOK, NEW w \in Workers, worker[w].pc # "idle"
  PROVE  /\ worker[w].msg \in Message
         /\ JobOf(w) \in Jobs
         /\ LeaseOf(w) \in Leases
         /\ EnrollmentOf(JobOf(w)) \in Enrollments
         /\ NodeOf(JobOf(w)) \in Nodes
         /\ JobOf(w) = <<EnrollmentOf(JobOf(w)), NodeOf(JobOf(w))>>
<1>1. worker[w].msg \in Message
  BY DEF TypeOK, WorkerState
<1>2. JobOf(w) \in Jobs /\ LeaseOf(w) \in Leases
  BY <1>1 DEF Message, JobOf, LeaseOf
<1>3. QED
  BY <1>1, <1>2 DEF Jobs, EnrollmentOf, NodeOf

\* The branch and the target a consumer has computed are of their types.
LEMMA NextNodeType ==
  ASSUME TypeOK, NEW w \in Workers, worker[w].pc # "idle"
  PROVE  NextNode(w) \in Nodes \union {NoNode}
BY BusyHolds, EngineAssumption DEF NextNode, TypeOK, WorkerState

\* A redelivered message is a message, or has become a dead letter.
LEMMA RedeliverType ==
  ASSUME TypeOK, NEW m \in Message, Redeliver(m)
  PROVE  queue' \subseteq Message /\ deadLetters' \subseteq DeadLetter
<1>1. CASE RetriesLeft(m)
  <2>1. [m EXCEPT !.tries = @ + 1] \in Message
    BY <1>1, EngineAssumption DEF RetriesLeft, Message
  <2>2. QED
    BY <1>1, <2>1 DEF Redeliver, TypeOK
<1>2. CASE ~RetriesLeft(m)
  <2>1. Letter(m, "dead-letter") \in DeadLetter
    BY DEF Letter, Message, DeadLetter
  <2>2. QED
    BY <1>2, <2>1 DEF Redeliver, TypeOK
<1>3. QED
  BY <1>1, <1>2

\* A hazard's counter stays a natural number.
LEMMA SpendType ==
  ASSUME TypeOK, NEW h \in Hazards, Spend(h)
  PROVE  spent' \in [Hazards -> Nat]
BY DEF TypeOK, Spend

\* releaseJobForRetry leaves a table of rows.
LEMMA ReleasedType ==
  ASSUME TypeOK, NEW w \in Workers, worker[w].pc # "idle"
  PROVE  Released(w) \in [Jobs -> JobRow]
BY BusyHolds DEF Released, TypeOK, JobRow, JobStatus

\* The rows the completing batches write.
LEMMA CompletedRowType ==
  ASSUME NEW row \in JobRow, NEW lease
  PROVE  JobSucceeded(row, lease) \in JobRow /\ InsertJob(row) \in JobRow
<1>1. JobSucceeded(row, lease) \in JobRow
  BY DEF JobSucceeded, JobRow, JobStatus
<1>2. InsertJob(row) \in JobRow
  BY DEF InsertJob, NewJob, JobRow, JobStatus
<1>3. QED
  BY <1>1, <1>2

USE DEF Hazards

-----------------------------------------------------------------------------
\* Steps of the environment and of the dispatcher keep the types.
LEMMA TypeEnvironment ==
  ASSUME TypeOK, Environment PROVE TypeOK'
<1>1. ASSUME NEW e \in Enrollments, EnrollContact(e) PROVE TypeOK'
  <2>1. [status |-> "active", cursor |-> Source] \in EnrollmentRow
    BY EngineAssumption DEF EnrollmentRow
  <2>2. NewJob \in JobRow
    BY DEF NewJob, JobRow, JobStatus
  <2>3. QED
    BY <1>1, <2>1, <2>2 DEF TypeOK, EnrollContact
<1>2. ASSUME NEW e \in Enrollments, ContactEvent(e) PROVE TypeOK'
  BY <1>2 DEF TypeOK, ContactEvent
<1>3. ASSUME NEW e \in Enrollments, ContactEdited(e) PROVE TypeOK'
  BY <1>3 DEF TypeOK, ContactEdited
<1>4. ASSUME NEW j \in Jobs, BecomeDue(j) PROVE TypeOK'
  BY <1>4 DEF TypeOK, BecomeDue, JobRow
<1>5. QED
  BY <1>1, <1>2, <1>3, <1>4 DEF Environment

\* Steps of the dispatcher keep the types: what a tick claims it has read.
LEMMA TypeDispatcher ==
  ASSUME TypeOK, Dispatcher PROVE TypeOK'
<1>1. PICK t \in Ticks : SelectDueJobs(t) \/ ClaimDueJobs(t) \/ SendClaimed(t) \/ TickDies(t)
  BY DEF Dispatcher
<1>2. IdleTick \in TickState
  BY DEF IdleTick, TickState
<1>3. CASE SelectDueJobs(t)
  <2>1. PICK C \in SUBSET Jobs :
          tick' = [tick EXCEPT ![t] = [pc |-> "selected", candidates |-> C, claims |-> {}]]
    BY <1>3 DEF SelectDueJobs
  <2>2. [pc |-> "selected", candidates |-> C, claims |-> {}] \in TickState
    BY DEF TickState
  <2>3. tick' \in [Ticks -> TickState]
    BY <2>1, <2>2 DEF TypeOK
  <2>4. QED
    BY <1>3, <2>3 DEF TypeOK, SelectDueJobs
<1>4. CASE ClaimDueJobs(t)
  <2> DEFINE won == { j \in tick[t].candidates : StillPending(j) }
  <2>1. won \subseteq Jobs
    BY DEF TypeOK, TickState
  <2>2. PICK lease \in [won -> Leases] :
          /\ job' = [j \in Jobs |-> IF j \in won
                                    THEN [job[j] EXCEPT !.status = "leased",
                                                        !.lease = lease[j]]
                                    ELSE job[j]]
          /\ tick' = [tick EXCEPT ![t] =
                        IF won = {} THEN IdleTick
                        ELSE [pc |-> "claimed", candidates |-> {},
                              claims |-> { [job |-> j, lease |-> lease[j]] : j \in won }]]
    BY <1>4 DEF ClaimDueJobs
  <2>3. job' \in [Jobs -> JobRow]
    BY <2>1, <2>2 DEF TypeOK, JobRow, JobStatus
  <2>4. [pc |-> "claimed", candidates |-> {},
         claims |-> { [job |-> j, lease |-> lease[j]] : j \in won }] \in TickState
    BY <2>1 DEF TickState, Claims
  <2>5. tick' \in [Ticks -> TickState]
    BY <1>2, <2>2, <2>4 DEF TypeOK
  <2>6. QED
    BY <1>4, <2>3, <2>5 DEF TypeOK, ClaimDueJobs
<1>5. CASE SendClaimed(t)
  <2>1. ASSUME NEW c \in tick[t].claims PROVE NewMessage(c) \in Message
    BY EngineAssumption DEF TypeOK, TickState, Claims, NewMessage, Message
  <2>2. QED
    BY <1>2, <1>5, <2>1 DEF TypeOK, SendClaimed
<1>6. CASE TickDies(t)
  BY <1>2, <1>6, SpendType DEF TypeOK, TickDies
<1>7. QED
  BY <1>1, <1>3, <1>4, <1>5, <1>6

-----------------------------------------------------------------------------
\* Setting a consumer that keeps its message to another program counter.
LEMMA WorkerMoves ==
  ASSUME TypeOK, NEW w \in Workers, worker[w].pc # "idle",
         NEW pc \in {"found", "executing", "parking", "finishing", "ack"},
         worker' = [worker EXCEPT ![w].pc = pc]
  PROVE  /\ worker' \in [Workers -> WorkerState]
         /\ \A v \in Workers : worker'[v].pc = "idle" <=> worker'[v].msg = NoMessage
BY DEF TypeOK, WorkerState

\* A consumer that is done is idle and of its type.
LEMMA WorkerIdles ==
  ASSUME TypeOK, NEW w \in Workers, worker' = [worker EXCEPT ![w] = IdleWorker]
  PROVE  /\ worker' \in [Workers -> WorkerState]
         /\ \A v \in Workers : worker'[v].pc = "idle" <=> worker'[v].msg = NoMessage
BY DEF TypeOK, WorkerState, IdleWorker, Branches

\* Taking a message makes the consumer hold it, or leaves it idle.
LEMMA TypeTake ==
  ASSUME TypeOK, NEW w \in Workers, NEW m \in queue, Take(w, m)
  PROVE  /\ worker' \in [Workers -> WorkerState]
         /\ \A v \in Workers : worker'[v].pc = "idle" <=> worker'[v].msg = NoMessage
<1>1. m \in Message /\ m # NoMessage
  BY NoMessageAssumption DEF TypeOK
<1>2. ReadJob(m) \in WorkerState
  <2>1. job[m.job] \in JobRow /\ EnrollmentOf(m.job) \in Enrollments
    BY <1>1 DEF TypeOK, Message, Jobs, EnrollmentOf
  <2>2. job[m.job].waiting \in BOOLEAN /\ attribute[EnrollmentOf(m.job)] \in BOOLEAN
    BY <2>1 DEF TypeOK, JobRow
  <2>3. QED
    BY <1>1, <2>2 DEF ReadJob, WorkerState, Branches
<1>3. ReadJob(m).pc = "found" /\ ReadJob(m).msg = m
  BY DEF ReadJob
<1>4. QED
  BY <1>1, <1>2, <1>3 DEF Take, TypeOK

\* Steps of a consumer that succeed keep the types.
LEMMA TypeRunning ==
  ASSUME TypeOK, NEW w \in Workers, Running(w) PROVE TypeOK'
<1>1. CASE StartLeasedJob(w)
  <2>1. AfterStart(w) \in {"executing", "ack"} /\ worker[w].pc # "idle"
    BY <1>1 DEF AfterStart, StartLeasedJob, Busy
  <2>2. job' \in [Jobs -> JobRow]
    BY <1>1, <2>1, BusyHolds DEF StartLeasedJob, TypeOK, JobRow, JobStatus
  <2>3. QED
    BY <1>1, <2>1, <2>2, WorkerMoves DEF StartLeasedJob, TypeOK
<1>2. CASE ExecuteNode(w)
  <2>1. worker[w].pc # "idle"
    BY <1>2 DEF ExecuteNode, Busy
  <2>2. Taken(w) \in Branches
    BY DEF Taken, Branches
  <2>3. /\ worker' \in [Workers -> WorkerState]
        /\ \A v \in Workers : worker'[v].pc = "idle" <=> worker'[v].msg = NoMessage
    <3>1. [worker[w] EXCEPT !.pc = "finishing", !.branch = Taken(w)] \in WorkerState
      BY <2>2 DEF TypeOK, WorkerState
    <3>2. [worker[w] EXCEPT !.pc = "finishing", !.branch = Taken(w)].pc = "finishing"
          /\ [worker[w] EXCEPT !.pc = "finishing", !.branch = Taken(w)].msg = worker[w].msg
      BY DEF TypeOK, WorkerState
    <3>3. QED
      BY <1>2, <2>1, <3>1, <3>2 DEF ExecuteNode, TypeOK
  <2>4. QED
    BY <1>2, <2>1, <2>3, BusyHolds DEF ExecuteNode, TypeOK
<1>3. CASE ExecuteWait(w)
  BY <1>3, WorkerMoves DEF ExecuteWait, Busy, TypeOK
<1>4. CASE ParkJobUntil(w)
  <2>1. worker[w].pc # "idle"
    BY <1>4 DEF ParkJobUntil, Busy
  <2>2. job' \in [Jobs -> JobRow]
    BY <1>4, <2>1, BusyHolds DEF ParkJobUntil, TypeOK, JobRow, JobStatus
  <2>3. QED
    BY <1>4, <2>1, <2>2, WorkerMoves DEF ParkJobUntil, TypeOK
<1>5. CASE CompleteJobClosingEnrollment(w)
  <2>1. worker[w].pc # "idle"
    BY <1>5 DEF CompleteJobClosingEnrollment, Busy
  <2>2. job' \in [Jobs -> JobRow]
    BY <1>5, <2>1, BusyHolds, CompletedRowType
       DEF CompleteJobClosingEnrollment, TypeOK
  <2>3. enrollment' \in [Enrollments -> EnrollmentRow]
    BY <1>5, <2>1, BusyHolds DEF CompleteJobClosingEnrollment, TypeOK, EnrollmentRow
  <2>4. QED
    BY <1>5, <2>1, <2>2, <2>3, WorkerMoves DEF CompleteJobClosingEnrollment, TypeOK
<1>6. CASE CompleteJobAdvancingEnrollment(w)
  <2>1. worker[w].pc # "idle"
    BY <1>6 DEF CompleteJobAdvancingEnrollment, Busy
  <2>2. NextNode(w) \in Nodes
    BY <1>6, <2>1, NextNodeType DEF CompleteJobAdvancingEnrollment
  <2>3. job' \in [Jobs -> JobRow]
    <3>1. ASSUME NEW j \in Jobs
          PROVE  job[j] \in JobRow /\ JobSucceeded(job[j], LeaseOf(w)) \in JobRow
                 /\ InsertJob(job[j]) \in JobRow
      BY CompletedRowType DEF TypeOK
    <3>2. QED
      BY <1>6, <3>1 DEF CompleteJobAdvancingEnrollment
  <2>4. enrollment' \in [Enrollments -> EnrollmentRow]
    BY <1>6, <2>1, <2>2, BusyHolds
       DEF CompleteJobAdvancingEnrollment, MoveCursor, TypeOK, EnrollmentRow
  <2>5. QED
    BY <1>6, <2>1, <2>3, <2>4, WorkerMoves DEF CompleteJobAdvancingEnrollment, TypeOK
<1>7. CASE Ack(w)
  BY <1>7, WorkerIdles DEF Ack, TypeOK
<1>8. QED
  BY <1>1, <1>2, <1>3, <1>4, <1>5, <1>6, <1>7 DEF Running

\* Failures of a consumer keep the types.
LEMMA TypeFailing ==
  ASSUME TypeOK, NEW w \in Workers, Failing(w) PROVE TypeOK'
<1>1. CASE FailRetryably(w)
  <2>1. worker[w].pc # "idle"
    BY <1>1 DEF FailRetryably
  <2>2. QED
    BY <1>1, <2>1, BusyHolds, ReleasedType, RedeliverType, SpendType, WorkerIdles
       DEF FailRetryably, TypeOK
<1>2. CASE ConsumerDies(w)
  BY <1>2, BusyHolds, RedeliverType, SpendType, WorkerIdles DEF ConsumerDies, TypeOK
<1>3. CASE FailPermanently(w)
  <2>1. worker[w].pc # "idle"
    BY <1>3 DEF FailPermanently, Busy
  <2>2. Letter(worker[w].msg, "jobs") \in DeadLetter
    BY <2>1, BusyHolds DEF Letter, Message, DeadLetter
  <2>3. QED
    BY <1>3, <2>1, <2>2, ReleasedType, SpendType, WorkerMoves
       DEF FailPermanently, TypeOK
<1>4. QED
  BY <1>1, <1>2, <1>3 DEF Failing

\* Replaying a dead letter keeps the types.
LEMMA TypeReplay ==
  ASSUME TypeOK, NEW d \in deadLetters, ReplayDeadLetter(d) PROVE TypeOK'
<1>1. d \in DeadLetter
  BY DEF TypeOK
<1>2. NewMessage(d) \in Message /\ [d EXCEPT !.from = "delivery"] \in DeadLetter
  BY <1>1, EngineAssumption DEF NewMessage, Message, DeadLetter
<1>3. queue' \subseteq Message /\ deadLetters' \subseteq DeadLetter
  BY <1>1, <1>2 DEF ReplayDeadLetter, TypeOK
<1>4. QED
  BY <1>3, SpendType DEF ReplayDeadLetter, TypeOK

\* The type invariant of the engine: every reachable row, message, dead
\* letter and consumer of processAutomationJob is well formed.
THEOREM TypeCorrect == Spec => []TypeOK
<1>1. Init => TypeOK
  BY EngineAssumption
     DEF Init, TypeOK, EnrollmentRow, NoJob, JobRow, JobStatus, IdleTick,
         TickState, IdleWorker, WorkerState, Branches
<1>2. TypeOK /\ [Next]_vars => TypeOK'
  <2> SUFFICES ASSUME TypeOK, [Next]_vars PROVE TypeOK'
    OBVIOUS
  <2>1. CASE Environment
    BY <2>1, TypeEnvironment
  <2>2. CASE Dispatcher
    BY <2>2, TypeDispatcher
  <2>3. CASE Consumer
    <3>1. ASSUME NEW w \in Workers, NEW m \in queue, Deliver(w, m) PROVE TypeOK'
      BY <3>1, TypeTake DEF Deliver, Take, TypeOK
    <3>2. ASSUME NEW w \in Workers, NEW m \in queue, DeliverDuplicate(w, m) PROVE TypeOK'
      BY <3>2, TypeTake, SpendType DEF DeliverDuplicate, Take, TypeOK
    <3>3. QED
      BY <2>3, <3>1, <3>2, TypeRunning, TypeFailing DEF Consumer
  <2>4. CASE Replay
    BY <2>4, TypeReplay DEF Replay
  <2>5. CASE UNCHANGED vars
    BY <2>5 DEF vars, TypeOK
  <2>6. QED
    BY <2>1, <2>2, <2>3, <2>4, <2>5 DEF Next
<1>3. QED
  BY <1>1, <1>2, PTL DEF Spec

-----------------------------------------------------------------------------
(***************************************************************************)
(* The strengthening the safety theorems need: rows belong to enrollments  *)
(* that exist, consumers work on rows that exist, and a completed          *)
(* enrollment has no cursor.                                               *)
(***************************************************************************)
Born ==
  /\ \A e \in Enrollments, n \in Nodes :
       job[<<e, n>>].status # "absent" => enrollment[e].status # "absent"
  /\ \A e \in Enrollments :
       enrollment[e].status = "completed" => enrollment[e].cursor = NoNode
  /\ \A w \in Workers : worker[w].pc # "idle" => job[JobOf(w)].status # "absent"

\* Everything a step may do to one row of automation_jobs.
Inserted(j)  == job[j].status = "absent" /\ job'[j] = NewJob
CameDue(j)   == job[j].status = "pending" /\ job'[j] = [job[j] EXCEPT !.due = TRUE]
Claimed(j)   == /\ job[j].status = "pending"
                /\ \E l \in Leases : job'[j] = [job[j] EXCEPT !.status = "leased", !.lease = l]
Started(j)   == job[j].status = "leased" /\ job'[j] = [job[j] EXCEPT !.status = "running"]
HandedBack(j) == job[j].status = "running" /\ job'[j] = [job[j] EXCEPT !.status = "leased"]
Parked(j)    == /\ job[j].status = "running"
                /\ job'[j] = [status |-> "pending", lease |-> NoLease,
                              waiting |-> TRUE, due |-> FALSE]
Finished(j)  == /\ job[j].lease \in Leases
                /\ job'[j] = [job[j] EXCEPT !.status = "succeeded", !.lease = NoLease]

RowChange(j) ==
  \/ job'[j] = job[j] \/ Inserted(j) \/ CameDue(j) \/ Claimed(j) \/ Started(j)
  \/ HandedBack(j) \/ Parked(j) \/ Finished(j)

\* Everything a step may do to one row of automation_enrollments.
EnrollmentChange(e) ==
  \/ enrollment'[e] = enrollment[e]
  \/ enrollment[e].status = "absent" /\ enrollment'[e].status = "active"
  \/ /\ enrollment[e].status # "absent"
     /\ enrollment'[e] = [status |-> "completed", cursor |-> NoNode]
  \/ enrollment[e].status = "active" /\ enrollment'[e].status = "active"

\* The row a busy consumer works on, as a row.
LEMMA RowTypes ==
  ASSUME TypeOK, NEW j \in Jobs
  PROVE  /\ job[j] \in JobRow
         /\ j = <<EnrollmentOf(j), NodeOf(j)>>
         /\ EnrollmentOf(j) \in Enrollments /\ NodeOf(j) \in Nodes
BY DEF TypeOK, Jobs, EnrollmentOf, NodeOf

\* releaseJobForRetry changes at most the consumer's own row.
LEMMA ReleaseChange ==
  ASSUME TypeOK, NEW w \in Workers, worker[w].pc # "idle", job' = Released(w),
         NEW j \in Jobs
  PROVE  RowChange(j)
BY BusyHolds DEF Released, HeldAs, RowChange, HandedBack, TypeOK

\* No statement of the engine writes a row in any other way.
LEMMA EveryRowChange ==
  ASSUME TypeOK, Born, [Next]_vars, NEW j \in Jobs
  PROVE  RowChange(j)
<1>1. CASE Environment
  <2>1. ASSUME NEW e \in Enrollments, EnrollContact(e) PROVE RowChange(j)
    <3>1. CASE j = <<e, Source>>
      BY <2>1, <3>1, EngineAssumption
         DEF EnrollContact, Born, TypeOK, RowChange, Inserted
    <3>2. CASE j # <<e, Source>>
      BY <2>1, <3>2 DEF EnrollContact, TypeOK, RowChange
    <3>3. QED
      BY <3>1, <3>2
  <2>2. ASSUME NEW k \in Jobs, BecomeDue(k) PROVE RowChange(j)
    BY <2>2 DEF BecomeDue, TypeOK, RowChange, CameDue
  <2>3. ASSUME NEW e \in Enrollments, ContactEvent(e) \/ ContactEdited(e) PROVE RowChange(j)
    BY <2>3 DEF ContactEvent, ContactEdited, RowChange
  <2>4. QED
    BY <1>1, <2>1, <2>2, <2>3 DEF Environment
<1>2. CASE Dispatcher
  <2>1. ASSUME NEW t \in Ticks, ClaimDueJobs(t) PROVE RowChange(j)
    BY <2>1 DEF ClaimDueJobs, StillPending, RowChange, Claimed
  <2>2. ASSUME NEW t \in Ticks, SelectDueJobs(t) \/ SendClaimed(t) \/ TickDies(t)
        PROVE RowChange(j)
    BY <2>2 DEF SelectDueJobs, SendClaimed, TickDies, RowChange
  <2>3. QED
    BY <1>2, <2>1, <2>2 DEF Dispatcher
<1>3. CASE Consumer
  <2>1. ASSUME NEW w \in Workers, NEW m \in queue, Deliver(w, m) \/ DeliverDuplicate(w, m)
        PROVE RowChange(j)
    BY <2>1 DEF Deliver, DeliverDuplicate, Take, RowChange
  <2>2. ASSUME NEW w \in Workers, Running(w) PROVE RowChange(j)
    <3>1. CASE StartLeasedJob(w)
      BY <3>1 DEF StartLeasedJob, HeldAs, TypeOK, RowChange, Started
    <3>2. CASE ParkJobUntil(w)
      BY <3>2 DEF ParkJobUntil, HeldAs, TypeOK, RowChange, Parked
    <3>3. CASE CompleteJobClosingEnrollment(w)
      <4>1. JobOf(w) \in Jobs /\ LeaseOf(w) \in Leases
        BY <3>3, BusyHolds DEF CompleteJobClosingEnrollment, Busy
      <4>2. QED
        BY <3>3, <4>1 DEF CompleteJobClosingEnrollment, JobSucceeded, TypeOK,
                          RowChange, Finished
    <3>4. CASE CompleteJobAdvancingEnrollment(w)
      <4>1. JobOf(w) \in Jobs /\ LeaseOf(w) \in Leases
        BY <3>4, BusyHolds DEF CompleteJobAdvancingEnrollment, Busy
      <4>2. QED
        BY <3>4, <4>1 DEF CompleteJobAdvancingEnrollment, JobSucceeded, InsertJob,
                          TypeOK, RowChange, Finished, Inserted
    <3>5. CASE ExecuteNode(w) \/ ExecuteWait(w) \/ Ack(w)
      BY <3>5 DEF ExecuteNode, ExecuteWait, Ack, RowChange
    <3>6. QED
      BY <2>2, <3>1, <3>2, <3>3, <3>4, <3>5 DEF Running
  <2>3. ASSUME NEW w \in Workers, Failing(w) PROVE RowChange(j)
    <3>1. CASE FailRetryably(w)
      BY <3>1, ReleaseChange DEF FailRetryably
    <3>2. CASE FailPermanently(w)
      BY <3>2, ReleaseChange DEF FailPermanently, Busy
    <3>3. CASE ConsumerDies(w)
      BY <3>3 DEF ConsumerDies, RowChange
    <3>4. QED
      BY <2>3, <3>1, <3>2, <3>3 DEF Failing
  <2>4. QED
    BY <1>3, <2>1, <2>2, <2>3 DEF Consumer
<1>4. CASE Replay
  BY <1>4 DEF Replay, ReplayDeadLetter, RowChange
<1>5. CASE UNCHANGED vars
  BY <1>5 DEF vars, RowChange
<1>6. QED
  BY <1>1, <1>2, <1>3, <1>4, <1>5 DEF Next

\* No statement of the engine writes an enrollment in any other way.
LEMMA EveryEnrollmentChange ==
  ASSUME TypeOK, Born, [Next]_vars, NEW e \in Enrollments
  PROVE  EnrollmentChange(e)
<1>1. CASE Environment
  <2>1. ASSUME NEW f \in Enrollments, EnrollContact(f) PROVE EnrollmentChange(e)
    BY <2>1 DEF EnrollContact, TypeOK, EnrollmentChange
  <2>2. ASSUME NEW f \in Enrollments, ContactEvent(f) \/ ContactEdited(f) PROVE EnrollmentChange(e)
    BY <2>2 DEF ContactEvent, ContactEdited, EnrollmentChange
  <2>3. ASSUME NEW j \in Jobs, BecomeDue(j) PROVE EnrollmentChange(e)
    BY <2>3 DEF BecomeDue, EnrollmentChange
  <2>4. QED
    BY <1>1, <2>1, <2>2, <2>3 DEF Environment
<1>2. CASE Dispatcher
  BY <1>2 DEF Dispatcher, SelectDueJobs, ClaimDueJobs, SendClaimed, TickDies, EnrollmentChange
<1>3. CASE Consumer
  <2>1. ASSUME NEW w \in Workers, NEW m \in queue, Deliver(w, m) \/ DeliverDuplicate(w, m)
        PROVE EnrollmentChange(e)
    BY <2>1 DEF Deliver, DeliverDuplicate, Take, EnrollmentChange
  <2>2. ASSUME NEW w \in Workers, Running(w) PROVE EnrollmentChange(e)
    <3>1. CASE CompleteJobClosingEnrollment(w)
      <4> DEFINE f == EnrollmentOf(JobOf(w))
      <4>1. f \in Enrollments /\ enrollment[f].status # "absent"
        BY <3>1, BusyHolds DEF CompleteJobClosingEnrollment, Busy, Born
      <4>2. QED
        BY <3>1, <4>1 DEF CompleteJobClosingEnrollment, TypeOK, EnrollmentChange
    <3>2. CASE CompleteJobAdvancingEnrollment(w)
      <4>1. EnrollmentOf(JobOf(w)) \in Enrollments
        BY <3>2, BusyHolds DEF CompleteJobAdvancingEnrollment, Busy
      <4>2. enrollment[EnrollmentOf(JobOf(w))] \in EnrollmentRow
        BY <4>1 DEF TypeOK
      <4>3. QED
        BY <3>2, <4>1, <4>2
           DEF CompleteJobAdvancingEnrollment, MoveCursor, TypeOK, EnrollmentRow,
               EnrollmentChange
    <3>3. CASE StartLeasedJob(w) \/ ExecuteNode(w) \/ ExecuteWait(w)
               \/ ParkJobUntil(w) \/ Ack(w)
      BY <3>3 DEF StartLeasedJob, ExecuteNode, ExecuteWait, ParkJobUntil, Ack,
                  EnrollmentChange
    <3>4. QED
      BY <2>2, <3>1, <3>2, <3>3 DEF Running
  <2>3. ASSUME NEW w \in Workers, Failing(w) PROVE EnrollmentChange(e)
    BY <2>3 DEF Failing, FailRetryably, ConsumerDies, FailPermanently, EnrollmentChange
  <2>4. QED
    BY <1>3, <2>1, <2>2, <2>3 DEF Consumer
<1>4. CASE Replay
  BY <1>4 DEF Replay, ReplayDeadLetter, EnrollmentChange
<1>5. CASE UNCHANGED vars
  BY <1>5 DEF vars, EnrollmentChange
<1>6. QED
  BY <1>1, <1>2, <1>3, <1>4, <1>5 DEF Next

\* A row, once inserted, is never absent again.
LEMMA RowsStay ==
  ASSUME TypeOK, NEW j \in Jobs, RowChange(j), job[j].status # "absent"
  PROVE  job'[j].status # "absent"
<1>1. job[j] \in JobRow
  BY RowTypes
<1>2. CASE job'[j] = job[j] \/ CameDue(j)
  BY <1>1, <1>2 DEF CameDue, JobRow
<1>3. CASE Claimed(j) \/ Started(j) \/ HandedBack(j)
  BY <1>1, <1>3 DEF Claimed, Started, HandedBack, JobRow
<1>4. CASE Parked(j)
  BY <1>4 DEF Parked
<1>5. CASE Finished(j)
  <2>1. [job[j] EXCEPT !.status = "succeeded", !.lease = NoLease].status = "succeeded"
    BY <1>1 DEF JobRow
  <2>2. QED
    BY <1>5, <2>1 DEF Finished
<1>6. QED
  BY <1>2, <1>3, <1>4, <1>5 DEF RowChange, Inserted

\* A consumer that is busy after a step was busy on the same job before it,
\* or has just read a row that is leased or running.
LEMMA BusyBefore ==
  ASSUME TypeOK, TypeOK', [Next]_vars, NEW w \in Workers, worker'[w].pc # "idle"
  PROVE  \/ worker[w].pc # "idle" /\ worker'[w].msg = worker[w].msg
         \/ job[worker'[w].msg.job].status # "absent"
<1> DEFINE Same == worker[w].pc # "idle" /\ worker'[w].msg = worker[w].msg
<1>1. ASSUME worker'[w] = worker[w] PROVE Same
  BY <1>1
<1>2. CASE Consumer
  <2>1. PICK v \in Workers :
          \/ \E m \in queue : Deliver(v, m) \/ DeliverDuplicate(v, m)
          \/ Running(v)
          \/ Failing(v)
    BY <1>2 DEF Consumer
  <2>2. ASSUME NEW m \in queue, Take(v, m)
        PROVE  Same \/ job[worker'[w].msg.job].status # "absent"
    <3>1. CASE w = v /\ Processable(m)
      <4>1. worker'[w] = ReadJob(m)
        BY <2>2, <3>1 DEF Take, TypeOK
      <4>2. job[m.job].status # "absent"
        BY <3>1 DEF Processable
      <4>3. QED
        BY <4>1, <4>2 DEF ReadJob
    <3>2. CASE ~(w = v /\ Processable(m))
      BY <1>1, <2>2, <3>2 DEF Take, TypeOK
    <3>3. QED
      BY <3>1, <3>2
  <2>3. CASE Running(v)
    <3>1. CASE w = v
      <4>1. worker[w] \in WorkerState
        BY DEF TypeOK
      <4>2. CASE StartLeasedJob(w) \/ ExecuteWait(w) \/ ParkJobUntil(w)
                 \/ CompleteJobClosingEnrollment(w) \/ CompleteJobAdvancingEnrollment(w)
        BY <4>1, <4>2 DEF StartLeasedJob, ExecuteWait, ParkJobUntil, Busy, TypeOK, WorkerState,
             CompleteJobClosingEnrollment, CompleteJobAdvancingEnrollment
      <4>3. CASE ExecuteNode(w)
        <5>1. worker'[w] = [worker[w] EXCEPT !.pc = "finishing", !.branch = Taken(w)]
          BY <4>3 DEF ExecuteNode, TypeOK
        <5>2. worker'[w].msg = worker[w].msg
          BY <4>1, <5>1 DEF WorkerState
        <5>3. QED
          BY <4>3, <5>2 DEF ExecuteNode, Busy
      <4>4. CASE Ack(w)
        BY <4>4 DEF Ack, IdleWorker, TypeOK
      <4>5. QED
        BY <2>3, <3>1, <4>2, <4>3, <4>4 DEF Running
    <3>2. CASE w # v
      BY <1>1, <2>3, <3>2 DEF Running, StartLeasedJob, ExecuteNode, ExecuteWait, ParkJobUntil,
           CompleteJobClosingEnrollment, CompleteJobAdvancingEnrollment, Ack, TypeOK
    <3>3. QED
      BY <3>1, <3>2
  <2>4. CASE Failing(v)
    <3>1. CASE w = v
      BY <2>4, <3>1 DEF Failing, FailRetryably, ConsumerDies, FailPermanently, Busy,
           IdleWorker, TypeOK, WorkerState
    <3>2. CASE w # v
      BY <1>1, <2>4, <3>2 DEF Failing, FailRetryably, ConsumerDies, FailPermanently, TypeOK
    <3>3. QED
      BY <3>1, <3>2
  <2>5. QED
    BY <2>1, <2>2, <2>3, <2>4 DEF Deliver, DeliverDuplicate
<1>3. CASE Environment \/ Dispatcher \/ Replay \/ UNCHANGED vars
  BY <1>1, <1>3 DEF Environment, EnrollContact, ContactEvent, ContactEdited, BecomeDue,
       Dispatcher, SelectDueJobs, ClaimDueJobs, SendClaimed, TickDies, Replay,
       ReplayDeadLetter, vars
<1>4. QED
  BY <1>2, <1>3 DEF Next

\* The two batches that end a job.
Completes(w) ==
  CompleteJobClosingEnrollment(w) \/ CompleteJobAdvancingEnrollment(w)

\* Only enrolling and handing on insert a row, and into the enrollment's rows.
LEMMA InsertedBy ==
  ASSUME TypeOK, Born, [Next]_vars, NEW e \in Enrollments, NEW n \in Nodes,
         job[<<e, n>>].status = "absent", job'[<<e, n>>].status # "absent"
  PROVE  \/ EnrollContact(e)
         \/ \E w \in Workers : Completes(w) /\ EnrollmentOf(JobOf(w)) = e
<1>0. <<e, n>> \in Jobs
  BY DEF Jobs
<1>1. CASE Environment
  <2>1. ASSUME NEW f \in Enrollments, EnrollContact(f) PROVE e = f
    BY <1>0, <2>1, EngineAssumption DEF EnrollContact, TypeOK
  <2>2. ASSUME NEW j \in Jobs, BecomeDue(j) PROVE FALSE
    BY <1>0, <2>2 DEF BecomeDue, TypeOK
  <2>3. QED
    BY <1>1, <2>1, <2>2 DEF Environment, ContactEvent, ContactEdited
<1>2. CASE Dispatcher
  <2>1. PICK t \in Ticks : ClaimDueJobs(t)
    BY <1>2 DEF Dispatcher, SelectDueJobs, SendClaimed, TickDies
  <2>2. job'[<<e, n>>] = job[<<e, n>>]
    BY <1>0, <2>1 DEF ClaimDueJobs, StillPending
  <2>3. QED
    BY <2>2
<1>3. CASE Consumer
  <2>1. PICK w \in Workers : Running(w) \/ Failing(w)
    BY <1>3 DEF Consumer, Deliver, DeliverDuplicate, Take
  <2>2. worker[w].pc # "idle" /\ JobOf(w) \in Jobs
    BY <2>1, BusyHolds DEF Running, Failing, StartLeasedJob, ExecuteNode, ExecuteWait,
         ParkJobUntil, CompleteJobClosingEnrollment, CompleteJobAdvancingEnrollment, Ack,
         FailRetryably, ConsumerDies, FailPermanently, Busy
  <2>3. job[JobOf(w)].status # "absent"
    BY <2>2 DEF Born
  <2>4. <<e, n>> # JobOf(w)
    BY <2>3
  <2>5. CompleteJobAdvancingEnrollment(w)
    BY <1>0, <2>1, <2>2, <2>4
       DEF Running, Failing, StartLeasedJob, ExecuteNode, ExecuteWait, ParkJobUntil,
           CompleteJobClosingEnrollment, Ack, FailRetryably, ConsumerDies,
           FailPermanently, Released, TypeOK
  <2>6. e = EnrollmentOf(JobOf(w))
    BY <1>0, <2>4, <2>5 DEF CompleteJobAdvancingEnrollment
  <2>7. QED
    BY <2>5, <2>6 DEF Completes
<1>4. CASE Replay \/ UNCHANGED vars
  BY <1>4 DEF Replay, ReplayDeadLetter, vars
<1>5. QED
  BY <1>1, <1>2, <1>3, <1>4 DEF Next

\* A row that is inserted belongs to an enrollment that exists after the step.
LEMMA InsertedInEnrollment ==
  ASSUME TypeOK, Born, [Next]_vars, NEW e \in Enrollments, NEW n \in Nodes,
         job[<<e, n>>].status = "absent", job'[<<e, n>>].status # "absent"
  PROVE  enrollment'[e].status # "absent"
<1>1. CASE EnrollContact(e)
  BY <1>1 DEF EnrollContact, TypeOK
<1>2. ASSUME NEW w \in Workers, Completes(w), EnrollmentOf(JobOf(w)) = e
      PROVE  enrollment'[e].status # "absent"
  <2>1. worker[w].pc # "idle"
    BY <1>2 DEF Completes, CompleteJobClosingEnrollment, CompleteJobAdvancingEnrollment, Busy
  <2>2. enrollment[e].status # "absent"
    BY <1>2, <2>1, BusyHolds DEF Born
  <2>3. QED
    BY <2>2, EveryEnrollmentChange DEF EnrollmentChange
<1>3. QED
  BY <1>1, <1>2, InsertedBy

\* Enrollments and rows are never deleted, so what was born stays born.
LEMMA BornStays ==
  ASSUME TypeOK, TypeOK', Born, [Next]_vars
  PROVE  Born'
<1>1. ASSUME NEW e \in Enrollments, NEW n \in Nodes, job'[<<e, n>>].status # "absent"
      PROVE  enrollment'[e].status # "absent"
  <2>1. CASE job[<<e, n>>].status = "absent"
    BY <1>1, <2>1, InsertedInEnrollment
  <2>2. CASE job[<<e, n>>].status # "absent"
    <3>1. enrollment[e].status # "absent"
      BY <2>2 DEF Born
    <3>2. QED
      BY <3>1, EveryEnrollmentChange DEF EnrollmentChange
  <2>3. QED
    BY <2>1, <2>2
<1>2. ASSUME NEW e \in Enrollments, enrollment'[e].status = "completed"
      PROVE  enrollment'[e].cursor = NoNode
  BY <1>2, EveryEnrollmentChange DEF EnrollmentChange, Born
<1>3. ASSUME NEW w \in Workers, worker'[w].pc # "idle"
      PROVE  job'[worker'[w].msg.job].status # "absent"
  <2> DEFINE j == worker'[w].msg.job
  <2>1. j \in Jobs
    BY <1>3 DEF TypeOK, WorkerState, Message
  <2>2. job[j].status # "absent"
    BY <1>3, BusyBefore DEF Born, JobOf
  <2>3. QED
    BY <2>1, <2>2, EveryRowChange, RowsStay
<1>4. QED
  BY <1>1, <1>2, <1>3 DEF Born, JobOf

\* What is worked on exists, in every reachable state.
LEMMA BornInvariant == Spec => [](TypeOK /\ Born)
<1>1. Init => Born
  BY DEF Init, Born, NoJob, IdleWorker, Jobs
<1>2. TypeOK /\ TypeOK' /\ Born /\ [Next]_vars => Born'
  BY BornStays
<1>3. QED
  BY <1>1, <1>2, TypeCorrect, PTL DEF Spec

-----------------------------------------------------------------------------
\* Every write keeps a row's lease and its status together.
LEMMA LeaseStep ==
  ASSUME TypeOK, LeaseConsistency, NEW j \in Jobs, RowChange(j)
  PROVE  job'[j].lease # NoLease <=> job'[j].status \in {"leased", "running"}
<1>1. job[j] \in JobRow /\ NoLease \notin Leases
  BY RowTypes, EngineAssumption
<1>2. job[j].lease # NoLease <=> job[j].status \in {"leased", "running"}
  BY DEF LeaseConsistency
<1>3. CASE job'[j] = job[j] \/ Inserted(j) \/ Parked(j)
  BY <1>2, <1>3 DEF Inserted, Parked, NewJob
<1>4. CASE CameDue(j) \/ Started(j) \/ HandedBack(j)
  BY <1>1, <1>2, <1>4 DEF CameDue, Started, HandedBack, JobRow
<1>5. CASE Claimed(j)
  <2>1. PICK l \in Leases : job'[j] = [job[j] EXCEPT !.status = "leased", !.lease = l]
    BY <1>5 DEF Claimed
  <2>2. job'[j].status = "leased" /\ job'[j].lease = l
    BY <1>1, <2>1 DEF JobRow
  <2>3. QED
    BY <1>1, <2>2
<1>6. CASE Finished(j)
  <2>1. job'[j].status = "succeeded" /\ job'[j].lease = NoLease
    BY <1>1, <1>6 DEF Finished, JobRow
  <2>2. QED
    BY <2>1
<1>7. QED
  BY <1>3, <1>4, <1>5, <1>6 DEF RowChange

\* A row of automation_jobs carries a lease exactly while it is leased or
\* running, in every instance: claimDueJobs, parkJobUntil and the completions
\* set and clear lease_id with the status.
THEOREM LeasesConsistent == Spec => []LeaseConsistency
<1>1. Init => LeaseConsistency
  BY DEF Init, LeaseConsistency, NoJob
<1>2. TypeOK /\ Born /\ LeaseConsistency /\ [Next]_vars => LeaseConsistency'
  <2> SUFFICES ASSUME TypeOK, Born, LeaseConsistency, [Next]_vars, NEW j \in Jobs
               PROVE  job'[j].lease # NoLease <=> job'[j].status \in {"leased", "running"}
    BY DEF LeaseConsistency
  <2>1. QED
    BY EveryRowChange, LeaseStep
<1>3. QED
  BY <1>1, <1>2, BornInvariant, PTL DEF Spec

\* Succeeded jobs and completed enrollments are final, in every instance:
\* findJobForProcessing and the conditional UPDATEs never touch them again.
THEOREM FinalStatesStay == Spec => FinalStates
<1>1. TypeOK /\ Born /\ LeaseConsistency /\ [Next]_vars =>
        [/\ \A j \in Jobs : job[j].status = "succeeded" => job'[j] = job[j]
         /\ \A e \in Enrollments : enrollment[e].status = "completed" =>
                                      enrollment'[e] = enrollment[e]]_vars
  <2> SUFFICES ASSUME TypeOK, Born, LeaseConsistency, [Next]_vars
               PROVE  /\ \A j \in Jobs : job[j].status = "succeeded" => job'[j] = job[j]
                      /\ \A e \in Enrollments : enrollment[e].status = "completed" =>
                                                   enrollment'[e] = enrollment[e]
    OBVIOUS
  <2>1. ASSUME NEW j \in Jobs, job[j].status = "succeeded" PROVE job'[j] = job[j]
    <3>1. job[j].lease = NoLease /\ NoLease \notin Leases
      BY <2>1, EngineAssumption DEF LeaseConsistency
    <3>2. QED
      BY <2>1, <3>1, EveryRowChange
         DEF RowChange, Inserted, CameDue, Claimed, Started, HandedBack, Parked, Finished
  <2>2. ASSUME NEW e \in Enrollments, enrollment[e].status = "completed"
        PROVE  enrollment'[e] = enrollment[e]
    <3>1. enrollment[e] = [status |-> "completed", cursor |-> NoNode]
      BY <2>2 DEF TypeOK, EnrollmentRow, Born
    <3>2. QED
      BY <2>2, <3>1, EveryEnrollmentChange DEF EnrollmentChange
  <2>3. QED
    BY <2>1, <2>2
<1>2. QED
  BY <1>1, BornInvariant, LeasesConsistent, PTL DEF Spec, FinalStates

-----------------------------------------------------------------------------
\* Only the two completions make a row succeed, and each hands the enrollment
\* on in the same batch.
HandedOn(e, n) ==
  \/ enrollment[e].status = "completed"
  \/ \E b \in Branches : /\ Edge[n][b] # NoNode
                         /\ job[<<e, Edge[n][b]>>].status # "absent"

\* Only the two completions make a job succeed.
LEMMA SuccessByCompletion ==
  ASSUME TypeOK, Born, [Next]_vars, NEW j \in Jobs,
         job[j].status # "succeeded", job'[j].status = "succeeded"
  PROVE  \E w \in Workers : Completes(w) /\ JobOf(w) = j
<1>1. job[j] \in JobRow
  BY RowTypes
<1>2. ASSUME \/ job'[j] = job[j]
             \/ Inserted(j)
             \/ CameDue(j)
             \/ Claimed(j)
             \/ Started(j)
             \/ HandedBack(j)
             \/ Parked(j)
      PROVE  FALSE
  <2>1. CASE Claimed(j)
    <3>1. PICK l \in Leases : job'[j] = [job[j] EXCEPT !.status = "leased", !.lease = l]
      BY <2>1 DEF Claimed
    <3>2. job'[j].status = "leased"
      BY <1>1, <3>1 DEF JobRow
    <3>3. QED
      BY <3>2
  <2>2. CASE CameDue(j) \/ Started(j) \/ HandedBack(j)
    BY <1>1, <2>2 DEF CameDue, Started, HandedBack, JobRow
  <2>3. CASE job'[j] = job[j] \/ Inserted(j) \/ Parked(j)
    BY <2>3 DEF Inserted, Parked, NewJob
  <2>4. QED
    BY <1>2, <2>1, <2>2, <2>3
<1>3. ASSUME job'[j] # job[j], ~Inserted(j), ~CameDue(j), ~Claimed(j), ~Started(j),
             ~HandedBack(j), ~Parked(j)
      PROVE  \E w \in Workers : Completes(w) /\ JobOf(w) = j
  <2>1. CASE Environment
    <3>1. ASSUME NEW e \in Enrollments, EnrollContact(e) PROVE FALSE
      <4>1. CASE j = <<e, Source>>
        BY <1>3, <3>1, <4>1, EngineAssumption
           DEF EnrollContact, Born, TypeOK, Inserted
      <4>2. CASE j # <<e, Source>>
        BY <1>3, <3>1, <4>2 DEF EnrollContact, TypeOK
      <4>3. QED
        BY <4>1, <4>2
    <3>2. ASSUME NEW k \in Jobs, BecomeDue(k) PROVE FALSE
      BY <1>3, <3>2 DEF BecomeDue, TypeOK, CameDue
    <3>3. QED
      BY <1>3, <2>1, <3>1, <3>2 DEF Environment, ContactEvent, ContactEdited
  <2>2. CASE Dispatcher
    <3>1. ASSUME NEW t \in Ticks, ClaimDueJobs(t) PROVE FALSE
      BY <1>3, <3>1 DEF ClaimDueJobs, StillPending, Claimed
    <3>2. QED
      BY <1>3, <2>2, <3>1 DEF Dispatcher, SelectDueJobs, SendClaimed, TickDies
  <2>3. CASE Consumer
    <3>1. PICK w \in Workers : Running(w) \/ Failing(w)
      BY <1>3, <2>3 DEF Consumer, Deliver, DeliverDuplicate, Take
    <3>2. CASE StartLeasedJob(w) \/ ParkJobUntil(w)
      <4>1. ASSUME StartLeasedJob(w) PROVE FALSE
        BY <1>3, <4>1 DEF StartLeasedJob, HeldAs, TypeOK, Started
      <4>2. ASSUME ParkJobUntil(w) PROVE FALSE
        BY <1>3, <4>2 DEF ParkJobUntil, HeldAs, TypeOK, Parked
      <4>3. QED
        BY <3>2, <4>1, <4>2
    <3>3. CASE ExecuteNode(w) \/ ExecuteWait(w) \/ Ack(w) \/ ConsumerDies(w)
      BY <1>3, <3>3 DEF ExecuteNode, ExecuteWait, Ack, ConsumerDies
    <3>4. CASE FailRetryably(w) \/ FailPermanently(w)
      BY <1>3, <3>4 DEF FailRetryably, FailPermanently, Released, HeldAs, TypeOK, HandedBack
    <3>5. CASE CompleteJobClosingEnrollment(w)
      BY <1>3, <3>5 DEF Completes, CompleteJobClosingEnrollment, TypeOK
    <3>6. CASE CompleteJobAdvancingEnrollment(w)
      BY <1>3, <3>6 DEF Completes, CompleteJobAdvancingEnrollment, InsertJob, TypeOK, Inserted
    <3>7. QED
      BY <3>1, <3>2, <3>3, <3>4, <3>5, <3>6 DEF Running, Failing
  <2>4. CASE Replay \/ UNCHANGED vars
    BY <1>3, <2>4 DEF Replay, ReplayDeadLetter, vars
  <2>5. QED
    BY <2>1, <2>2, <2>3, <2>4 DEF Next
<1>4. QED
  BY <1>2, <1>3

\* The step that makes a job succeed hands its enrollment on.
LEMMA SuccessHandsOn ==
  ASSUME TypeOK, Born, [Next]_vars, NEW e \in Enrollments, NEW n \in Nodes,
         job[<<e, n>>].status # "succeeded", job'[<<e, n>>].status = "succeeded"
  PROVE  HandedOn(e, n)'
<1> DEFINE j == <<e, n>>
<1>1. j \in Jobs /\ EnrollmentOf(j) = e /\ NodeOf(j) = n /\ job[j] \in JobRow
  BY DEF Jobs, EnrollmentOf, NodeOf, TypeOK
<1>2. PICK w \in Workers : /\ CompleteJobClosingEnrollment(w) \/ CompleteJobAdvancingEnrollment(w)
                           /\ JobOf(w) = j
  BY <1>1, SuccessByCompletion DEF Completes
<1>3. CASE CompleteJobClosingEnrollment(w)
  <2>1. enrollment'[e].status = "completed"
    BY <1>1, <1>2, <1>3 DEF CompleteJobClosingEnrollment, TypeOK
  <2>2. QED
    BY <2>1 DEF HandedOn
<1>4. CASE CompleteJobAdvancingEnrollment(w)
  <2> DEFINE b == worker[w].branch
  <2>1. b \in Branches /\ Edge[n][b] # NoNode /\ NextNode(w) = Edge[n][b]
    BY <1>1, <1>2, <1>4 DEF CompleteJobAdvancingEnrollment, NextNode, TypeOK, WorkerState
  <2>2. <<e, Edge[n][b]>> \in Jobs
    BY <2>1, EngineAssumption DEF Jobs
  <2>3. CASE <<e, Edge[n][b]>> = j
    BY <2>1, <2>3 DEF HandedOn
  <2>4. CASE <<e, Edge[n][b]>> # j
    <3>1. job'[<<e, Edge[n][b]>>] = InsertJob(job[<<e, Edge[n][b]>>])
      BY <1>1, <1>2, <1>4, <2>1, <2>2, <2>4 DEF CompleteJobAdvancingEnrollment
    <3>2. job'[<<e, Edge[n][b]>>].status # "absent"
      BY <3>1 DEF InsertJob, NewJob
    <3>3. QED
      BY <2>1, <3>2 DEF HandedOn
  <2>5. QED
    BY <2>3, <2>4
<1>5. QED
  BY <1>2, <1>3, <1>4

\* A contact is never dropped between two nodes, in every instance: a job that
\* succeeded left a completed enrollment or the job of a target of its node.
THEOREM TokensNotLost == Spec => []TokenNotLost
<1>1. Init => TokenNotLost
  BY DEF Init, TokenNotLost, NoJob, Jobs
<1>2. TypeOK /\ Born /\ LeaseConsistency /\ TokenNotLost /\ [Next]_vars => TokenNotLost'
  <2> SUFFICES ASSUME TypeOK, Born, LeaseConsistency, TokenNotLost, [Next]_vars,
                      NEW e \in Enrollments, NEW n \in Nodes,
                      job'[<<e, n>>].status = "succeeded"
               PROVE  HandedOn(e, n)'
    BY DEF TokenNotLost, HandedOn
  <2>1. CASE job[<<e, n>>].status # "succeeded"
    BY <2>1, SuccessHandsOn
  <2>2. CASE job[<<e, n>>].status = "succeeded"
    <3>1. HandedOn(e, n)
      BY <2>2 DEF TokenNotLost, HandedOn
    <3>2. CASE enrollment[e].status = "completed"
      BY <3>2, EveryEnrollmentChange DEF EnrollmentChange, HandedOn
    <3>3. ASSUME NEW b \in Branches, Edge[n][b] # NoNode,
                 job[<<e, Edge[n][b]>>].status # "absent"
          PROVE  HandedOn(e, n)'
      <4>1. <<e, Edge[n][b]>> \in Jobs
        BY <3>3, EngineAssumption DEF Jobs
      <4>2. job'[<<e, Edge[n][b]>>].status # "absent"
        BY <3>3, <4>1, EveryRowChange, RowsStay
      <4>3. QED
        BY <3>3, <4>2 DEF HandedOn
    <3>4. QED
      BY <3>1, <3>2, <3>3 DEF HandedOn
  <2>3. QED
    BY <2>1, <2>2
<1>3. QED
  BY <1>1, <1>2, BornInvariant, LeasesConsistent, PTL DEF Spec

-----------------------------------------------------------------------------
\* A set of natural numbers has a least element.
LEMMA LeastNatural ==
  ASSUME NEW S \in SUBSET Nat, S # {}
  PROVE  \E x \in S : \A y \in S : x <= y
<1> DEFINE R == OpToRel(<, Nat)
<1>1. IsWellFoundedOn(R, Nat)
  BY NatLessThanWellFounded
<1>2. \A p, q \in Nat : p < q => <<p, q>> \in R
  BY DEF OpToRel
<1> HIDE DEF R
<1>3. PICK x \in S : \A y \in S : ~ (<<y, x>> \in R)
  BY <1>1, WFMin
<1>4. ASSUME NEW y \in S PROVE x <= y
  <2>1. x \in Nat /\ y \in Nat
    OBVIOUS
  <2>2. ~ (y < x)
    BY <1>2, <1>3, <2>1
  <2>3. QED
    BY <2>1, <2>2
<1>5. QED
  BY <1>4

\* How far a node is from the end of the graph.
FallsAlongEdges(rank) ==
  \A n \in Nodes, b \in Branches : Edge[n][b] # NoNode => rank[Edge[n][b]] < rank[n]

Rank == CHOOSE rank \in [Nodes -> 0..Cardinality(Nodes)] : FallsAlongEdges(rank)

\* Every edge leads closer to the end of the graph.
LEMMA RankFalls ==
  /\ Rank \in [Nodes -> Nat]
  /\ FallsAlongEdges(Rank)
<1>1. \E rank \in [Nodes -> 0..Cardinality(Nodes)] : FallsAlongEdges(rank)
  BY AcyclicAssumption DEF FallsAlongEdges
<1>2. Rank \in [Nodes -> 0..Cardinality(Nodes)] /\ FallsAlongEdges(Rank)
  BY <1>1 DEF Rank
<1>3. Cardinality(Nodes) \in Nat
  BY AcyclicAssumption, FS_CardinalityType
<1>4. 0..Cardinality(Nodes) \subseteq Nat
  BY <1>3
<1>5. QED
  BY <1>2, <1>4

\* The inserted row that is closest to the end is not finished: a finished one
\* has handed its enrollment on to a row that is closer.
LEMMA FurthestUnfinished ==
  ASSUME TypeOK, TokenNotLost, NEW e \in Enrollments, enrollment[e].status = "active",
         NEW s \in Nodes, job[<<e, s>>].status # "absent"
  PROVE  Unfinished(e) # {}
<1> DEFINE N == { n \in Nodes : job[<<e, n>>].status # "absent" }
           R == { Rank[n] : n \in N }
<1>1. R \in SUBSET Nat /\ R # {}
  BY RankFalls
<1>2. PICK r \in R : \A y \in R : r <= y
  BY <1>1, LeastNatural
<1>3. PICK n \in N : r = Rank[n]
  BY <1>2
<1>4. job[<<e, n>>].status # "succeeded"
  <2> SUFFICES ASSUME job[<<e, n>>].status = "succeeded" PROVE FALSE
    OBVIOUS
  <2>1. PICK b \in Branches : /\ Edge[n][b] # NoNode
                              /\ job[<<e, Edge[n][b]>>].status # "absent"
    BY DEF TokenNotLost
  <2>2. Edge[n][b] \in N
    <3>1. n \in Nodes
      BY <1>3
    <3>2. Edge[n] \in [Branches -> Nodes \union {NoNode}]
      BY <3>1, EngineAssumption
    <3>3. Edge[n][b] \in Nodes
      BY <2>1, <3>2
    <3>4. QED
      BY <2>1, <3>3
  <2>3. r <= Rank[Edge[n][b]]
    <3>1. \A x \in N : Rank[x] \in R
      OBVIOUS
    <3> HIDE DEF N, R
    <3>2. QED
      BY <1>2, <2>2, <3>1
  <2>4. Rank[Edge[n][b]] < Rank[n]
    BY <1>3, <2>1, RankFalls DEF FallsAlongEdges
  <2>5. Rank[n] \in Nat /\ Rank[Edge[n][b]] \in Nat
    BY <2>2, RankFalls
  <2>6. QED
    BY <1>3, <2>3, <2>4, <2>5
<1>5. <<e, n>> \in Jobs
  BY DEF Jobs
<1>6. job[<<e, n>>].status \in JobStatus
  <2>1. job[<<e, n>>] \in JobRow
    BY <1>5 DEF TypeOK
  <2>2. QED
    BY <2>1 DEF JobRow
<1>7. n \in Unfinished(e)
  BY <1>3, <1>4, <1>6 DEF Unfinished, JobStatus
<1>8. QED
  BY <1>7

-----------------------------------------------------------------------------
\* What a busy consumer has read stays true to the end of its run: the row it
\* saw waiting is, a timeout was taken by one that saw it waiting, and an action
\* has taken effect before its consumer completes the job.
WorkersKnow ==
  \A w \in Workers : worker[w].pc # "idle" =>
    /\ worker[w].waiting => job[JobOf(w)].waiting
    /\ Busy(w, "finishing") /\ worker[w].branch = "timeout" => worker[w].waiting
    /\ Busy(w, "finishing") /\ Kind[NodeOf(JobOf(w))] = "action" => JobOf(w) \in acted

\* Consumer w will start, resume or finish a row of this status with its lease,
\* rather than acknowledge its message and leave.
Resumes(w, status) ==
  \/ Busy(w, "found") /\ (status = "running" => worker[w].running)
  \/ worker[w].pc \in {"executing", "parking", "finishing"} /\ status = "running"

\* Carried, and by a consumer that is not about to leave: Carried itself is not
\* inductive, since a consumer that found a leased row gives it up when another
\* has started it meanwhile.
CarriedOn(j, status, l) ==
  \/ \E m \in queue : m.job = j /\ m.lease = l
  \/ \E d \in deadLetters : d.job = j /\ d.lease = l
  \/ status = "leased" /\ \E t \in Ticks : [job |-> j, lease |-> l] \in tick[t].claims
  \/ \E w \in Workers : Resumes(w, status) /\ JobOf(w) = j /\ LeaseOf(w) = l

RowsCarried ==
  /\ \A j \in Jobs : job[j].status \in {"leased", "running"} =>
                       CarriedOn(j, job[j].status, job[j].lease)
  /\ \A t \in Ticks : tick[t].pc # "claimed" => tick[t].claims = {}

\* Enrollments come with the job of the source node.
SourceRows ==
  \A e \in Enrollments : enrollment[e].status # "absent" => job[<<e, Source>>].status # "absent"

\* Two carriers of one lease of one job.
Same(x, y) == x.job = y.job /\ x.lease = y.lease

\* No two messages, claims or consumers carry the same lease of a job.
Exclusive ==
  /\ \A m, o \in queue : Same(m, o) => m = o
  /\ \A t, u \in Ticks : \A c \in tick[t].claims : c \in tick[u].claims => t = u
  /\ \A v, w \in Workers : /\ worker[v].pc # "idle"
                           /\ worker[w].pc # "idle"
                           /\ Same(worker[v].msg, worker[w].msg)
                           => v = w
  /\ \A m \in queue, t \in Ticks : \A c \in tick[t].claims : ~Same(m, c)
  /\ \A m \in queue, w \in Workers : worker[w].pc # "idle" => ~Same(m, worker[w].msg)
  /\ \A t \in Ticks, w \in Workers :
       worker[w].pc # "idle" => \A c \in tick[t].claims : ~Same(c, worker[w].msg)

\* The row a consumer works on is still as its step left it.
HoldsRow ==
  \A w \in Workers :
    /\ Busy(w, "found") => HeldAs(IF worker[w].running THEN "running" ELSE "leased", w)
    /\ worker[w].pc \in {"executing", "parking", "finishing"} => HeldAs("running", w)

-----------------------------------------------------------------------------
\* Everything a step may do to one consumer.
WorkerChange(w) ==
  \/ worker'[w] = worker[w]
  \/ /\ worker[w].pc = "idle"
     /\ \E m \in queue : Processable(m) /\ worker'[w] = ReadJob(m) /\ job' = job
  \/ ExecuteNode(w)
  \/ /\ worker[w].pc # "idle"
     /\ \E pc \in {"executing", "parking", "ack"} : worker'[w] = [worker[w] EXCEPT !.pc = pc]
  \/ worker'[w] = IdleWorker

\* No step does anything else to a consumer.
LEMMA EveryWorkerChange ==
  ASSUME TypeOK, [Next]_vars, NEW w \in Workers
  PROVE  WorkerChange(w)
<1>1. ASSUME worker' = worker PROVE WorkerChange(w)
  BY <1>1 DEF WorkerChange
<1>2. ASSUME NEW v \in Workers, NEW m \in queue, Deliver(v, m) \/ DeliverDuplicate(v, m)
      PROVE  WorkerChange(w)
  <2>1. Take(v, m)
    BY <1>2 DEF Deliver, DeliverDuplicate
  <2>2. CASE w = v /\ Processable(m)
    <3>1. worker'[w] = ReadJob(m) /\ worker[w].pc = "idle" /\ job' = job
      BY <2>1, <2>2 DEF Take, TypeOK
    <3>2. QED
      BY <2>2, <3>1 DEF WorkerChange
  <2>3. CASE ~(w = v /\ Processable(m))
    <3>1. worker'[w] = worker[w]
      BY <2>1, <2>3 DEF Take, TypeOK
    <3>2. QED
      BY <3>1 DEF WorkerChange
  <2>4. QED
    BY <2>2, <2>3
<1>3. ASSUME NEW v \in Workers, Running(v) PROVE WorkerChange(w)
  <2>1. CASE ExecuteNode(v)
    BY <2>1 DEF ExecuteNode, TypeOK, WorkerChange
  <2>2. CASE Ack(v)
    BY <2>2 DEF Ack, TypeOK, WorkerChange
  <2>3. CASE StartLeasedJob(v)
    <3>1. AfterStart(v) \in {"executing", "ack"}
      BY DEF AfterStart
    <3>2. QED
      BY <2>3, <3>1 DEF StartLeasedJob, Busy, TypeOK, WorkerChange
  <2>4. CASE ExecuteWait(v) \/ ParkJobUntil(v)
    BY <2>4 DEF ExecuteWait, ParkJobUntil, Busy, TypeOK, WorkerChange
  <2>5. CASE CompleteJobClosingEnrollment(v) \/ CompleteJobAdvancingEnrollment(v)
    BY <2>5 DEF CompleteJobClosingEnrollment, CompleteJobAdvancingEnrollment, Busy, TypeOK,
         WorkerChange
  <2>6. QED
    BY <1>3, <2>1, <2>2, <2>3, <2>4, <2>5 DEF Running
<1>4. ASSUME NEW v \in Workers, Failing(v) PROVE WorkerChange(w)
  <2>1. CASE FailRetryably(v) \/ ConsumerDies(v)
    BY <2>1 DEF FailRetryably, ConsumerDies, TypeOK, WorkerChange
  <2>2. CASE FailPermanently(v)
    BY <2>2 DEF FailPermanently, Busy, TypeOK, WorkerChange
  <2>3. QED
    BY <1>4, <2>1, <2>2 DEF Failing
<1>5. CASE Environment \/ Dispatcher \/ Replay \/ UNCHANGED vars
  BY <1>1, <1>5 DEF Environment, EnrollContact, ContactEvent, ContactEdited, BecomeDue,
       Dispatcher, SelectDueJobs, ClaimDueJobs, SendClaimed, TickDies, Replay,
       ReplayDeadLetter, vars
<1>6. QED
  BY <1>2, <1>3, <1>4, <1>5 DEF Next, Consumer

\* What has taken effect is never taken back.
LEMMA ActedGrows ==
  ASSUME [Next]_vars PROVE acted \subseteq acted'
BY DEF Next, Environment, EnrollContact, ContactEvent, ContactEdited, BecomeDue, Dispatcher,
       SelectDueJobs, ClaimDueJobs, SendClaimed, TickDies, Consumer, Deliver, DeliverDuplicate,
       Take, Running, StartLeasedJob, ExecuteNode, ExecuteWait, ParkJobUntil,
       CompleteJobClosingEnrollment, CompleteJobAdvancingEnrollment, Ack, Failing, FailRetryably,
       ConsumerDies, FailPermanently, Replay, ReplayDeadLetter, vars

\* A consumer that is busy keeps what it has read to the end of its run.
LEMMA KnowledgeStays ==
  ASSUME TypeOK, TypeOK', Born, WorkersKnow, [Next]_vars
  PROVE  WorkersKnow'
<1>1. ASSUME NEW j \in Jobs, job[j].status # "absent", job[j].waiting
      PROVE  job'[j].waiting
  <2>1. RowChange(j) /\ job[j] \in JobRow
    BY EveryRowChange, RowTypes
  <2>2. CASE Claimed(j)
    BY <1>1, <2>1, <2>2 DEF Claimed, JobRow
  <2>3. CASE CameDue(j) \/ Started(j) \/ HandedBack(j)
    BY <1>1, <2>1, <2>3 DEF CameDue, Started, HandedBack, JobRow
  <2>4. CASE Finished(j)
    BY <1>1, <2>1, <2>4 DEF Finished, JobRow
  <2>5. QED
    BY <1>1, <2>1, <2>2, <2>3, <2>4 DEF RowChange, Inserted, Parked
<1>2. acted \subseteq acted'
  BY ActedGrows
<1> SUFFICES ASSUME NEW w \in Workers, worker'[w].pc # "idle"
             PROVE  /\ worker'[w].waiting => job'[worker'[w].msg.job].waiting
                    /\ worker'[w].pc = "finishing" /\ worker'[w].branch = "timeout"
                         => worker'[w].waiting
                    /\ worker'[w].pc = "finishing" /\ Kind[NodeOf(worker'[w].msg.job)] = "action"
                         => worker'[w].msg.job \in acted'
  BY DEF WorkersKnow, Busy, JobOf
<1>3. WorkerChange(w) /\ worker[w] \in WorkerState
  BY EveryWorkerChange DEF TypeOK
<1>4. ASSUME worker[w].pc # "idle"
      PROVE  /\ worker[w].waiting => job'[worker[w].msg.job].waiting
             /\ worker[w].pc = "finishing" /\ worker[w].branch = "timeout" => worker[w].waiting
             /\ worker[w].pc = "finishing" /\ Kind[NodeOf(worker[w].msg.job)] = "action"
                  => worker[w].msg.job \in acted'
  <2>1. JobOf(w) \in Jobs /\ job[JobOf(w)].status # "absent"
    BY <1>4, BusyHolds DEF Born
  <2>2. QED
    BY <1>1, <1>2, <1>4, <2>1 DEF WorkersKnow, Busy, JobOf
<1>5. CASE worker'[w] = worker[w]
  BY <1>4, <1>5
<1>6. ASSUME NEW m \in queue, worker'[w] = ReadJob(m), job' = job
      PROVE  /\ worker'[w].waiting => job'[worker'[w].msg.job].waiting
             /\ worker'[w].pc # "finishing"
  BY <1>6 DEF ReadJob
<1>7. CASE ExecuteNode(w)
  <2>1. worker'[w] = [worker[w] EXCEPT !.pc = "finishing", !.branch = Taken(w)]
    BY <1>7 DEF ExecuteNode, TypeOK
  <2>2. /\ worker'[w].msg = worker[w].msg
        /\ worker'[w].waiting = worker[w].waiting
        /\ worker'[w].branch = Taken(w)
        /\ worker[w].pc # "idle"
    <3> DEFINE branch == Taken(w)
    <3>1. worker'[w] = [worker[w] EXCEPT !.pc = "finishing", !.branch = branch]
      BY <2>1
    <3>2. worker[w].pc # "idle"
      BY <1>7 DEF ExecuteNode, Busy
    <3> HIDE DEF branch
    <3>3. /\ worker'[w].msg = worker[w].msg
          /\ worker'[w].waiting = worker[w].waiting
          /\ worker'[w].branch = branch
      BY <1>3, <3>1 DEF WorkerState
    <3>4. QED
      BY <3>2, <3>3 DEF branch
  <2>3. Taken(w) = "timeout" => worker[w].waiting
    BY <1>7 DEF ExecuteNode, MustWait, Taken
  <2>4. Kind[NodeOf(JobOf(w))] = "action" => JobOf(w) \in acted'
    BY <1>7 DEF ExecuteNode
  <2>5. QED
    BY <1>4, <2>2, <2>3, <2>4 DEF JobOf
<1>8. ASSUME NEW pc \in {"executing", "parking", "ack"}, worker[w].pc # "idle",
             worker'[w] = [worker[w] EXCEPT !.pc = pc]
      PROVE  /\ worker'[w].waiting => job'[worker'[w].msg.job].waiting
             /\ worker'[w].pc # "finishing"
  <2>1. /\ worker'[w].msg = worker[w].msg
        /\ worker'[w].waiting = worker[w].waiting
        /\ worker'[w].pc = pc
    BY <1>3, <1>8 DEF WorkerState
  <2>2. QED
    BY <1>4, <1>8, <2>1
<1>9. worker'[w] # IdleWorker
  BY DEF IdleWorker
<1>10. QED
  BY <1>3, <1>5, <1>6, <1>7, <1>8, <1>9 DEF WorkerChange

\* A job that succeeds in a step is one whose action has taken effect.
LEMMA ActedStays ==
  ASSUME TypeOK, Born, WorkersKnow, ActedBeforeSuccess, [Next]_vars
  PROVE  ActedBeforeSuccess'
<1> SUFFICES ASSUME NEW j \in Jobs, Kind[NodeOf(j)] = "action", job'[j].status = "succeeded"
             PROVE  j \in acted'
  BY DEF ActedBeforeSuccess
<1>1. acted \subseteq acted'
  BY ActedGrows
<1>2. CASE job[j].status = "succeeded"
  BY <1>1, <1>2 DEF ActedBeforeSuccess
<1>3. CASE job[j].status # "succeeded"
  <2>1. PICK w \in Workers : Busy(w, "finishing") /\ JobOf(w) = j
    BY <1>3, SuccessByCompletion
       DEF Completes, CompleteJobClosingEnrollment, CompleteJobAdvancingEnrollment
  <2>2. j \in acted
    BY <2>1 DEF WorkersKnow, Busy
  <2>3. QED
    BY <1>1, <2>2
<1>4. QED
  BY <1>2, <1>3

\* An enrollment that exists has been given the job of the source node.
LEMMA SourceRowsStay ==
  ASSUME TypeOK, Born, SourceRows, [Next]_vars
  PROVE  SourceRows'
<1> SUFFICES ASSUME NEW e \in Enrollments, enrollment'[e].status # "absent"
             PROVE  job'[<<e, Source>>].status # "absent"
  BY DEF SourceRows
<1>1. <<e, Source>> \in Jobs
  BY EngineAssumption DEF Jobs
<1>2. CASE enrollment[e].status # "absent"
  BY <1>1, <1>2, EveryRowChange, RowsStay DEF SourceRows
<1>3. CASE enrollment[e].status = "absent"
  <2>1. ASSUME NEW f \in Enrollments, EnrollContact(f)
        PROVE  job'[<<e, Source>>].status # "absent"
    <3>1. e = f
      BY <1>3, <2>1 DEF EnrollContact, TypeOK
    <3>2. job'[<<e, Source>>] = NewJob
      BY <1>1, <2>1, <3>1 DEF EnrollContact, TypeOK
    <3>3. QED
      BY <3>2 DEF NewJob
  <2>2. ASSUME NEW w \in Workers,
               CompleteJobClosingEnrollment(w) \/ CompleteJobAdvancingEnrollment(w)
        PROVE  FALSE
    <3>1. worker[w].pc # "idle"
      BY <2>2 DEF CompleteJobClosingEnrollment, CompleteJobAdvancingEnrollment, Busy
    <3>2. /\ EnrollmentOf(JobOf(w)) \in Enrollments
          /\ enrollment[EnrollmentOf(JobOf(w))].status # "absent"
      BY <3>1, BusyHolds DEF Born
    <3>3. enrollment'[e] = enrollment[e]
      BY <1>3, <2>2, <3>2 DEF CompleteJobClosingEnrollment, CompleteJobAdvancingEnrollment, TypeOK
    <3>4. QED
      BY <1>3, <3>3
  <2>3. enrollment' # enrollment
    BY <1>3
  <2>4. QED
    BY <2>1, <2>2, <2>3
       DEF Next, Environment, ContactEvent, ContactEdited, BecomeDue, Dispatcher, SelectDueJobs,
           ClaimDueJobs, SendClaimed, TickDies, Consumer, Deliver, DeliverDuplicate, Take, Running,
           StartLeasedJob, ExecuteNode, ExecuteWait, ParkJobUntil, Ack, Failing, FailRetryably,
           ConsumerDies, FailPermanently, Replay, ReplayDeadLetter, vars
<1>4. QED
  BY <1>2, <1>3

-----------------------------------------------------------------------------
\* A carrier other than a claim that a step keeps, for a row it leaves alone.
LEMMA CarriedStays ==
  ASSUME NEW j \in Jobs, NEW status, NEW l, CarriedOn(j, status, l),
         queue \subseteq queue', deadLetters \subseteq deadLetters',
         \A t \in Ticks : tick[t].claims \subseteq tick'[t].claims,
         \A w \in Workers :
           Resumes(w, status) /\ JobOf(w) = j /\ LeaseOf(w) = l =>
             \/ worker'[w] = worker[w]
             \/ \E m \in queue' : m.job = j /\ m.lease = l
             \/ \E d \in deadLetters' : d.job = j /\ d.lease = l
             \/ Resumes(w, status)' /\ JobOf(w)' = j /\ LeaseOf(w)' = l
  PROVE  CarriedOn(j, status, l)'
<1>1. CASE \E m \in queue : m.job = j /\ m.lease = l
  BY <1>1 DEF CarriedOn
<1>2. CASE \E d \in deadLetters : d.job = j /\ d.lease = l
  BY <1>2 DEF CarriedOn
<1>3. CASE status = "leased" /\ \E t \in Ticks : [job |-> j, lease |-> l] \in tick[t].claims
  BY <1>3 DEF CarriedOn
<1>4. ASSUME NEW w \in Workers, Resumes(w, status), JobOf(w) = j, LeaseOf(w) = l
      PROVE  CarriedOn(j, status, l)'
  <2>1. CASE worker'[w] = worker[w]
    <3>1. Resumes(w, status)' /\ JobOf(w)' = j /\ LeaseOf(w)' = l
      BY <1>4, <2>1 DEF Resumes, Busy, JobOf, LeaseOf
    <3>2. QED
      BY <3>1 DEF CarriedOn
  <2>2. CASE worker'[w] # worker[w]
    BY <1>4, <2>2 DEF CarriedOn
  <2>3. QED
    BY <2>1, <2>2
<1>5. QED
  BY <1>1, <1>2, <1>3, <1>4 DEF CarriedOn

\* Enrolling, contact events, edits and the clock leave held rows alone.
LEMMA CarriedByEnvironment ==
  ASSUME TypeOK, Born, LeaseConsistency, RowsCarried, NEW j \in Jobs, NEW s, NEW l,
         job'[j].status = s, job'[j].lease = l, s \in {"leased", "running"},
         Environment \/ UNCHANGED vars
  PROVE  CarriedOn(j, s, l)'
<1>1. job'[j] = job[j]
  <2>1. ASSUME NEW e \in Enrollments, EnrollContact(e) PROVE job'[j] = job[j]
    <3>1. job'[j] = job[j] \/ job'[j] = NewJob
      BY <2>1 DEF EnrollContact, TypeOK
    <3>2. QED
      BY <3>1 DEF NewJob
  <2>2. ASSUME NEW k \in Jobs, BecomeDue(k) PROVE job'[j] = job[j]
    <3>1. CASE j = k
      <4>1. job'[j] = [job[j] EXCEPT !.due = TRUE] /\ job[j].status = "pending"
        BY <2>2, <3>1 DEF BecomeDue, TypeOK
      <4>2. job'[j].status = "pending"
        BY <4>1, RowTypes DEF JobRow
      <4>3. QED
        BY <4>2
    <3>2. CASE j # k
      BY <2>2, <3>2 DEF BecomeDue, TypeOK
    <3>3. QED
      BY <3>1, <3>2
  <2>3. QED
    BY <2>1, <2>2 DEF Environment, ContactEvent, ContactEdited, vars
<1>2. CarriedOn(j, s, l)
  BY <1>1 DEF RowsCarried
<1>3. UNCHANGED <<queue, deadLetters, tick, worker>>
  BY DEF Environment, EnrollContact, ContactEvent, ContactEdited, BecomeDue, vars
<1>4. QED
  BY <1>2, <1>3, CarriedStays

\* The dispatcher: what is claimed is sent, unless the invocation dies.
LEMMA CarriedByDispatcher ==
  ASSUME TypeOK, Born, LeaseConsistency, RowsCarried, NEW j \in Jobs, NEW s, NEW l,
         job'[j].status = s, job'[j].lease = l, s \in {"leased", "running"},
         Limit["tick"] = 0, Dispatcher
  PROVE  CarriedOn(j, s, l)'
<1>1. PICK t \in Ticks : SelectDueJobs(t) \/ ClaimDueJobs(t) \/ SendClaimed(t) \/ TickDies(t)
  BY DEF Dispatcher
<1>2. worker' = worker /\ deadLetters' = deadLetters
  BY <1>1 DEF SelectDueJobs, ClaimDueJobs, SendClaimed, TickDies
<1>3. CASE SelectDueJobs(t)
  <2>1. tick[t].claims = {}
    BY <1>3 DEF SelectDueJobs, RowsCarried
  <2>2. \A u \in Ticks : tick[u].claims \subseteq tick'[u].claims
    BY <1>3, <2>1 DEF SelectDueJobs, TypeOK
  <2>3. CarriedOn(j, s, l)
    BY <1>3 DEF SelectDueJobs, RowsCarried
  <2>4. queue' = queue
    BY <1>3 DEF SelectDueJobs
  <2>5. QED
    BY <1>2, <2>2, <2>3, <2>4, CarriedStays
<1>4. CASE ClaimDueJobs(t)
  <2> DEFINE won == { k \in tick[t].candidates : StillPending(k) }
  <2>1. tick[t].claims = {}
    BY <1>4 DEF ClaimDueJobs, RowsCarried
  <2>2. PICK lease \in [won -> Leases] :
          /\ job' = [k \in Jobs |-> IF k \in won
                                    THEN [job[k] EXCEPT !.status = "leased",
                                                        !.lease = lease[k]]
                                    ELSE job[k]]
          /\ tick' = [tick EXCEPT ![t] =
                        IF won = {} THEN IdleTick
                        ELSE [pc |-> "claimed", candidates |-> {},
                              claims |-> { [job |-> k, lease |-> lease[k]] : k \in won }]]
    BY <1>4 DEF ClaimDueJobs
  <2> HIDE DEF won
  <2>3. CASE j \in won
    <3>1. job'[j] = [job[j] EXCEPT !.status = "leased", !.lease = lease[j]]
      BY <2>2, <2>3
    <3>2. s = "leased" /\ l = lease[j]
      BY <3>1, RowTypes DEF JobRow
    <3>3. tick'[t].claims = { [job |-> k, lease |-> lease[k]] : k \in won }
      BY <2>2, <2>3 DEF TypeOK
    <3>4. [job |-> j, lease |-> l] \in tick'[t].claims
      BY <2>3, <3>2, <3>3
    <3>5. QED
      BY <3>2, <3>4 DEF CarriedOn
  <2>4. CASE j \notin won
    <3>1. job'[j] = job[j]
      BY <2>2, <2>4
    <3>2. CarriedOn(j, s, l)
      BY <3>1 DEF RowsCarried
    <3>3. \A u \in Ticks : tick[u].claims \subseteq tick'[u].claims
      BY <2>1, <2>2 DEF TypeOK
    <3>4. queue' = queue
      BY <1>4 DEF ClaimDueJobs
    <3>5. QED
      BY <1>2, <3>2, <3>3, <3>4, CarriedStays
  <2>5. QED
    BY <2>3, <2>4
<1>5. CASE SendClaimed(t)
  <2>1. CarriedOn(j, s, l) /\ queue \subseteq queue'
    BY <1>5 DEF SendClaimed, RowsCarried
  <2>2. CASE [job |-> j, lease |-> l] \in tick[t].claims
    <3>1. NewMessage([job |-> j, lease |-> l]) \in queue'
      BY <1>5, <2>2 DEF SendClaimed
    <3>2. QED
      BY <3>1 DEF CarriedOn, NewMessage
  <2>3. CASE [job |-> j, lease |-> l] \notin tick[t].claims
    <3>1. \A u \in Ticks : u # t => tick'[u] = tick[u]
      BY <1>5 DEF SendClaimed, TypeOK
    <3>2. QED
      BY <1>2, <2>1, <2>3, <3>1 DEF CarriedOn, Resumes, Busy, JobOf, LeaseOf
  <2>4. QED
    BY <2>2, <2>3
<1>6. CASE TickDies(t)
  <2>1. spent["tick"] \in Nat /\ spent["tick"] < 0
    BY <1>6 DEF TickDies, Spend, TypeOK
  <2>2. QED
    BY <2>1
<1>7. QED
  BY <1>1, <1>3, <1>4, <1>5, <1>6

\* A delivery: a message that carries the row finds it.
LEMMA CarriedByDelivery ==
  ASSUME TypeOK, Born, LeaseConsistency, RowsCarried, NEW j \in Jobs, NEW s, NEW l,
         job'[j].status = s, job'[j].lease = l, s \in {"leased", "running"},
         NEW w \in Workers, NEW m \in queue, Deliver(w, m) \/ DeliverDuplicate(w, m)
  PROVE  CarriedOn(j, s, l)'
<1>1. /\ Take(w, m)
      /\ queue \ {m} \subseteq queue'
      /\ UNCHANGED <<job, deadLetters, tick>>
      /\ worker[w].pc = "idle"
  BY DEF Deliver, DeliverDuplicate, Take
<1>2. CarriedOn(j, s, l)
  BY <1>1 DEF RowsCarried
<1>3. CASE m.job = j /\ m.lease = l
  <2>1. Processable(m)
    BY <1>1, <1>3 DEF Processable
  <2>2. worker'[w] = ReadJob(m)
    BY <1>1, <2>1 DEF Take, TypeOK
  <2>3. /\ worker'[w].pc = "found"
        /\ worker'[w].msg = m
        /\ worker'[w].running = (job[j].status = "running")
    BY <1>3, <2>2 DEF ReadJob
  <2>4. job[j].status = s
    BY <1>1
  <2>5. QED
    BY <1>3, <2>3, <2>4 DEF CarriedOn, Resumes, Busy, JobOf, LeaseOf
<1>4. CASE ~(m.job = j /\ m.lease = l)
  <2>1. \A v \in Workers : v # w => worker'[v] = worker[v]
    BY <1>1 DEF Take, TypeOK
  <2>2. ~Resumes(w, s)
    BY <1>1 DEF Resumes, Busy
  <2>3. CASE \E o \in queue : o.job = j /\ o.lease = l
    <3>1. \E o \in queue' : o.job = j /\ o.lease = l
      BY <1>1, <1>4, <2>3
    <3>2. QED
      BY <3>1 DEF CarriedOn
  <2>4. CASE ~ \E o \in queue : o.job = j /\ o.lease = l
    BY <1>1, <1>2, <2>1, <2>2, <2>4 DEF CarriedOn, Resumes, Busy, JobOf, LeaseOf
  <2>5. QED
    BY <2>3, <2>4
<1>5. QED
  BY <1>3, <1>4

\* A consumer that goes on carries its row on; one that gives up does not
\* carry it, or finds that the row is no longer held.
LEMMA CarriedByRunning ==
  ASSUME TypeOK, Born, LeaseConsistency, RowsCarried, NEW j \in Jobs, NEW s, NEW l,
         job'[j].status = s, job'[j].lease = l, s \in {"leased", "running"},
         NEW w \in Workers, Running(w)
  PROVE  CarriedOn(j, s, l)'
<1>1. /\ UNCHANGED <<queue, deadLetters, tick>>
      /\ worker[w].pc # "idle"
      /\ \A v \in Workers : v # w => worker'[v] = worker[v]
  BY DEF Running, StartLeasedJob, ExecuteNode, ExecuteWait, ParkJobUntil,
       CompleteJobClosingEnrollment, CompleteJobAdvancingEnrollment, Ack, Busy, TypeOK
<1>2. worker[w] \in WorkerState /\ JobOf(w) \in Jobs /\ LeaseOf(w) \in Leases
  BY <1>1, BusyHolds DEF TypeOK
<1>3. ASSUME job'[j] = job[j],
             \/ ~(Resumes(w, s) /\ JobOf(w) = j /\ LeaseOf(w) = l)
             \/ Resumes(w, s)' /\ JobOf(w)' = JobOf(w) /\ LeaseOf(w)' = LeaseOf(w)
      PROVE  CarriedOn(j, s, l)'
  <2>1. CarriedOn(j, s, l)
    BY <1>3 DEF RowsCarried
  <2>2. \A v \in Workers :
          Resumes(v, s) /\ JobOf(v) = j /\ LeaseOf(v) = l =>
            \/ worker'[v] = worker[v]
            \/ Resumes(v, s)' /\ JobOf(v)' = j /\ LeaseOf(v)' = l
    BY <1>1, <1>3
  <2>3. QED
    BY <1>1, <2>1, <2>2, CarriedStays
<1>4. ASSUME NEW pc \in {"executing", "parking", "finishing", "ack"}, worker'[w].pc = pc,
             worker'[w].msg = worker[w].msg
      PROVE  /\ JobOf(w)' = JobOf(w) /\ LeaseOf(w)' = LeaseOf(w)
             /\ s = "running" /\ pc # "ack" => Resumes(w, s)'
  BY <1>4 DEF JobOf, LeaseOf, Resumes
<1>5. CASE StartLeasedJob(w)
  <2>1. worker'[w].pc = AfterStart(w) /\ worker'[w].msg = worker[w].msg
    BY <1>2, <1>5 DEF StartLeasedJob, TypeOK, WorkerState
  <2>2. CASE JobOf(w) = j /\ HeldAs("leased", w)
    <3>1. job'[j] = [job[j] EXCEPT !.status = "running"]
      BY <1>5, <2>2 DEF StartLeasedJob, TypeOK
    <3>2. s = "running" /\ l = LeaseOf(w)
      BY <2>2, <3>1, RowTypes DEF JobRow, HeldAs
    <3>3. AfterStart(w) = "executing"
      BY <2>2 DEF AfterStart
    <3>4. Resumes(w, s)' /\ JobOf(w)' = j /\ LeaseOf(w)' = l
      BY <1>4, <2>1, <2>2, <3>2, <3>3
    <3>5. QED
      BY <3>4 DEF CarriedOn
  <2>3. CASE ~(JobOf(w) = j /\ HeldAs("leased", w))
    <3>1. job'[j] = job[j]
      BY <1>5, <2>3 DEF StartLeasedJob, TypeOK
    <3>2. ASSUME Resumes(w, s), JobOf(w) = j, LeaseOf(w) = l
          PROVE  Resumes(w, s)' /\ JobOf(w)' = JobOf(w) /\ LeaseOf(w)' = LeaseOf(w)
      <4>1. s = "running"
        BY <2>3, <3>1, <3>2 DEF HeldAs
      <4>2. worker[w].running
        BY <1>5, <3>2, <4>1 DEF Resumes, StartLeasedJob, Busy
      <4>3. AfterStart(w) = "executing"
        BY <4>2 DEF AfterStart
      <4>4. QED
        BY <1>4, <2>1, <4>1, <4>3
    <3>3. QED
      BY <1>3, <3>1, <3>2
  <2>4. QED
    BY <2>2, <2>3
<1>6. CASE ExecuteNode(w) \/ ExecuteWait(w)
  <2>1. job' = job
    BY <1>6 DEF ExecuteNode, ExecuteWait
  <2>2. worker'[w].pc \in {"finishing", "parking"} /\ worker'[w].msg = worker[w].msg
    <3> DEFINE branch == Taken(w)
    <3>1. \/ worker'[w] = [worker[w] EXCEPT !.pc = "finishing", !.branch = branch]
          \/ worker'[w] = [worker[w] EXCEPT !.pc = "parking"]
      BY <1>6 DEF ExecuteNode, ExecuteWait, TypeOK
    <3> HIDE DEF branch
    <3>2. QED
      BY <1>2, <3>1 DEF WorkerState
  <2>3. Resumes(w, s) => s = "running"
    BY <1>6 DEF ExecuteNode, ExecuteWait, Resumes, Busy
  <2>4. QED
    BY <1>3, <1>4, <2>1, <2>2, <2>3
<1>7. CASE ParkJobUntil(w)
  <2>1. CASE JobOf(w) = j /\ HeldAs("running", w)
    <3>1. job'[j].status = "pending"
      BY <1>7, <2>1 DEF ParkJobUntil, TypeOK
    <3>2. QED
      BY <3>1
  <2>2. CASE ~(JobOf(w) = j /\ HeldAs("running", w))
    <3>1. job'[j] = job[j]
      BY <1>7, <2>2 DEF ParkJobUntil, TypeOK
    <3>2. ~(Resumes(w, s) /\ JobOf(w) = j /\ LeaseOf(w) = l)
      BY <1>7, <2>2, <3>1 DEF ParkJobUntil, Resumes, Busy, HeldAs
    <3>3. QED
      BY <1>3, <3>1, <3>2
  <2>3. QED
    BY <2>1, <2>2
<1>8. CASE CompleteJobClosingEnrollment(w) \/ CompleteJobAdvancingEnrollment(w)
  <2>1. CASE JobOf(w) = j
    <3>1. job'[j] = JobSucceeded(job[j], LeaseOf(w))
      BY <1>8, <2>1 DEF CompleteJobClosingEnrollment, CompleteJobAdvancingEnrollment, TypeOK
    <3>2. job[j].lease # LeaseOf(w)
      <4> SUFFICES ASSUME job[j].lease = LeaseOf(w) PROVE FALSE
        OBVIOUS
      <4>1. job'[j] = [job[j] EXCEPT !.status = "succeeded", !.lease = NoLease]
        BY <3>1 DEF JobSucceeded
      <4>2. job'[j].status = "succeeded"
        BY <4>1, RowTypes DEF JobRow
      <4>3. QED
        BY <4>2
    <3>3. job'[j] = job[j]
      BY <3>1, <3>2 DEF JobSucceeded
    <3>4. QED
      BY <1>3, <3>2, <3>3
  <2>2. CASE JobOf(w) # j
    <3>1. job'[j] = job[j] \/ job'[j] = NewJob
      BY <1>8, <2>2
         DEF CompleteJobClosingEnrollment, CompleteJobAdvancingEnrollment, InsertJob, TypeOK
    <3>2. job'[j] = job[j]
      BY <3>1 DEF NewJob
    <3>3. QED
      BY <1>3, <2>2, <3>2
  <2>3. QED
    BY <2>1, <2>2
<1>9. CASE Ack(w)
  BY <1>3, <1>9 DEF Ack, Resumes, Busy
<1>10. QED
  BY <1>5, <1>6, <1>7, <1>8, <1>9 DEF Running

\* A consumer that fails leaves a message or a dead letter that carries its row.
LEMMA CarriedByFailure ==
  ASSUME TypeOK, Born, LeaseConsistency, RowsCarried, NEW j \in Jobs, NEW s, NEW l,
         job'[j].status = s, job'[j].lease = l, s \in {"leased", "running"},
         NEW w \in Workers, Failing(w)
  PROVE  CarriedOn(j, s, l)'
<1>1. worker[w].pc # "idle" /\ tick' = tick
  BY DEF Failing, FailRetryably, ConsumerDies, FailPermanently, Busy
<1>0. ASSUME NEW from, Letter(worker[w].msg, from) \in deadLetters'
      PROVE  \E d \in deadLetters' : d.job = JobOf(w) /\ d.lease = LeaseOf(w)
  <2>1. /\ Letter(worker[w].msg, from).job = JobOf(w)
        /\ Letter(worker[w].msg, from).lease = LeaseOf(w)
    BY DEF Letter, JobOf, LeaseOf
  <2>2. QED
    BY <1>0, <2>1
<1>2. /\ queue \subseteq queue'
      /\ deadLetters \subseteq deadLetters'
      /\ \/ \E m \in queue' : m.job = JobOf(w) /\ m.lease = LeaseOf(w)
         \/ \E d \in deadLetters' : d.job = JobOf(w) /\ d.lease = LeaseOf(w)
  <2>1. CASE Redeliver(worker[w].msg)
    <3>1. worker[w].msg \in Message
      BY <1>1, BusyHolds
    <3>2. CASE RetriesLeft(worker[w].msg)
      <4> DEFINE again == [worker[w].msg EXCEPT !.tries = @ + 1]
      <4>1. again \in queue' /\ queue \subseteq queue' /\ deadLetters' = deadLetters
        BY <2>1, <3>2 DEF Redeliver
      <4>2. again.job = JobOf(w) /\ again.lease = LeaseOf(w)
        BY <3>1 DEF Message, JobOf, LeaseOf
      <4>3. QED
        BY <4>1, <4>2
    <3>3. CASE ~RetriesLeft(worker[w].msg)
      <4>1. /\ Letter(worker[w].msg, "dead-letter") \in deadLetters'
            /\ deadLetters \subseteq deadLetters'
            /\ queue' = queue
        BY <2>1, <3>3 DEF Redeliver
      <4>2. QED
        BY <1>0, <4>1
    <3>4. QED
      BY <3>2, <3>3
  <2>2. CASE FailPermanently(w)
    <3>1. /\ Letter(worker[w].msg, "jobs") \in deadLetters'
          /\ deadLetters \subseteq deadLetters'
          /\ queue' = queue
      BY <2>2 DEF FailPermanently
    <3>2. QED
      BY <1>0, <3>1
  <2>3. QED
    BY <2>1, <2>2 DEF Failing, FailRetryably, ConsumerDies
<1>3. CASE JobOf(w) = j /\ LeaseOf(w) = l
  BY <1>2, <1>3 DEF CarriedOn
<1>4. CASE ~(JobOf(w) = j /\ LeaseOf(w) = l)
  <2>1. \A v \in Workers : v # w => worker'[v] = worker[v]
    BY DEF Failing, FailRetryably, ConsumerDies, FailPermanently, TypeOK
  <2>2. job'[j] = job[j]
    <3>1. job' = job \/ job' = Released(w)
      BY DEF Failing, FailRetryably, ConsumerDies, FailPermanently
    <3>2. CASE JobOf(w) = j /\ HeldAs("running", w) /\ job' = Released(w)
      <4>1. job'[j] = [job[j] EXCEPT !.status = "leased"]
        BY <3>2 DEF Released, TypeOK
      <4>2. job'[j].lease = LeaseOf(w)
        BY <3>2, <4>1, RowTypes DEF JobRow, HeldAs
      <4>3. QED
        BY <1>4, <3>2, <4>2
    <3>3. CASE ~(JobOf(w) = j /\ HeldAs("running", w))
      BY <3>1, <3>3 DEF Released, TypeOK
    <3>4. QED
      BY <3>1, <3>2, <3>3
  <2>3. CarriedOn(j, s, l)
    BY <2>2 DEF RowsCarried
  <2>4. QED
    BY <1>1, <1>2, <1>4, <2>1, <2>3, CarriedStays
<1>5. QED
  BY <1>3, <1>4

\* A replayed letter becomes a message or another letter of the same lease.
LEMMA CarriedByReplay ==
  ASSUME TypeOK, Born, LeaseConsistency, RowsCarried, NEW j \in Jobs, NEW s, NEW l,
         job'[j].status = s, job'[j].lease = l, s \in {"leased", "running"},
         NEW d \in deadLetters, ReplayDeadLetter(d)
  PROVE  CarriedOn(j, s, l)'
<1>1. /\ UNCHANGED <<job, tick, worker>>
      /\ queue \subseteq queue'
      /\ deadLetters \ {d} \subseteq deadLetters'
  BY DEF ReplayDeadLetter
<1>2. CarriedOn(j, s, l)
  BY <1>1 DEF RowsCarried
<1>3. CASE d.job = j /\ d.lease = l
  <2>1. CASE NewMessage(d) \in queue'
    BY <1>3, <2>1 DEF CarriedOn, NewMessage
  <2>2. CASE [d EXCEPT !.from = "delivery"] \in deadLetters'
    <3> DEFINE f == [d EXCEPT !.from = "delivery"]
    <3>1. f.job = d.job /\ f.lease = d.lease
      BY DEF TypeOK, DeadLetter
    <3>2. QED
      BY <1>3, <2>2, <3>1 DEF CarriedOn
  <2>3. QED
    BY <2>1, <2>2 DEF ReplayDeadLetter
<1>4. CASE ~(d.job = j /\ d.lease = l)
  <2>1. CASE \E f \in deadLetters : f.job = j /\ f.lease = l
    <3>1. \E f \in deadLetters' : f.job = j /\ f.lease = l
      BY <1>1, <1>4, <2>1
    <3>2. QED
      BY <3>1 DEF CarriedOn
  <2>2. CASE ~ \E f \in deadLetters : f.job = j /\ f.lease = l
    BY <1>1, <1>2, <2>2 DEF CarriedOn, Resumes, Busy, JobOf, LeaseOf
  <2>3. QED
    BY <2>1, <2>2
<1>5. QED
  BY <1>3, <1>4

\* No Cron invocation dies with claims it has not sent: whatever else happens,
\* the carrier of each leased or running row is replaced by another.
LEMMA CarriersStay ==
  ASSUME TypeOK, Born, LeaseConsistency, RowsCarried, Limit["tick"] = 0, [Next]_vars
  PROVE  RowsCarried'
<1>1. ASSUME NEW j \in Jobs, job'[j].status \in {"leased", "running"}
      PROVE  CarriedOn(j, job[j].status, job[j].lease)'
  <2>1. PICK s, l : s = job'[j].status /\ l = job'[j].lease
    OBVIOUS
  <2>2. CarriedOn(j, s, l)'
    <3>1. CASE Environment \/ UNCHANGED vars
      BY <1>1, <2>1, <3>1, CarriedByEnvironment
    <3>2. CASE Dispatcher
      BY <1>1, <2>1, <3>2, CarriedByDispatcher
    <3>3. CASE Consumer
      <4>1. ASSUME NEW w \in Workers, NEW m \in queue, Deliver(w, m) \/ DeliverDuplicate(w, m)
            PROVE  CarriedOn(j, s, l)'
        BY <1>1, <2>1, <4>1, CarriedByDelivery
      <4>2. ASSUME NEW w \in Workers, Running(w) PROVE CarriedOn(j, s, l)'
        BY <1>1, <2>1, <4>2, CarriedByRunning
      <4>3. ASSUME NEW w \in Workers, Failing(w) PROVE CarriedOn(j, s, l)'
        BY <1>1, <2>1, <4>3, CarriedByFailure
      <4>4. QED
        BY <3>3, <4>1, <4>2, <4>3 DEF Consumer
    <3>4. CASE Replay
      <4>1. PICK d \in deadLetters : ReplayDeadLetter(d)
        BY <3>4 DEF Replay
      <4>2. QED
        BY <1>1, <2>1, <4>1, CarriedByReplay
    <3>5. QED
      BY <3>1, <3>2, <3>3, <3>4 DEF Next
  <2>3. QED
    BY <2>1, <2>2 DEF CarriedOn
<1>2. ASSUME NEW t \in Ticks, tick'[t].pc # "claimed" PROVE tick'[t].claims = {}
  <2>1. tick'[t] = tick[t] => tick'[t].claims = {}
    BY <1>2 DEF RowsCarried
  <2>2. ASSUME NEW u \in Ticks,
               SelectDueJobs(u) \/ ClaimDueJobs(u) \/ SendClaimed(u) \/ TickDies(u)
        PROVE  tick'[t].claims = {}
    <3>1. CASE t # u
      BY <2>1, <2>2, <3>1 DEF SelectDueJobs, ClaimDueJobs, SendClaimed, TickDies, TypeOK
    <3>2. CASE t = u
      <4>1. CASE SelectDueJobs(t)
        BY <4>1 DEF SelectDueJobs, TypeOK
      <4>2. CASE SendClaimed(t) \/ TickDies(t)
        BY <4>2 DEF SendClaimed, TickDies, TypeOK, IdleTick
      <4>3. CASE ClaimDueJobs(t)
        <5>1. tick'[t] = IdleTick \/ tick'[t].pc = "claimed"
          <6> DEFINE won == { k \in tick[t].candidates : StillPending(k) }
          <6>1. PICK lease \in [won -> Leases] :
                  tick' = [tick EXCEPT ![t] =
                             IF won = {} THEN IdleTick
                             ELSE [pc |-> "claimed", candidates |-> {},
                                   claims |-> { [job |-> k, lease |-> lease[k]] : k \in won }]]
            BY <4>3 DEF ClaimDueJobs
          <6>2. tick'[t] = IF won = {} THEN IdleTick
                           ELSE [pc |-> "claimed", candidates |-> {},
                                 claims |-> { [job |-> k, lease |-> lease[k]] : k \in won }]
            BY <6>1 DEF TypeOK
          <6> HIDE DEF won
          <6>3. QED
            BY <6>2
        <5>2. QED
          BY <1>2, <5>1 DEF IdleTick
      <4>4. QED
        BY <2>2, <3>2, <4>1, <4>2, <4>3
    <3>3. QED
      BY <3>1, <3>2
  <2>3. CASE ~Dispatcher
    BY <2>1, <2>3
       DEF Next, Environment, EnrollContact, ContactEvent, ContactEdited, BecomeDue, Consumer,
           Deliver, DeliverDuplicate, Take, Running, StartLeasedJob, ExecuteNode, ExecuteWait,
           ParkJobUntil, CompleteJobClosingEnrollment, CompleteJobAdvancingEnrollment, Ack,
           Failing, FailRetryably, ConsumerDies, FailPermanently, Replay, ReplayDeadLetter, vars
  <2>4. QED
    BY <2>2, <2>3 DEF Dispatcher
<1>3. QED
  BY <1>1, <1>2 DEF RowsCarried

\* What is left of an enrollment is not stranded and did not skip what it
\* stands for, in every instance in which no Cron invocation dies between its
\* claim and its sendBatch: consumers may fail and die, messages be delivered
\* twice, retries run out and dead letters be replayed, each any number of times.
THEOREM NothingEverSkipped ==
  ASSUME Limit["tick"] = 0
  PROVE  Spec => []NothingSkipped
<1> DEFINE I == TypeOK /\ Born /\ LeaseConsistency /\ TokenNotLost
           K == WorkersKnow /\ RowsCarried /\ SourceRows /\ ActedBeforeSuccess
<1>1. Init => K
  BY DEF Init, WorkersKnow, RowsCarried, SourceRows, ActedBeforeSuccess, NoJob, IdleWorker,
       IdleTick, Jobs
<1>2. I /\ I' /\ K /\ [Next]_vars => K'
  BY KnowledgeStays, CarriersStay, SourceRowsStay, ActedStays
<1>3. I /\ K => NothingSkipped
  <2> SUFFICES ASSUME I, K PROVE NothingSkipped
    OBVIOUS
  <2>1. ASSUME NEW e \in Enrollments, enrollment[e].status = "active"
        PROVE  Unfinished(e) # {}
    <3>1. Source \in Nodes /\ job[<<e, Source>>].status # "absent"
      BY <2>1, EngineAssumption DEF SourceRows
    <3>2. QED
      BY <2>1, <3>1, FurthestUnfinished
  <2>2. ASSUME NEW j \in Jobs, job[j].lease # NoLease PROVE Carried(j, job[j].lease)
    <3>1. job[j].status \in {"leased", "running"}
      BY <2>2 DEF LeaseConsistency
    <3>2. CarriedOn(j, job[j].status, job[j].lease)
      BY <3>1 DEF RowsCarried
    <3>3. QED
      BY <3>2 DEF CarriedOn, Carried, Resumes, Busy
  <2>3. ASSUME NEW w \in Workers, Busy(w, "finishing"), worker[w].branch = "timeout"
        PROVE  job[JobOf(w)].waiting
    BY <2>3 DEF WorkersKnow, Busy
  <2>4. QED
    BY <2>1, <2>2, <2>3 DEF NothingSkipped, NeverAbandoned, LeaseCarried, TimeoutAfterWait
<1>4. QED
  BY <1>1, <1>2, <1>3, BornInvariant, LeasesConsistent, TokensNotLost, PTL DEF Spec

-----------------------------------------------------------------------------
(***************************************************************************)
(* Without duplicate deliveries and replays a lease of a job is carried by *)
(* one message, claim or consumer at a time.                               *)
(***************************************************************************)

\* A step that takes no reference to a lease leaves each one with its carrier.
LEMMA ExclusiveShrinks ==
  ASSUME Exclusive, queue' \subseteq queue,
         \A t \in Ticks : tick'[t].claims \subseteq tick[t].claims,
         \A w \in Workers : worker'[w].pc # "idle" =>
                              worker[w].pc # "idle" /\ worker'[w].msg = worker[w].msg
  PROVE  Exclusive'
<1>1. /\ \A m, o \in queue' : Same(m, o) => m = o
      /\ \A t, u \in Ticks : \A c \in tick'[t].claims : c \in tick'[u].claims => t = u
      /\ \A v, w \in Workers : /\ worker'[v].pc # "idle"
                               /\ worker'[w].pc # "idle"
                               /\ Same(worker'[v].msg, worker'[w].msg)
                               => v = w
  BY DEF Exclusive
<1>2. /\ \A m \in queue', t \in Ticks : \A c \in tick'[t].claims : ~Same(m, c)
      /\ \A m \in queue', w \in Workers : worker'[w].pc # "idle" => ~Same(m, worker'[w].msg)
      /\ \A t \in Ticks, w \in Workers :
           worker'[w].pc # "idle" => \A c \in tick'[t].claims : ~Same(c, worker'[w].msg)
  BY DEF Exclusive
<1>3. QED
  BY <1>1, <1>2 DEF Exclusive, Same

\* A claim takes lease ids that nothing refers to.
LEMMA ExclusiveClaim ==
  ASSUME TypeOK, Exclusive, NEW t \in Ticks, ClaimDueJobs(t)
  PROVE  Exclusive'
<1> DEFINE won == { k \in tick[t].candidates : StillPending(k) }
<1>1. PICK lease \in [won -> Leases] :
        /\ \A k \in won : lease[k] \notin LeasesInUse(k)
        /\ tick' = [tick EXCEPT ![t] =
                      IF won = {} THEN IdleTick
                      ELSE [pc |-> "claimed", candidates |-> {},
                            claims |-> { [job |-> k, lease |-> lease[k]] : k \in won }]]
  BY DEF ClaimDueJobs
<1>2. queue' = queue /\ worker' = worker
  BY DEF ClaimDueJobs
<1> HIDE DEF won
<1>3. \A u \in Ticks : u # t => tick'[u] = tick[u]
  BY <1>1 DEF TypeOK
<1>4. \A c \in tick'[t].claims : \E k \in won : c = [job |-> k, lease |-> lease[k]]
  <2>1. tick'[t].claims \subseteq { [job |-> k, lease |-> lease[k]] : k \in won }
    BY <1>1 DEF TypeOK, IdleTick
  <2>2. QED
    BY <2>1
<1>5. ASSUME NEW c \in tick'[t].claims
      PROVE  /\ \A m \in queue : ~Same(m, c)
             /\ \A u \in Ticks : c \notin tick[u].claims
             /\ \A w \in Workers : worker[w].pc # "idle" => ~Same(c, worker[w].msg)
  <2>1. PICK k \in won : c = [job |-> k, lease |-> lease[k]]
    BY <1>4
  <2>2. c.job = k /\ c.lease = lease[k] /\ c.lease \notin LeasesInUse(k)
    BY <1>1, <2>1
  <2>3. ASSUME NEW m \in queue, Same(m, c) PROVE FALSE
    BY <2>2, <2>3 DEF LeasesInUse, Same
  <2>4. ASSUME NEW u \in Ticks, c \in tick[u].claims PROVE FALSE
    <3>1. c \in UNION { tick[v].claims : v \in Ticks }
      BY <2>4
    <3>2. QED
      BY <2>2, <3>1 DEF LeasesInUse
  <2>5. ASSUME NEW w \in Workers, worker[w].pc # "idle", Same(c, worker[w].msg) PROVE FALSE
    BY <2>2, <2>5 DEF LeasesInUse, Same
  <2>6. QED
    BY <2>3, <2>4, <2>5
<1>6. \A u, v \in Ticks : \A c \in tick'[u].claims : c \in tick'[v].claims => u = v
  <2> SUFFICES ASSUME NEW u \in Ticks, NEW v \in Ticks, NEW c \in tick'[u].claims,
                      c \in tick'[v].claims, u # v
               PROVE  FALSE
    OBVIOUS
  <2>1. CASE u = t
    BY <1>3, <1>5, <2>1
  <2>2. CASE v = t
    BY <1>3, <1>5, <2>2
  <2>3. CASE u # t /\ v # t
    BY <1>3, <2>3 DEF Exclusive
  <2>4. QED
    BY <2>1, <2>2, <2>3
<1>7. ASSUME NEW u \in Ticks, NEW c \in tick'[u].claims
      PROVE  /\ \A m \in queue : ~Same(m, c)
             /\ \A w \in Workers : worker[w].pc # "idle" => ~Same(c, worker[w].msg)
  BY <1>3, <1>5 DEF Exclusive
<1>8. QED
  BY <1>2, <1>6, <1>7 DEF Exclusive, Same

\* Sending turns claims into messages.
LEMMA ExclusiveSend ==
  ASSUME TypeOK, Exclusive, NEW t \in Ticks, SendClaimed(t)
  PROVE  Exclusive'
<1>1. /\ queue' = queue \union { NewMessage(c) : c \in tick[t].claims }
      /\ tick'[t].claims = {}
      /\ \A u \in Ticks : u # t => tick'[u] = tick[u]
      /\ worker' = worker
  BY DEF SendClaimed, TypeOK, IdleTick
<1>2. \A m \in queue' : m \in queue \/ \E c \in tick[t].claims : m = NewMessage(c)
  BY <1>1
<1>3. \A c \in tick[t].claims : NewMessage(c).job = c.job /\ NewMessage(c).lease = c.lease
  BY DEF NewMessage
<1>4. \A c, d \in tick[t].claims : Same(c, d) => c = d
  BY DEF TypeOK, TickState, Claims, Same
<1>5. ASSUME NEW m \in queue', NEW o \in queue', Same(m, o) PROVE m = o
  <2>1. CASE m \in queue /\ o \in queue
    BY <1>5, <2>1 DEF Exclusive
  <2>2. ASSUME NEW c \in tick[t].claims, m = NewMessage(c), o \in queue PROVE FALSE
    <3>1. Same(o, c)
      BY <1>3, <1>5, <2>2 DEF Same
    <3>2. QED
      BY <2>2, <3>1 DEF Exclusive
  <2>3. ASSUME NEW c \in tick[t].claims, o = NewMessage(c), m \in queue PROVE FALSE
    <3>1. Same(m, c)
      BY <1>3, <1>5, <2>3 DEF Same
    <3>2. QED
      BY <2>3, <3>1 DEF Exclusive
  <2>4. ASSUME NEW c \in tick[t].claims, NEW d \in tick[t].claims,
               m = NewMessage(c), o = NewMessage(d)
        PROVE  m = o
    <3>1. Same(c, d)
      BY <1>3, <1>5, <2>4 DEF Same
    <3>2. QED
      BY <1>4, <2>4, <3>1
  <2>5. QED
    BY <1>2, <2>1, <2>2, <2>3, <2>4
<1>6. ASSUME NEW m \in queue', NEW u \in Ticks, NEW c \in tick'[u].claims, Same(m, c)
      PROVE  FALSE
  <2>1. u # t /\ c \in tick[u].claims
    BY <1>1, <1>6
  <2>2. m \notin queue
    BY <1>6, <2>1 DEF Exclusive
  <2>3. PICK d \in tick[t].claims : m = NewMessage(d)
    BY <1>2, <2>2
  <2>4. d \in Claims /\ c \in Claims
    BY <2>1 DEF TypeOK, TickState
  <2>5. d = c
    BY <1>3, <1>6, <2>3, <2>4 DEF Same, Claims
  <2>6. QED
    BY <2>1, <2>5 DEF Exclusive
<1>7. ASSUME NEW m \in queue', NEW w \in Workers, worker[w].pc # "idle", Same(m, worker[w].msg)
      PROVE  FALSE
  <2>1. m \notin queue
    BY <1>7 DEF Exclusive
  <2>2. PICK d \in tick[t].claims : m = NewMessage(d)
    BY <1>2, <2>1
  <2>3. Same(d, worker[w].msg)
    BY <1>3, <1>7, <2>2 DEF Same
  <2>4. QED
    BY <1>7, <2>3 DEF Exclusive
<1>8. \A u \in Ticks : tick'[u].claims \subseteq tick[u].claims
  BY <1>1
<1>9. QED
  BY <1>1, <1>5, <1>6, <1>7, <1>8 DEF Exclusive, Same

\* A delivery hands the message's lease to the consumer.
LEMMA ExclusiveDelivery ==
  ASSUME TypeOK, Exclusive, NEW w \in Workers, NEW m \in queue, Deliver(w, m)
  PROVE  Exclusive'
<1>1. /\ Take(w, m)
      /\ queue' = queue \ {m}
      /\ tick' = tick
      /\ \A v \in Workers : v # w => worker'[v] = worker[v]
      /\ worker[w].pc = "idle"
  BY DEF Deliver, Take, TypeOK
<1>2. worker'[w].pc # "idle" => worker'[w].msg = m
  BY <1>1 DEF Take, ReadJob, TypeOK
<1>3. \A o \in queue' : ~Same(o, m)
  BY <1>1 DEF Exclusive
<1>4. ASSUME NEW u \in Workers, NEW v \in Workers, worker'[u].pc # "idle", worker'[v].pc # "idle",
             Same(worker'[u].msg, worker'[v].msg)
      PROVE  u = v
  <2>1. CASE u # w /\ v # w
    BY <1>1, <1>4, <2>1 DEF Exclusive
  <2>2. ASSUME NEW x \in Workers, worker[x].pc # "idle" PROVE ~Same(m, worker[x].msg)
    BY <2>2 DEF Exclusive
  <2>3. QED
    BY <1>1, <1>2, <1>4, <2>1, <2>2 DEF Same
<1>5. ASSUME NEW o \in queue', NEW v \in Workers, worker'[v].pc # "idle", Same(o, worker'[v].msg)
      PROVE  FALSE
  BY <1>1, <1>2, <1>3, <1>5 DEF Exclusive
<1>6. ASSUME NEW t \in Ticks, NEW v \in Workers, worker'[v].pc # "idle", NEW c \in tick[t].claims,
             Same(c, worker'[v].msg)
      PROVE  FALSE
  <2>1. CASE v = w
    <3>1. Same(m, c)
      BY <1>2, <1>6, <2>1 DEF Same
    <3>2. QED
      BY <3>1 DEF Exclusive
  <2>2. CASE v # w
    BY <1>1, <1>6, <2>2 DEF Exclusive
  <2>3. QED
    BY <2>1, <2>2
<1>7. QED
  BY <1>1, <1>4, <1>5, <1>6 DEF Exclusive, Same

\* A failure hands the consumer's lease back to the queue, or to a dead letter.
LEMMA ExclusiveRedelivery ==
  ASSUME TypeOK, Exclusive, NEW w \in Workers, worker[w].pc # "idle",
         Redeliver(worker[w].msg), worker' = [worker EXCEPT ![w] = IdleWorker], tick' = tick
  PROVE  Exclusive'
<1> DEFINE m == worker[w].msg
           again == [m EXCEPT !.tries = @ + 1]
<1>1. m \in Message
  BY BusyHolds
<1>2. again.job = m.job /\ again.lease = m.lease
  BY <1>1 DEF Message
<1>3. queue' \subseteq queue \union {again}
  BY DEF Redeliver
<1>4. worker'[w].pc = "idle" /\ \A v \in Workers : v # w => worker'[v] = worker[v]
  BY DEF IdleWorker, TypeOK
<1> HIDE DEF again
<1>5. \A o \in queue : ~Same(o, m)
  BY DEF Exclusive
<1>6. ASSUME NEW n \in queue', NEW o \in queue', Same(n, o) PROVE n = o
  BY <1>2, <1>3, <1>5, <1>6 DEF Exclusive, Same
<1>7. ASSUME NEW o \in queue', NEW t \in Ticks, NEW c \in tick[t].claims, Same(o, c) PROVE FALSE
  <2>1. CASE o = again
    <3>1. Same(c, m)
      BY <1>2, <1>7, <2>1 DEF Same
    <3>2. QED
      BY <3>1 DEF Exclusive
  <2>2. CASE o \in queue
    BY <1>7, <2>2 DEF Exclusive
  <2>3. QED
    BY <1>3, <2>1, <2>2
<1>8. ASSUME NEW o \in queue', NEW v \in Workers, worker'[v].pc # "idle", Same(o, worker'[v].msg)
      PROVE  FALSE
  <2>1. v # w /\ worker[v].pc # "idle" /\ worker'[v] = worker[v]
    BY <1>4, <1>8
  <2>2. CASE o = again
    <3>1. Same(m, worker[v].msg)
      BY <1>2, <1>8, <2>1, <2>2 DEF Same
    <3>2. QED
      BY <2>1, <3>1 DEF Exclusive
  <2>3. CASE o \in queue
    BY <1>8, <2>1, <2>3 DEF Exclusive
  <2>4. QED
    BY <1>3, <2>2, <2>3
<1>9. \A v \in Workers : worker'[v].pc # "idle" => worker'[v] = worker[v]
  BY <1>4
<1>10. QED
  BY <1>6, <1>7, <1>8, <1>9 DEF Exclusive, Same

\* Nothing is delivered twice and no dead letter is replayed.
DeliveredOnce == Limit["duplicate"] = 0 /\ Limit["replay"] = 0

\* The hazards that are ruled out do not strike.
LEMMA NeverSpent ==
  ASSUME TypeOK, NEW h \in Hazards, Limit[h] = 0, Spend(h)
  PROVE  FALSE
<1>1. spent[h] \in Nat /\ spent[h] < 0
  BY DEF Spend, TypeOK
<1>2. QED
  BY <1>1

\* A lease stays with one carrier.
LEMMA ExclusiveStays ==
  ASSUME TypeOK, Exclusive, DeliveredOnce, [Next]_vars
  PROVE  Exclusive'
<1>1. CASE Environment \/ UNCHANGED vars
  <2>1. UNCHANGED <<queue, tick, worker>>
    BY <1>1 DEF Environment, EnrollContact, ContactEvent, ContactEdited, BecomeDue, vars
  <2>2. QED
    BY <2>1, ExclusiveShrinks
<1>2. ASSUME NEW t \in Ticks, SelectDueJobs(t) \/ TickDies(t) PROVE Exclusive'
  <2>1. queue' = queue /\ worker' = worker
    BY <1>2 DEF SelectDueJobs, TickDies
  <2>2. \A u \in Ticks : tick'[u].claims \subseteq tick[u].claims
    BY <1>2 DEF SelectDueJobs, TickDies, IdleTick, TypeOK
  <2>3. QED
    BY <2>1, <2>2, ExclusiveShrinks
<1>3. ASSUME NEW w \in Workers, Running(w) \/ FailPermanently(w) PROVE Exclusive'
  <2>1. queue' = queue /\ tick' = tick
    BY <1>3 DEF Running, StartLeasedJob, ExecuteNode, ExecuteWait, ParkJobUntil,
         CompleteJobClosingEnrollment, CompleteJobAdvancingEnrollment, Ack, FailPermanently
  <2>2. worker[w].pc # "idle" /\ \A v \in Workers : v # w => worker'[v] = worker[v]
    BY <1>3 DEF Running, StartLeasedJob, ExecuteNode, ExecuteWait, ParkJobUntil,
         CompleteJobClosingEnrollment, CompleteJobAdvancingEnrollment, Ack, FailPermanently,
         Busy, TypeOK
  <2>3. worker'[w].pc # "idle" => worker'[w].msg = worker[w].msg
    <3>1. CASE ExecuteNode(w)
      <4> DEFINE branch == Taken(w)
      <4>1. worker'[w] = [worker[w] EXCEPT !.pc = "finishing", !.branch = branch]
        BY <3>1 DEF ExecuteNode, TypeOK
      <4> HIDE DEF branch
      <4>2. QED
        BY <4>1 DEF TypeOK, WorkerState
    <3>2. CASE Ack(w)
      BY <3>2 DEF Ack, IdleWorker, TypeOK
    <3>3. CASE ~ExecuteNode(w) /\ ~Ack(w)
      BY <1>3, <3>3 DEF Running, StartLeasedJob, ExecuteWait, ParkJobUntil,
         CompleteJobClosingEnrollment, CompleteJobAdvancingEnrollment, FailPermanently,
         TypeOK, WorkerState
    <3>4. QED
      BY <3>1, <3>2, <3>3
  <2>4. QED
    BY <2>1, <2>2, <2>3, ExclusiveShrinks
<1>4. ASSUME NEW w \in Workers, FailRetryably(w) \/ ConsumerDies(w) PROVE Exclusive'
  BY <1>4, ExclusiveRedelivery DEF FailRetryably, ConsumerDies
<1>5. ASSUME NEW w \in Workers, NEW m \in queue, DeliverDuplicate(w, m) PROVE FALSE
  BY <1>5, NeverSpent DEF DeliverDuplicate, DeliveredOnce
<1>6. ASSUME NEW d \in deadLetters, ReplayDeadLetter(d) PROVE FALSE
  BY <1>6, NeverSpent DEF ReplayDeadLetter, DeliveredOnce
<1>7. CASE Dispatcher
  BY <1>2, <1>7, ExclusiveClaim, ExclusiveSend DEF Dispatcher
<1>8. CASE Consumer
  BY <1>3, <1>4, <1>5, <1>8, ExclusiveDelivery DEF Consumer, Failing
<1>9. QED
  BY <1>1, <1>6, <1>7, <1>8 DEF Next, Replay

\* Only the consumer that carries a row's lease writes a leased or running row.
LEMMA OthersLeaveRow ==
  ASSUME TypeOK, Born, Exclusive, [Next]_vars, DeliveredOnce,
         NEW v \in Workers, worker[v].pc # "idle", HeldAs("leased", v) \/ HeldAs("running", v),
         \A w \in Workers : Running(w) \/ Failing(w) => w # v
  PROVE  job'[JobOf(v)] = job[JobOf(v)]
<1> DEFINE j == JobOf(v)
<1>1. j \in Jobs /\ job[j].lease = LeaseOf(v) /\ job[j].status \in {"leased", "running"}
  BY BusyHolds DEF HeldAs
<1>2. CASE Environment \/ UNCHANGED vars
  <2>1. ASSUME NEW e \in Enrollments, EnrollContact(e) PROVE job'[j] = job[j]
    <3>1. CASE j = <<e, Source>>
      BY <1>1, <2>1, <3>1, EngineAssumption DEF EnrollContact, Born
    <3>2. CASE j # <<e, Source>>
      BY <1>1, <2>1, <3>2 DEF EnrollContact, TypeOK
    <3>3. QED
      BY <3>1, <3>2
  <2>2. ASSUME NEW k \in Jobs, BecomeDue(k) PROVE job'[j] = job[j]
    BY <1>1, <2>2 DEF BecomeDue, TypeOK
  <2>3. QED
    BY <1>2, <2>1, <2>2 DEF Environment, ContactEvent, ContactEdited, vars
<1>3. CASE Dispatcher
  <2>1. ASSUME NEW t \in Ticks, ClaimDueJobs(t) PROVE job'[j] = job[j]
    BY <1>1, <2>1 DEF ClaimDueJobs, StillPending
  <2>2. QED
    BY <1>3, <2>1 DEF Dispatcher, SelectDueJobs, SendClaimed, TickDies
<1>4. CASE Consumer
  <2>1. ASSUME NEW w \in Workers, Running(w) \/ Failing(w) PROVE job'[j] = job[j]
    <3>1. worker[w].pc # "idle" /\ w # v
      BY <2>1 DEF Running, Failing, StartLeasedJob, ExecuteNode, ExecuteWait, ParkJobUntil,
         CompleteJobClosingEnrollment, CompleteJobAdvancingEnrollment, Ack, FailRetryably,
         ConsumerDies, FailPermanently, Busy
    <3>2. ~(JobOf(w) = j /\ LeaseOf(w) = LeaseOf(v))
      BY <3>1 DEF Exclusive, Same, JobOf, LeaseOf
    <3>3. JobOf(w) \in Jobs
      BY <3>1, BusyHolds
    <3>4. CASE CompleteJobClosingEnrollment(w)
      BY <1>1, <3>2, <3>3, <3>4 DEF CompleteJobClosingEnrollment, JobSucceeded, TypeOK
    <3>5. CASE CompleteJobAdvancingEnrollment(w)
      BY <1>1, <3>2, <3>3, <3>5 DEF CompleteJobAdvancingEnrollment, JobSucceeded, InsertJob
    <3>6. CASE StartLeasedJob(w)
      BY <1>1, <3>2, <3>3, <3>6 DEF StartLeasedJob, HeldAs, TypeOK
    <3>7. CASE ParkJobUntil(w)
      BY <1>1, <3>2, <3>3, <3>7 DEF ParkJobUntil, HeldAs, TypeOK
    <3>8. CASE FailRetryably(w) \/ FailPermanently(w)
      BY <1>1, <3>2, <3>3, <3>8 DEF FailRetryably, FailPermanently, Released, HeldAs, TypeOK
    <3>9. CASE ExecuteNode(w) \/ ExecuteWait(w) \/ Ack(w) \/ ConsumerDies(w)
      BY <3>9 DEF ExecuteNode, ExecuteWait, Ack, ConsumerDies
    <3>10. QED
      BY <2>1, <3>4, <3>5, <3>6, <3>7, <3>8, <3>9 DEF Running, Failing
  <2>2. QED
    BY <1>4, <2>1 DEF Consumer, Deliver, DeliverDuplicate, Take
<1>5. CASE Replay
  BY <1>5 DEF Replay, ReplayDeadLetter
<1>6. QED
  BY <1>2, <1>3, <1>4, <1>5 DEF Next

\* Who acts on a consumer's own behalf.
LEMMA ActsAlone ==
  ASSUME TypeOK, [Next]_vars, NEW w \in Workers, worker'[w] # worker[w]
  PROVE  \/ Running(w) \/ Failing(w)
         \/ \E m \in queue : Deliver(w, m) \/ DeliverDuplicate(w, m)
<1>1. ASSUME NEW v \in Workers, v # w, Running(v) \/ Failing(v)
      PROVE  FALSE
  BY <1>1 DEF Running, StartLeasedJob, ExecuteNode, ExecuteWait, ParkJobUntil,
     CompleteJobClosingEnrollment, CompleteJobAdvancingEnrollment, Ack, Failing, FailRetryably,
     ConsumerDies, FailPermanently, TypeOK
<1>2. ASSUME NEW v \in Workers, v # w, NEW m \in queue, Deliver(v, m) \/ DeliverDuplicate(v, m)
      PROVE  FALSE
  BY <1>2 DEF Deliver, DeliverDuplicate, Take, TypeOK
<1>3. CASE Environment \/ Dispatcher \/ Replay \/ UNCHANGED vars
  BY <1>3 DEF Environment, EnrollContact, ContactEvent, ContactEdited, BecomeDue,
       Dispatcher, SelectDueJobs, ClaimDueJobs, SendClaimed, TickDies, Replay,
       ReplayDeadLetter, vars
<1>4. QED
  BY <1>1, <1>2, <1>3 DEF Next, Consumer

\* A consumer that goes on holds its row as it did, or has just started it.
LEMMA HoldsOwnRow ==
  ASSUME TypeOK, HoldsRow, NEW v \in Workers, Running(v)
  PROVE  /\ worker'[v].pc # "found"
         /\ worker'[v].pc \in {"executing", "parking", "finishing"} => HeldAs("running", v)'
<1>1. worker[v].pc # "idle"
  BY DEF Running, StartLeasedJob, ExecuteNode, ExecuteWait, ParkJobUntil,
     CompleteJobClosingEnrollment, CompleteJobAdvancingEnrollment, Ack, Busy
<1>2. worker[v] \in WorkerState /\ JobOf(v) \in Jobs
  BY <1>1, BusyHolds DEF TypeOK
<1>3. CASE StartLeasedJob(v)
  <2>1. worker'[v].pc \in {"executing", "ack"} /\ worker'[v].msg = worker[v].msg
    BY <1>2, <1>3 DEF StartLeasedJob, AfterStart, TypeOK, WorkerState
  <2>2. job'[JobOf(v)].status = "running" /\ job'[JobOf(v)].lease = LeaseOf(v)
    <3>1. CASE worker[v].running
      <4>1. HeldAs("running", v)
        BY <1>3, <3>1 DEF StartLeasedJob, HoldsRow
      <4>2. job' = job
        BY <1>3, <4>1 DEF StartLeasedJob, HeldAs
      <4>3. QED
        BY <4>1, <4>2 DEF HeldAs
    <3>2. CASE ~worker[v].running
      <4>1. HeldAs("leased", v)
        BY <1>3, <3>2 DEF StartLeasedJob, HoldsRow
      <4>2. job'[JobOf(v)] = [job[JobOf(v)] EXCEPT !.status = "running"]
        BY <1>2, <1>3, <4>1 DEF StartLeasedJob, TypeOK
      <4>3. QED
        BY <1>2, <4>1, <4>2, RowTypes DEF HeldAs, JobRow
    <3>3. QED
      BY <3>1, <3>2
  <2>3. QED
    BY <2>1, <2>2 DEF HeldAs, JobOf, LeaseOf
<1>4. CASE ExecuteNode(v) \/ ExecuteWait(v)
  <2>1. job' = job /\ HeldAs("running", v)
    BY <1>4 DEF ExecuteNode, ExecuteWait, Busy, HoldsRow
  <2>2. worker'[v].pc \in {"finishing", "parking"} /\ worker'[v].msg = worker[v].msg
    <3> DEFINE branch == Taken(v)
    <3>1. \/ worker'[v] = [worker[v] EXCEPT !.pc = "finishing", !.branch = branch]
          \/ worker'[v] = [worker[v] EXCEPT !.pc = "parking"]
      BY <1>4 DEF ExecuteNode, ExecuteWait, TypeOK
    <3> HIDE DEF branch
    <3>2. QED
      BY <1>2, <3>1 DEF WorkerState
  <2>3. QED
    BY <2>1, <2>2 DEF HeldAs, JobOf, LeaseOf
<1>5. CASE ~StartLeasedJob(v) /\ ~ExecuteNode(v) /\ ~ExecuteWait(v)
  <2>1. worker'[v].pc \in {"ack", "idle"}
    BY <1>2, <1>5 DEF Running, ParkJobUntil, CompleteJobClosingEnrollment,
         CompleteJobAdvancingEnrollment, Ack, IdleWorker, TypeOK, WorkerState
  <2>2. QED
    BY <2>1
<1>6. QED
  BY <1>3, <1>4, <1>5

\* A consumer that runs a node holds the row as running.
LEMMA HoldsRowStays ==
  ASSUME TypeOK, Born, Exclusive, HoldsRow, DeliveredOnce, [Next]_vars
  PROVE  HoldsRow'
<1> SUFFICES ASSUME NEW v \in Workers
             PROVE  /\ worker'[v].pc = "found" =>
                         HeldAs(IF worker[v].running THEN "running" ELSE "leased", v)'
                    /\ worker'[v].pc \in {"executing", "parking", "finishing"} =>
                         HeldAs("running", v)'
  BY DEF HoldsRow, Busy
<1>1. CASE Running(v)
  BY <1>1, HoldsOwnRow
<1>2. CASE Failing(v)
  BY <1>2 DEF Failing, FailRetryably, ConsumerDies, FailPermanently, IdleWorker, TypeOK, WorkerState
<1>3. CASE ~Running(v) /\ ~Failing(v) /\ worker'[v] = worker[v]
  <2>1. ASSUME worker[v].pc # "idle", HeldAs("leased", v) \/ HeldAs("running", v)
        PROVE  job'[JobOf(v)] = job[JobOf(v)]
    BY <1>3, <2>1, OthersLeaveRow
  <2>2. QED
    BY <1>3, <2>1 DEF HoldsRow, HeldAs, Busy, JobOf, LeaseOf
<1>4. CASE ~Running(v) /\ ~Failing(v) /\ worker'[v] # worker[v]
  <2>1. PICK m \in queue : Take(v, m)
    BY <1>4, ActsAlone DEF Deliver, DeliverDuplicate
  <2>2. worker'[v] = ReadJob(m) /\ Processable(m) /\ job' = job
    BY <1>4, <2>1 DEF Take, TypeOK
  <2>3. /\ worker'[v].pc = "found"
        /\ worker'[v].msg = m
        /\ worker'[v].running = (job[m.job].status = "running")
    BY <2>2 DEF ReadJob
  <2>4. QED
    BY <2>2, <2>3 DEF Processable, HeldAs, JobOf, LeaseOf
<1>5. QED
  BY <1>1, <1>2, <1>3, <1>4

-----------------------------------------------------------------------------
\* What a row's status may be followed by.
StatusChange(from, to) ==
  \/ to = from
  \/ from = "absent" /\ to = "pending"
  \/ from = "pending" /\ to = "leased"
  \/ from = "leased" /\ to = "running"
  \/ from = "running" /\ to \in {"leased", "pending", "succeeded"}

\* A job succeeds from running only, when each lease has one carrier.
LEMMA EveryStatusChange ==
  ASSUME TypeOK, Born, LeaseConsistency, HoldsRow, [Next]_vars, NEW j \in Jobs
  PROVE  StatusChange(job[j].status, job'[j].status)
<1>1. RowChange(j) /\ job[j] \in JobRow
  BY EveryRowChange, RowTypes
<1>2. CASE Claimed(j)
  <2>1. PICK l \in Leases : job'[j] = [job[j] EXCEPT !.status = "leased", !.lease = l]
    BY <1>2 DEF Claimed
  <2>2. job'[j].status = "leased"
    BY <1>1, <2>1 DEF JobRow
  <2>3. QED
    BY <1>2, <2>2 DEF Claimed, StatusChange
<1>3. CASE CameDue(j) \/ Started(j) \/ HandedBack(j)
  BY <1>1, <1>3 DEF CameDue, Started, HandedBack, JobRow, StatusChange
<1>4. CASE job'[j] = job[j] \/ Inserted(j) \/ Parked(j)
  BY <1>4 DEF Inserted, Parked, NewJob, StatusChange
<1>5. CASE Finished(j)
  <2>1. job'[j].status = "succeeded" /\ job[j].lease # NoLease
    BY <1>1, <1>5, EngineAssumption DEF Finished, JobRow
  <2>2. job[j].status \in {"leased", "running"}
    BY <2>1 DEF LeaseConsistency
  <2>3. PICK w \in Workers : Busy(w, "finishing") /\ JobOf(w) = j
    BY <2>1, <2>2, SuccessByCompletion
       DEF Completes, CompleteJobClosingEnrollment, CompleteJobAdvancingEnrollment
  <2>4. job[j].status = "running"
    BY <2>3 DEF HoldsRow, HeldAs, Busy
  <2>5. QED
    BY <2>1, <2>4 DEF StatusChange
<1>6. QED
  BY <1>1, <1>2, <1>3, <1>4, <1>5 DEF RowChange

\* The engine's statuses are the machine's, and their changes its edges or the
\* two paths one UPDATE may take.
LEMMA EveryChangeAllowed ==
  ASSUME NEW a \in JobStatus, NEW b \in JobStatus, StatusChange(a, b)
  PROVE  /\ MachineStatus(b) \in Machine!JobStatuses \union {Machine!Absent}
         /\ \/ MachineStatus(b) = MachineStatus(a)
            \/ MachineStatus(a) = Machine!Absent /\ MachineStatus(b) = "pending"
            \/ /\ MachineStatus(a) \in Machine!JobStatuses
               /\ Machine!Allowed(MachineStatus(a), MachineStatus(b))
BY DEF JobStatus, StatusChange, MachineStatus, Machine!JobStatuses, Machine!Absent,
   Machine!Allowed, Machine!CollapsedHop, Machine!Via, Machine!CanTransitionJob,
   Machine!transitions

\* The engine implements the shared job machine, in every instance in which no
\* message is delivered twice and no dead letter replayed: each write of
\* automation_jobs.status is an edge of `transitions` or a collapsed hop.
THEOREM MachineFollowed ==
  ASSUME DeliveredOnce
  PROVE  Spec => FollowsJobMachine
<1> DEFINE I == TypeOK /\ Born /\ LeaseConsistency
           K == Exclusive /\ HoldsRow
           status == [j \in Jobs |-> MachineStatus(job[j].status)]
<1>1. Init => K
  BY DEF Init, Exclusive, HoldsRow, IdleWorker, IdleTick, Busy
<1>2. I /\ K /\ [Next]_vars => K'
  BY ExclusiveStays, HoldsRowStays
<1>3. Init => Machine!Init
  BY DEF Init, Machine!Init, NoJob, MachineStatus, Machine!Absent
<1>4. I /\ I' /\ K /\ [Next]_vars => [Machine!Next]_status
  <2> SUFFICES ASSUME I, I', K, [Next]_vars PROVE Machine!Next
    OBVIOUS
  <2>1. ASSUME NEW j \in Jobs
        PROVE  /\ status'[j] \in Machine!JobStatuses \union {Machine!Absent}
               /\ Machine!RowStep(j)
    <3>1. job[j].status \in JobStatus /\ job'[j].status \in JobStatus
      BY DEF TypeOK, JobRow
    <3>2. StatusChange(job[j].status, job'[j].status)
      BY EveryStatusChange
    <3>3. /\ status[j] = MachineStatus(job[j].status)
          /\ status'[j] = MachineStatus(job'[j].status)
      BY DEF MachineStatus
    <3>4. QED
      BY <3>1, <3>2, <3>3, EveryChangeAllowed DEF Machine!RowStep
  <2>2. status' \in [Jobs -> Machine!JobStatuses \union {Machine!Absent}]
    BY <2>1
  <2>3. QED
    BY <2>1, <2>2 DEF Machine!Next
<1>5. QED
  BY <1>1, <1>2, <1>3, <1>4, BornInvariant, LeasesConsistent, PTL
     DEF Spec, FollowsJobMachine, Machine!Spec

-----------------------------------------------------------------------------
\* A job still to be run to its end.
Live(row) == row.status \in {"pending", "leased", "running"}

\* The unfinished and the inserted rows of an enrollment change only when it
\* is created and when a job of it completes.
LEMMA OtherwiseUntouched ==
  ASSUME TypeOK, TypeOK', Born, LeaseConsistency, HoldsRow, [Next]_vars, NEW e \in Enrollments,
         ~EnrollContact(e),
         \A w \in Workers : Completes(w) => EnrollmentOf(JobOf(w)) # e
  PROVE  /\ enrollment'[e] = enrollment[e]
         /\ \A n \in Nodes : /\ Live(job'[<<e, n>>]) <=> Live(job[<<e, n>>])
                             /\ job'[<<e, n>>].status # "absent" => job[<<e, n>>].status # "absent"
<1>1. ASSUME NEW n \in Nodes
      PROVE  /\ Live(job'[<<e, n>>]) <=> Live(job[<<e, n>>])
             /\ job'[<<e, n>>].status # "absent" => job[<<e, n>>].status # "absent"
  <2> DEFINE j == <<e, n>>
  <2>1. j \in Jobs /\ EnrollmentOf(j) = e
    BY DEF Jobs, EnrollmentOf
  <2>2. StatusChange(job[j].status, job'[j].status)
    BY <2>1, EveryStatusChange
  <2>3. job[j].status = "absent" => job'[j].status = "absent"
    BY InsertedBy
  <2>4. job'[j].status = "succeeded" => job[j].status = "succeeded"
    BY <2>1, SuccessByCompletion
  <2>5. QED
    BY <2>2, <2>3, <2>4 DEF StatusChange, Live
<1>2. enrollment'[e] = enrollment[e]
  <2>1. ASSUME NEW f \in Enrollments, EnrollContact(f) PROVE enrollment'[e] = enrollment[e]
    BY <2>1 DEF EnrollContact, TypeOK
  <2>2. ASSUME NEW w \in Workers, Completes(w) PROVE enrollment'[e] = enrollment[e]
    BY <2>2 DEF Completes, CompleteJobClosingEnrollment, CompleteJobAdvancingEnrollment, TypeOK
  <2>3. QED
    BY <2>1, <2>2
       DEF Completes, Next, Environment, ContactEvent, ContactEdited, BecomeDue, Dispatcher,
           SelectDueJobs, ClaimDueJobs, SendClaimed, TickDies, Consumer, Deliver,
           DeliverDuplicate, Take, Running, StartLeasedJob, ExecuteNode, ExecuteWait,
           ParkJobUntil, Ack, Failing, FailRetryably, ConsumerDies, FailPermanently, Replay,
           ReplayDeadLetter, vars
<1>3. QED
  BY <1>1, <1>2

\* The token of one enrollment: its unfinished job is at the cursor, and no row
\* has been inserted for a node closer to the end.
Token(e) ==
  /\ Unfinished(e) = IF enrollment[e].status = "active" THEN {enrollment[e].cursor} ELSE {}
  /\ \A n \in Nodes :
       enrollment[e].status = "active" /\ job[<<e, n>>].status # "absent" =>
         Rank[enrollment[e].cursor] <= Rank[n]

\* Enrolling puts the token at the source.
LEMMA TokenAtSource ==
  ASSUME TypeOK, Born, NEW e \in Enrollments, EnrollContact(e)
  PROVE  Token(e)'
<1>1. \A n \in Nodes : <<e, n>> \in Jobs /\ job[<<e, n>>].status = "absent"
  BY DEF EnrollContact, Born, Jobs
<1>2. /\ enrollment'[e].status = "active" /\ enrollment'[e].cursor = Source
      /\ job'[<<e, Source>>] = NewJob
      /\ \A n \in Nodes : n # Source => job'[<<e, n>>] = job[<<e, n>>]
  BY <1>1, EngineAssumption DEF EnrollContact, TypeOK
<1>3. Unfinished(e)' = {Source}
  <2>1. job'[<<e, Source>>].status = "pending" /\ Source \in Nodes
    BY <1>2, EngineAssumption DEF NewJob
  <2>2. \A n \in Nodes : n # Source => job'[<<e, n>>].status = "absent"
    BY <1>1, <1>2
  <2>3. QED
    BY <2>1, <2>2 DEF Unfinished
<1>4. \A n \in Nodes : job'[<<e, n>>].status # "absent" => n = Source
  BY <1>1, <1>2
<1>5. Rank[Source] <= Rank[Source]
  BY RankFalls, EngineAssumption
<1>6. QED
  BY <1>2, <1>3, <1>4, <1>5 DEF Token

\* Completing a job moves the token along an edge, or takes it off the graph.
LEMMA TokenMoves ==
  ASSUME TypeOK, Born, HoldsRow, NEW e \in Enrollments, Token(e),
         NEW w \in Workers, Completes(w), EnrollmentOf(JobOf(w)) = e
  PROVE  Token(e)'
<1> DEFINE n == NodeOf(JobOf(w))
<1>1. /\ Busy(w, "finishing") /\ worker[w].pc # "idle"
      /\ JobOf(w) \in Jobs /\ JobOf(w) = <<e, n>> /\ n \in Nodes
  BY BusyHolds DEF Completes, CompleteJobClosingEnrollment, CompleteJobAdvancingEnrollment, Busy
<1>2. HeldAs("running", w)
  BY <1>1 DEF HoldsRow, Busy
<1>3. n \in Unfinished(e)
  BY <1>1, <1>2 DEF HeldAs, Unfinished
<1>4. enrollment[e].status = "active" /\ enrollment[e].cursor = n /\ Unfinished(e) = {n}
  BY <1>3 DEF Token
<1>5. JobSucceeded(job[<<e, n>>], LeaseOf(w)).status = "succeeded"
  BY <1>1, <1>2, RowTypes DEF HeldAs, JobSucceeded, JobRow
<1>6. \A k \in Nodes : k # n => <<e, k>> \in Jobs /\ ~Live(job[<<e, k>>])
  BY <1>4 DEF Unfinished, Live, Jobs
<1>7. CASE CompleteJobClosingEnrollment(w)
  <2>1. enrollment'[e].status = "completed"
    BY <1>7 DEF CompleteJobClosingEnrollment, TypeOK
  <2>2. /\ job'[<<e, n>>].status = "succeeded"
        /\ \A k \in Nodes : k # n => job'[<<e, k>>] = job[<<e, k>>]
    BY <1>1, <1>5, <1>6, <1>7 DEF CompleteJobClosingEnrollment, TypeOK
  <2>3. Unfinished(e)' = {}
    BY <1>6, <2>2 DEF Unfinished, Live
  <2>4. QED
    BY <2>1, <2>3 DEF Token
<1>8. CASE CompleteJobAdvancingEnrollment(w)
  <2> DEFINE m == NextNode(w)
  <2>1. m \in Nodes /\ m # NoNode
    BY <1>1, <1>8, NextNodeType DEF CompleteJobAdvancingEnrollment
  <2>2. Rank[m] \in Nat /\ Rank[n] \in Nat /\ Rank[m] < Rank[n]
    <3>1. worker[w].branch \in Branches
      BY DEF TypeOK, WorkerState
    <3>2. QED
      BY <1>1, <2>1, <3>1, RankFalls DEF FallsAlongEdges, NextNode
  <2>3. m # n
    BY <2>2
  <2>4. job[<<e, m>>].status = "absent"
    BY <1>4, <2>1, <2>2 DEF Token
  <2>5. <<e, m>> \in Jobs
    BY <2>1 DEF Jobs
  <2>6. /\ job'[<<e, n>>].status = "succeeded"
        /\ job'[<<e, m>>] = NewJob
        /\ \A k \in Nodes : k # n /\ k # m => job'[<<e, k>>] = job[<<e, k>>]
    <3>1. job'[<<e, n>>] = JobSucceeded(job[<<e, n>>], LeaseOf(w))
      BY <1>1, <1>8 DEF CompleteJobAdvancingEnrollment
    <3>2. job'[<<e, m>>] = InsertJob(job[<<e, m>>])
      BY <1>1, <1>8, <2>3, <2>5 DEF CompleteJobAdvancingEnrollment
    <3>3. \A k \in Nodes : k # n /\ k # m => job'[<<e, k>>] = job[<<e, k>>]
      BY <1>1, <1>6, <1>8 DEF CompleteJobAdvancingEnrollment
    <3>4. QED
      BY <1>5, <2>4, <3>1, <3>2, <3>3 DEF InsertJob
  <2>7. enrollment'[e].status = "active" /\ enrollment'[e].cursor = m
    <3>1. enrollment'[e] = MoveCursor(enrollment[e], m) /\ enrollment[e] \in EnrollmentRow
      BY <1>8 DEF CompleteJobAdvancingEnrollment, TypeOK
    <3>2. QED
      BY <1>4, <3>1 DEF MoveCursor, EnrollmentRow
  <2> HIDE DEF m
  <2>8. Unfinished(e)' = {m}
    BY <1>6, <2>1, <2>6 DEF Unfinished, Live, NewJob
  <2>9. ASSUME NEW k \in Nodes, job'[<<e, k>>].status # "absent" PROVE Rank[m] <= Rank[k]
    <3>1. CASE k = m
      BY <2>2, <3>1
    <3>2. CASE k = n
      BY <2>2, <3>2
    <3>3. CASE k # m /\ k # n
      <4>1. Rank[n] <= Rank[k] /\ Rank[k] \in Nat
        BY <1>4, <2>6, <2>9, <3>3, RankFalls DEF Token
      <4>2. QED
        BY <2>2, <4>1
    <3>4. QED
      BY <3>1, <3>2, <3>3
  <2>10. QED
    BY <2>7, <2>8, <2>9 DEF Token
<1>9. QED
  BY <1>7, <1>8 DEF Completes

\* An enrollment is one token on the graph, in every instance in which no
\* message is delivered twice and no dead letter replayed: the one unfinished
\* job of an active enrollment is at current_node_id, whatever fails or is lost.
THEOREM AlwaysOneToken ==
  ASSUME DeliveredOnce
  PROVE  Spec => []OneToken
<1> DEFINE I == TypeOK /\ Born /\ LeaseConsistency
           K == Exclusive /\ HoldsRow
           L == \A e \in Enrollments : Token(e)
<1>1. Init => K /\ L
  <2>1. Init => K
    BY DEF Init, Exclusive, HoldsRow, IdleWorker, IdleTick, Busy
  <2>2. Init => L
    BY DEF Init, Token, Unfinished, NoJob, Jobs
  <2>3. QED
    BY <2>1, <2>2
<1>2. I /\ K /\ [Next]_vars => K'
  BY ExclusiveStays, HoldsRowStays
<1>3. I /\ I' /\ K /\ L /\ [Next]_vars => L'
  <2> SUFFICES ASSUME I, I', K, L, [Next]_vars, NEW e \in Enrollments PROVE Token(e)'
    OBVIOUS
  <2>1. CASE EnrollContact(e)
    BY <2>1, TokenAtSource
  <2>2. ASSUME NEW w \in Workers, Completes(w), EnrollmentOf(JobOf(w)) = e PROVE Token(e)'
    BY <2>2, TokenMoves
  <2>3. CASE ~EnrollContact(e) /\ \A w \in Workers : Completes(w) => EnrollmentOf(JobOf(w)) # e
    <3>1. /\ enrollment'[e] = enrollment[e]
          /\ \A n \in Nodes :
               /\ Live(job'[<<e, n>>]) <=> Live(job[<<e, n>>])
               /\ job'[<<e, n>>].status # "absent" => job[<<e, n>>].status # "absent"
      BY <2>3, OtherwiseUntouched
    <3>2. Unfinished(e)' = Unfinished(e)
      BY <3>1 DEF Unfinished, Live
    <3>3. Token(e)
      OBVIOUS
    <3>4. QED
      BY <3>1, <3>2, <3>3 DEF Token
  <2>4. QED
    BY <2>1, <2>2, <2>3
<1>4. L => OneToken
  BY DEF Token, OneToken
<1>5. QED
  BY <1>1, <1>2, <1>3, <1>4, BornInvariant, LeasesConsistent, PTL DEF Spec
=============================================================================
