---------------------------- MODULE Maintenance ----------------------------
(***************************************************************************)
(* The daily Cron: old contact events are copied to R2 and marked, the     *)
(* delivery events of the day before are rolled up.                        *)
(*                                                                         *)
(*   apps/server/src/platform/maintenance-worker.ts              the run   *)
(*   packages/database/src/platform/maintenance-repository.ts    the SQL   *)
(*                                                                         *)
(* What else a run does is an action of the module it is about: the sweep  *)
(* of scores is ReconcileContactScores in ContactRecords, the purge of     *)
(* keys is PurgeExpiredIdempotencyKeys in WorkspaceAccess.                 *)
(***************************************************************************)
EXTENDS Naturals, FiniteSets, FiniteSetsExt

CONSTANTS
  OldEvents,     \* contact events, numbered by their occurredAt
  ArchiveLimit,  \* rows a run archives at most (1000 in the code)
  ChunkSize,     \* rows of a batch of marks (50 in the code)
  LastMetricDay, \* bound: days of the calendar
  MaxOnDay       \* bound: delivery events of a day

ASSUME MaintenanceAssumption ==
  /\ OldEvents \subseteq Nat /\ IsFiniteSet(OldEvents)
  /\ ArchiveLimit \in Nat \ {0} /\ ChunkSize \in Nat \ {0}
  /\ LastMetricDay \in Nat /\ MaxOnDay \in Nat

MetricDays == 0 .. LastMetricDay
NoMetric == MaxOnDay + 1      \* a day without a row in daily_metrics

VARIABLES
  expired,      \* the events older than the retention
  marked,     \* the events with archivedAt set
  archives,     \* the objects in R2, each the events it holds
  daily,        \* the run: what it is about to do, the events still to mark
  calendar,     \* the current day
  ranOn,        \* the day of the last run
  delivered,    \* MetricDays -> delivery events that occurred on the day
  metric,       \* MetricDays -> their number as rolled up
  late,         \* the days an event was recorded for after they were over (history)
  incomplete    \* the days whose run did not come to its end on the day (history)

maintenanceVars ==
  <<expired, marked, archives, daily, calendar, ranOn, delivered, metric, late, incomplete>>

DailySteps == {"idle", "find", "put", "mark", "rollup"}

MaintenanceTypeOK ==
  /\ expired \subseteq OldEvents /\ marked \subseteq expired
  /\ archives \subseteq SUBSET OldEvents
  /\ daily \in [step : DailySteps, rows : SUBSET OldEvents]
  /\ calendar \in MetricDays /\ ranOn \in MetricDays
  /\ delivered \in [MetricDays -> 0 .. MaxOnDay]
  /\ metric \in [MetricDays -> 0 .. NoMetric]
  /\ late \subseteq MetricDays /\ incomplete \subseteq MetricDays

MaintenanceInit ==
  /\ expired = {} /\ marked = {} /\ archives = {}
  /\ daily = [step |-> "idle", rows |-> {}]
  /\ calendar = 0 /\ ranOn = 0
  /\ delivered = [d \in MetricDays |-> 0]
  /\ metric = [d \in MetricDays |-> NoMetric]
  /\ late = {} /\ incomplete = {}

metricVars == <<calendar, ranOn, delivered, metric, late>>
calendarVars == <<metricVars, incomplete>>
DailyAt(step) == daily.step = step
DailyGo(step, rows) == daily' = [step |-> step, rows |-> rows]

(* The oldest Size of a set of rows.                                       *)
OldestOf(S, Size) == {e \in S : Cardinality({f \in S : f <= e}) <= Size}

(* Time passes, an event falls out of the retention, a delivery event is   *)
(* recorded: for today, or for the time its provider says it occurred at.  *)
NextDay ==
  /\ calendar < LastMetricDay /\ calendar' = calendar + 1
  /\ incomplete' = IF ranOn = calendar /\ DailyAt("idle") THEN incomplete
                   ELSE incomplete \cup {calendar}
  /\ UNCHANGED <<expired, marked, archives, daily, ranOn, delivered, metric, late>>

Expire ==
  /\ \E e \in OldEvents \ expired : expired' = expired \cup {e}
  /\ UNCHANGED <<marked, archives, daily, calendarVars>>

RecordDeliveryEvent ==
  /\ \E day \in 0 .. calendar :
       /\ delivered[day] < MaxOnDay
       /\ delivered' = [delivered EXCEPT ![day] = @ + 1]
       /\ late' = IF day < calendar THEN late \cup {day} ELSE late
  /\ UNCHANGED <<expired, marked, archives, daily, calendar, ranOn, metric, incomplete>>

(* One run a day.                                                          *)
StartDaily ==
  /\ DailyAt("idle") /\ ranOn < calendar
  /\ ranOn' = calendar /\ DailyGo("find", {})
  /\ UNCHANGED <<expired, marked, archives, calendar, delivered, metric, late, incomplete>>

FindEventsToArchive_Returns ==
  LET rows == OldestOf(expired \ marked, ArchiveLimit)
  IN  /\ DailyAt("find")
      /\ DailyGo(IF rows = {} THEN "idle" ELSE "put", rows)
      /\ UNCHANGED <<expired, marked, archives, calendarVars>>

FindEventsToArchive ==
  LET rows == OldestOf(expired \ marked, ArchiveLimit)
  IN  /\ DailyAt("find")
      /\ DailyGo(IF rows = {} THEN "rollup" ELSE "put", rows)
      /\ UNCHANGED <<expired, marked, archives, calendarVars>>

PutArchive ==
  /\ DailyAt("put")
  /\ archives' = archives \cup {daily.rows}
  /\ DailyGo("mark", daily.rows)
  /\ UNCHANGED <<expired, marked, calendarVars>>

ArchiveEvents ==
  LET chunk == OldestOf(daily.rows, ChunkSize)
      left == daily.rows \ chunk
  IN  /\ DailyAt("mark")
      /\ marked' = marked \cup chunk
      /\ DailyGo(IF left = {} THEN "rollup" ELSE "mark", left)
      /\ UNCHANGED <<expired, archives, calendarVars>>

(* An upsert of yesterday's counts; a day without events gets no row.      *)
RollupDailyMetrics ==
  LET yesterday == calendar - 1
  IN  /\ DailyAt("rollup")
      /\ metric' = IF delivered[yesterday] = 0 THEN metric
                   ELSE [metric EXCEPT ![yesterday] = delivered[yesterday]]
      /\ DailyGo("idle", {})
      /\ UNCHANGED <<expired, marked, archives, calendar, ranOn, delivered, late, incomplete>>

DailyDies ==
  /\ ~DailyAt("idle") /\ DailyGo("idle", {})
  /\ incomplete' = incomplete \cup {ranOn}
  /\ UNCHANGED <<expired, marked, archives, metricVars>>

MaintenanceNext ==
  \/ NextDay \/ Expire \/ RecordDeliveryEvent
  \/ StartDaily \/ FindEventsToArchive \/ PutArchive \/ ArchiveEvents
  \/ RollupDailyMetrics \/ DailyDies

MaintenanceSpec == MaintenanceInit /\ [][MaintenanceNext]_maintenanceVars

-----------------------------------------------------------------------------

(* Wherever a run dies, an event that is marked is in an object, and no    *)
(* run archives more than its limit.  (maintenance-worker.ts, put before   *)
(* the marks)                                                              *)
ArchivedIsKept ==
  /\ marked \subseteq UNION archives
  /\ \A object \in archives : Cardinality(object) <= ArchiveLimit

RunCompleted(d) ==
  d \notin incomplete /\ (d < calendar \/ (d = ranOn /\ DailyAt("idle")))

(* Unless an event was recorded for it later, a day that has a row is      *)
(* rolled up with all its events, and a day with events has a row once the *)
(* run of the day after it has come to its end within that day.  A run     *)
(* that dies before the rollup, or reaches it after midnight, leaves the   *)
(* day without a row for good: no run looks back further than yesterday.   *)
(* (maintenance-worker.ts yesterday, maintenance-repository.ts             *)
(* rollupDailyMetrics)                                                     *)
MetricsAddUp ==
  \A day \in MetricDays \ late :
    /\ metric[day] # NoMetric => metric[day] = delivered[day]
    /\ RunCompleted(day + 1) /\ delivered[day] > 0 => metric[day] # NoMetric

DailySound == ArchivedIsKept /\ MetricsAddUp

=============================================================================
