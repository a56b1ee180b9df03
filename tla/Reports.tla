------------------------------ MODULE Reports ------------------------------
(***************************************************************************)
(* The reports over what a workspace did in a range of days.               *)
(*                                                                         *)
(*   packages/database/src/reports/repository.ts   their queries           *)
(*   apps/server/src/reports/*-report.ts           what they return        *)
(*                                                                         *)
(* A report is several queries sent at once, which D1 answers one by one   *)
(* ("Promise.all, which is NOT the same atomic unit"): the totals, and the *)
(* same rows by day, owner, source, automation or page.  Of each report    *)
(* two queries are followed, in either order.                              *)
(* The tables are the columns the queries read; a time is its day, Never   *)
(* for NULL.  A breakdown has every key there can be, with zeros where     *)
(* GROUP BY returns no row; ORDER BY and LIMIT are left out.               *)
(***************************************************************************)
EXTENDS Naturals, FiniteSets, FiniteSetsExt

CONSTANTS
  RowIds,     \* numbers of the rows a category may have
  LastDay,    \* bound: the days that pass
  Gone,      \* the row of an id that is not in use
  Null      \* NULL in a column that names somebody or something

ASSUME ReportsAssumption == LastDay \in Nat \ {0} /\ RowIds \subseteq Nat \ {0} /\ IsFiniteSet(RowIds)

Days == 1 .. LastDay
Never == 0
When == 0 .. LastDay

Owners == {"member", "unassigned"}
Automations == {"welcome", "onboarding"}
Currencies == {"JPY", "USD"}
SendSources == {"automation", "other"}
Visitors == {"browser", Null}
Persons == {"contact1", "contact2", Null}
Urls == {"/", "/pricing", Null}

ContactRecord == [created : Days, status : {"active", "archived"}, archived : When, tagged : BOOLEAN]

DealRecord == [created : Days, status : {"open", "won", "lost"}, won : When, lost : When,
            owner : Owners, currency : Currencies, archived : BOOLEAN]

(* Each delivery with its events: two of one type are two rows to join.    *)
ProviderEvents == {<<"delivered", 1>>, <<"delivered", 2>>, <<"bounced", 1>>}
DeliveryEvents == {<<"accepted", 1>>} \cup ProviderEvents
DeliveryRecord == [created : Days, status : {"queued", "accepted", "delivered", "failed"},
                source : SendSources, events : SUBSET DeliveryEvents]

(* Each enrollment with the days its deliveries were created.              *)
EnrollmentRecord == [automation : Automations, entered : Days, completed : When, sends : SUBSET Days]

PageView == [table : {"event"}, day : Days, visitor : Visitors, contact : Persons, url : Urls]
Submission == [table : {"submission"}, day : Days, contact : Persons]

Categories == {"contacts", "deals", "emails", "automations", "site"}

VARIABLES
  category,   \* the report that is looked at
  today,
  table,      \* RowIds -> the row of the category's table, or Gone
  report      \* the report that runs: its range and currency, query -> answer,
              \* and torn: whether a row was written since it was asked for

reportVars == <<category, today, table, report>>

NoReport == [asked |-> FALSE, range |-> <<1, LastDay>>, currency |-> "JPY",
             answers |-> <<>>, torn |-> FALSE]

Queries ==
  CASE category = "contacts" -> {"summary", "trend", "topTags"}
    [] category = "deals" -> {"summary", "trend", "owners"}
    [] category = "emails" -> {"summary", "trend", "sources"}
    [] category = "automations" -> {"summary", "trend"}
    [] category = "site" -> {"summary", "formSummary", "trend", "topPages"}

ReportTypeOK ==
  /\ category \in Categories
  /\ today \in Days
  /\ \A r \in RowIds : table[r] \in
       {Gone} \cup CASE category = "contacts" -> ContactRecord
                      [] category = "deals" -> DealRecord
                      [] category = "emails" -> DeliveryRecord
                      [] category = "automations" -> EnrollmentRecord
                      [] category = "site" -> PageView \cup Submission
  /\ report.range \in Days \X Days /\ report.range[1] <= report.range[2]
  /\ report.currency \in Currencies
  /\ DOMAIN report.answers \subseteq Queries
  /\ {report.asked, report.torn} \subseteq BOOLEAN

ReportInit ==
  /\ category \in Categories
  /\ today = 1
  /\ table = [r \in RowIds |-> Gone]
  /\ report = NoReport

-----------------------------------------------------------------------------
(* What writes the rows.  A write while a report runs tears it.            *)

RowUsed(r) == table[r] # Gone
WriteRow(r, row) ==
  /\ table' = [table EXCEPT ![r] = row]
  /\ report' = [report EXCEPT !.torn = report.asked]
  /\ UNCHANGED <<category, today>>

(* Ids are taken in order: which one is free makes no difference.          *)
InsertRow(r, row) == ~RowUsed(r) /\ (\A s \in RowIds : s < r => RowUsed(s)) /\ WriteRow(r, row)

AddContact(r, tagged) ==
  InsertRow(r, [created |-> today, status |-> "active", archived |-> Never, tagged |-> tagged])

(* From the list, contacts that are archived already are archived again.   *)
SetContactArchived(r, archived) ==
  /\ RowUsed(r)
  /\ WriteRow(r, [table[r] EXCEPT !.status = IF archived THEN "archived" ELSE "active",
                                  !.archived = IF archived THEN today ELSE Never])

CreateDeal(r, status, owner, currency) ==
  InsertRow(r, [created |-> today, status |-> status, owner |-> owner, currency |-> currency,
             won |-> IF status = "won" THEN today ELSE Never,
             lost |-> IF status = "lost" THEN today ELSE Never, archived |-> FALSE])

(* The time a deal was won is kept while it is won, and else is NULL.      *)
UpdateDeal_KeepsTimes(r, status, owner, currency) ==
  /\ RowUsed(r) /\ ~table[r].archived
  /\ WriteRow(r, [table[r] EXCEPT
       !.status = status, !.owner = owner, !.currency = currency,
       !.won = IF status = "won" THEN today ELSE @,
       !.lost = IF status = "lost" THEN today ELSE @])
UpdateDeal(r, status, owner, currency) ==
  /\ RowUsed(r) /\ ~table[r].archived
  /\ WriteRow(r, [table[r] EXCEPT
       !.status = status, !.owner = owner, !.currency = currency,
       !.won = IF status # "won" THEN Never ELSE IF table[r].status = "won" THEN @ ELSE today,
       !.lost = IF status # "lost" THEN Never ELSE IF table[r].status = "lost" THEN @ ELSE today])

ArchiveDealRow(r) == RowUsed(r) /\ ~table[r].archived /\ WriteRow(r, [table[r] EXCEPT !.archived = TRUE])

CreateDelivery(r, source) ==
  InsertRow(r, [created |-> today, status |-> "queued", source |-> source, events |-> {}])
AcceptDelivery(r) ==
  /\ RowUsed(r) /\ table[r].status = "queued"
  /\ WriteRow(r, [table[r] EXCEPT !.status = "accepted", !.events = {<<"accepted", 1>>}])

(* No attempt was accepted; the delivery counts as sent all the same.      *)
FailDelivery(r) ==
  RowUsed(r) /\ table[r].status = "queued" /\ WriteRow(r, [table[r] EXCEPT !.status = "failed"])

(* A provider event is stored and sets the status, whatever it was.  Each  *)
(* has an id of its own, so two of a type are two rows.                    *)
ApplyDeliveryEvent(r, event) ==
  /\ RowUsed(r) /\ <<"accepted", 1>> \in table[r].events
  /\ WriteRow(r, [table[r] EXCEPT !.status = IF event[1] = "delivered" THEN "delivered" ELSE "failed",
                              !.events = @ \cup {event}])

Enroll(r, automation) ==
  InsertRow(r, [automation |-> automation, entered |-> today, completed |-> Never, sends |-> {}])
SendStep(r) ==
  RowUsed(r) /\ table[r].completed = Never /\ WriteRow(r, [table[r] EXCEPT !.sends = @ \cup {today}])
CompleteEnrollment(r) ==
  RowUsed(r) /\ table[r].completed = Never /\ WriteRow(r, [table[r] EXCEPT !.completed = today])

(* A page view names a visitor, a contact or both.                         *)
RecordPageView(r, visitor, contact, url) ==
  /\ visitor # Null \/ contact # Null
  /\ InsertRow(r, [table |-> "event", day |-> today, visitor |-> visitor, contact |-> contact,
                url |-> url])
SubmitForm(r, contact) == InsertRow(r, [table |-> "submission", day |-> today, contact |-> contact])

DayPasses ==
  /\ ~report.asked /\ today < LastDay
  /\ today' = today + 1
  /\ UNCHANGED <<category, table, report>>

-----------------------------------------------------------------------------
(* The queries.  Each counts the rows that fall on certain days: those of  *)
(* the range, or one of them for a trend.                                  *)

Where(P(_)) == {r \in RowIds : RowUsed(r) /\ P(r)}
DaysOf(range) == range[1] .. range[2]

ContactCounts(days) ==
  [added    |-> Cardinality(Where(LAMBDA r : table[r].created \in days)),
   archived |-> Cardinality(Where(LAMBDA r : table[r].archived \in days))]

ContactsSummary(days) ==
  LET counts == ContactCounts(days)
  IN [added |-> counts.added, archived |-> counts.archived,
      active |-> Cardinality(Where(LAMBDA r : table[r].status = "active"))]

ActiveTagged == Where(LAMBDA r : table[r].status = "active" /\ table[r].tagged)

(* A deal is worth the number of its row.                                  *)
DealCounts(days, deals) ==
  [created |-> Cardinality({r \in deals : table[r].created \in days}),
   won     |-> Cardinality({r \in deals : table[r].won \in days}),
   lost    |-> Cardinality({r \in deals : table[r].lost \in days})]

DealsSummary(days, deals) ==
  LET counts == DealCounts(days, deals)
  IN [created |-> counts.created, won |-> counts.won, lost |-> counts.lost,
      wonValue  |-> SumSet({r \in deals : table[r].won \in days}),
      openCount |-> Cardinality({r \in deals : table[r].status = "open"})]

DealsOf(currency) == Where(LAMBDA r : ~table[r].archived /\ table[r].currency = currency)

(* LEFT JOIN repeats a row for each row that matches it, COUNT(DISTINCT    *)
(* ...) counts it once.                                                    *)
LeftJoin(R, column) ==
  UNION {{r} \X (IF table[r][column] = {} THEN {Null} ELSE table[r][column]) : r \in R}
CountDistinct(joined) == Cardinality({j[1] : j \in joined})

EmailCounts(days, R) ==
  LET sent == {r \in R : table[r].status # "queued" /\ table[r].created \in days}
      joined == LeftJoin(sent, "events")
      Event(j, type) == j[2] # Null /\ j[2][1] = type
  IN [sends     |-> CountDistinct(joined),
      delivered |-> CountDistinct({j \in joined : table[j[1]].status = "delivered"
                                                  \/ Event(j, "delivered")}),
      bounces   |-> CountDistinct({j \in joined : Event(j, "bounced")})]

EnrollmentCounts(days, R) ==
  LET joined == LeftJoin(R, "sends")
  IN [entries     |-> CountDistinct({j \in joined : table[j[1]].entered \in days}),
      completions |-> CountDistinct({j \in joined : table[j[1]].completed \in days}),
      sends       |-> Cardinality({j \in joined : j[2] \in days})]

(* One figure of a breakdown, added up over its keys.                      *)
SumOf(figures, f, keys) == MapThenSumSet(LAMBDA k : figures[k][f], keys)

(* The server adds the automations up.  The query leaves out those that    *)
(* are archived, a status that nothing sets.                               *)
AutomationTotals(days) ==
  LET of == [a \in Automations |->
              EnrollmentCounts(days, Where(LAMBDA r : table[r].automation = a))]
  IN [f \in {"entries", "completions", "sends"} |-> SumOf(of, f, Automations)]

EnrollmentTrend(days) ==
  [entries     |-> Cardinality(Where(LAMBDA r : table[r].entered \in days)),
   completions |-> Cardinality(Where(LAMBDA r : table[r].completed \in days))]

(* COALESCE(visitor, contact): who has no visitor id is told apart by it.  *)
PageCounts(days, views) ==
  LET seen == {r \in views : table[r].day \in days}
  IN [pageViews      |-> Cardinality(seen),
      uniqueVisitors |-> Cardinality({IF table[r].visitor # Null THEN table[r].visitor
                                      ELSE table[r].contact : r \in seen}),
      identified     |-> Cardinality({table[r].contact : r \in seen} \ {Null})]

PageViews == Where(LAMBDA r : table[r].table = "event")
Submitted(days) == Where(LAMBDA r : table[r].table = "submission" /\ table[r].day \in days)

FormSummary(days) ==
  [submissions |-> Cardinality(Submitted(days)),
   submitting  |-> Cardinality({table[r].contact : r \in Submitted(days)} \ {Null})]

SiteTrend(days) ==
  [pageViews   |-> Cardinality({r \in PageViews : table[r].day \in days}),
   submissions |-> Cardinality(Submitted(days))]

(* What a query answers, for the days of the range.                        *)
ByDay(days, Counts(_)) == [d \in days |-> Counts({d})]

ContactsAnswer(q, days) ==
  CASE q = "summary" -> ContactsSummary(days)
    [] q = "trend" -> ByDay(days, ContactCounts)
    [] q = "topTags" -> [tag \in {"tag"} |-> [active |-> Cardinality(ActiveTagged)]]

DealsAnswer(q, days) ==
  LET deals == DealsOf(report.currency)
  IN CASE q = "summary" -> DealsSummary(days, deals)
       [] q = "trend" -> ByDay(days, LAMBDA on : DealCounts(on, deals))
       [] q = "owners" ->
            [o \in Owners |-> DealsSummary(days, {r \in deals : table[r].owner = o})]

EmailsAnswer(q, days) ==
  CASE q = "summary" -> EmailCounts(days, Where(LAMBDA r : TRUE))
    [] q = "trend" -> ByDay(days, LAMBDA on : EmailCounts(on, Where(LAMBDA r : TRUE)))
    [] q = "sources" ->
         [s \in SendSources |-> EmailCounts(days, Where(LAMBDA r : table[r].source = s))]

AutomationsAnswer(q, days) ==
  IF q = "summary" THEN AutomationTotals(days) ELSE ByDay(days, EnrollmentTrend)

SiteAnswer(q, days) ==
  CASE q = "summary" -> PageCounts(days, PageViews)
    [] q = "formSummary" -> FormSummary(days)
    [] q = "trend" -> ByDay(days, SiteTrend)
    [] q = "topPages" ->
         [u \in Urls \ {Null} |-> PageCounts(days, {r \in PageViews : table[r].url = u})]

AnswerTo(q, days) ==
  CASE category = "contacts" -> ContactsAnswer(q, days)
    [] category = "deals" -> DealsAnswer(q, days)
    [] category = "emails" -> EmailsAnswer(q, days)
    [] category = "automations" -> AutomationsAnswer(q, days)
    [] category = "site" -> SiteAnswer(q, days)

(* A report on deals is over one currency: the one that is requested if a  *)
(* deal has it, or the first that one has.                                 *)
CurrencyShown(requested) ==
  IF category # "deals" THEN "JPY"
  ELSE IF DealsOf(requested) # {} THEN requested
  ELSE IF DealsOf("JPY") = {} /\ DealsOf("USD") # {} THEN "USD" ELSE "JPY"

AskReport(range, requested) ==
  /\ ~report.asked
  /\ report' = [asked |-> TRUE, range |-> range, currency |-> CurrencyShown(requested),
                answers |-> <<>>, torn |-> FALSE]
  /\ UNCHANGED <<category, today, table>>

(* A query is answered from the rows as they are.  Two are enough to see.  *)
AnswerQuery(q) ==
  /\ report.asked /\ q \notin DOMAIN report.answers
  /\ Cardinality(DOMAIN report.answers) < 2
  /\ report' = [report EXCEPT !.answers =
       [p \in DOMAIN @ \cup {q} |->
          IF p = q THEN AnswerTo(q, DaysOf(report.range)) ELSE @[p]]]
  /\ UNCHANGED <<category, today, table>>

ReportShown ==
  /\ Cardinality(DOMAIN report.answers) = 2
  /\ report' = NoReport
  /\ UNCHANGED <<category, today, table>>

WriteNext ==
  \E r \in RowIds :
    \/ /\ category = "contacts"
       /\ \E flag \in BOOLEAN : AddContact(r, flag) \/ SetContactArchived(r, flag)
    \/ /\ category = "deals"
       /\ \/ \E s \in {"open", "won", "lost"}, o \in Owners :
               \E c \in Currencies : CreateDeal(r, s, o, c) \/ UpdateDeal(r, s, o, c)
          \/ ArchiveDealRow(r)
    \/ /\ category = "emails"
       /\ \/ \E s \in SendSources : CreateDelivery(r, s)
          \/ AcceptDelivery(r) \/ FailDelivery(r)
          \/ \E event \in ProviderEvents : ApplyDeliveryEvent(r, event)
    \/ /\ category = "automations"
       /\ (\E a \in Automations : Enroll(r, a)) \/ SendStep(r) \/ CompleteEnrollment(r)
    \/ /\ category = "site"
       /\ \/ \E v \in Visitors, p \in Persons, u \in Urls : RecordPageView(r, v, p, u)
          \/ \E p \in Persons : SubmitForm(r, p)

ReportNext ==
  \/ WriteNext \/ DayPasses
  \/ \E from, to \in Days, c \in Currencies : from <= to /\ AskReport(<<from, to>>, c)
  \/ \E q \in Queries : AnswerQuery(q)
  \/ ReportShown

ReportSpec == ReportInit /\ [][ReportNext]_reportVars

-----------------------------------------------------------------------------
(* The figures that add up over a breakdown; a contact may bear many tags, *)
(* and a visitor or a contact be counted on several pages and days.        *)
Additive == {"added", "archived", "active", "created", "won", "lost", "wonValue", "openCount",
             "sends", "delivered", "bounces", "entries", "completions", "pageViews", "submissions"}

Totals == {"summary", "formSummary"}
Partial == {"topTags", "topPages"}

(* The days, owners, sources or automations of a report add up to its      *)
(* totals, and no tag or page exceeds them, unless a row was written       *)
(* between the queries.  (repository.ts runBatch)                          *)
BreakdownsAddUp ==
  LET answers == report.answers
  IN ~report.torn =>
       \A t \in DOMAIN answers \cap Totals, b \in DOMAIN answers \ Totals :
         \A f \in DOMAIN answers[t] :
           LET parts == {k \in DOMAIN answers[b] : f \in DOMAIN answers[b][k]}
           IN parts # {} =>
                IF b \in Partial THEN \A k \in parts : answers[b][k][f] <= answers[t][f]
                ELSE f \in Additive => SumOf(answers[b], f, parts) = answers[t][f]

(* Torn or not, totals count nothing twice: a deal that was reopened is    *)
(* not both won and lost, and a delivery with many events is one send, so  *)
(* that the rates of wins, deliveries and bounces stay within 100 %.  The  *)
(* rates of completions and of identified visitors need not: an enrollment *)
(* may be completed on other days than it was entered on, and the pages of *)
(* one visitor may be viewed by two contacts.  (shared.ts rate,            *)
(* site-report.ts:36)                                                      *)
CountedOnce ==
  "summary" \in DOMAIN report.answers =>
    LET s == report.answers["summary"]
        n == Cardinality(RowIds)
    IN CASE category = "contacts" -> s.added <= n /\ s.archived + s.active <= n
         [] category = "deals" -> s.won + s.lost + s.openCount <= n
         [] category = "emails" -> s.sends <= n /\ s.delivered <= s.sends /\ s.bounces <= s.sends
         [] category = "automations" -> s.entries <= n /\ s.completions <= n
         [] category = "site" -> s.uniqueVisitors <= s.pageViews /\ s.identified <= s.pageViews

ReportsAddUp == BreakdownsAddUp /\ CountedOnce

=============================================================================
