------------------------ MODULE AutomationPublishing ------------------------
(***************************************************************************)
(* One automation from draft to enrollment: editors save and publish its   *)
(* draft, administrators pause it, contact events, administrators and the  *)
(* Cron scan for inactive contacts enroll contacts into what is published. *)
(*                                                                         *)
(*   apps/server/src/automations/router.ts        saveDraft, publish, ...  *)
(*   apps/server/src/automations/enrollment.ts    enroll*                  *)
(*   apps/server/src/contacts/event-service.ts    recordContactEvent       *)
(*   packages/database/src/automations/repository.ts  AutomationRepository *)
(*                                                                         *)
(* Requests run concurrently; each await of a request is a step boundary,  *)
(* a D1 batch is one step.                                                 *)
(***************************************************************************)
EXTENDS Naturals, FiniteSets

CONSTANTS
  Graphs,          \* the graphs editors save
  ValidGraphs,     \* those validateAutomation finds no issue in
  MailGraphs,      \* those with a send_email node
  SourceNode,      \* SourceNode[g]: id of the first source node of g
  NoSource,        \* g has none
  EventType,       \* EventType[g]: automationTrigger(...).eventType
  Resource,        \* Resource[g]: automationTrigger(...).resourceId
  Reentry,         \* Reentry[g]: source.config.reentry
  NoType,          \* a NULL event_type: the source is contact_inactive
  NoResource,      \* a NULL resource_id
  NoGraph,         \* the graph of a version that does not exist
  MaxVersion,      \* bound on the versions of the automation
  Publishers,      \* publish requests that may overlap
  Requests,        \* enrolling requests that may overlap
  Contacts,
  Rank,            \* Rank[c]: the order of contacts.updated_at
  ScanLimit,       \* the scan's limit
  Events,          \* event ids, and manual source event ids
  TypeOf,          \* TypeOf[e]: the type of event e
  ResourceOf,      \* ResourceOf[e]: its resource id
  MaxCrashes,      \* bound on the requests and scans that die half-way
  EditWhilePublishing, \* whether saves may overlap a publish request
  ManualEnrollment     \* whether contacts are also enrolled by hand

Versions == 1..MaxVersion
NoVersion == 0
Once == "once"
NoEvent == "no event"

ASSUME PublishingAssumption ==
  /\ MaxVersion \in Nat \ {0}
  /\ ValidGraphs \subseteq Graphs
  /\ MailGraphs \subseteq Graphs
  /\ NoGraph \notin Graphs
  /\ \A g \in ValidGraphs : SourceNode[g] # NoSource
  /\ Reentry \in [Graphs -> {Once, "every_time"}]
  /\ \A g \in Graphs : EventType[g] = NoType => Reentry[g] = Once
  /\ Once \notin Events /\ NoEvent \notin Events
  /\ \A e \in Events : TypeOf[e] # NoType
  /\ ScanLimit \in Nat \ {0}
  /\ MaxCrashes \in Nat
  /\ EditWhilePublishing \in BOOLEAN
  /\ ManualEnrollment \in BOOLEAN

VARIABLES
  status,          \* automations.status
  version,         \* version[v]: status and graph of version v
  draft,           \* draft_version_id
  published,       \* published_version_id
  trigger,         \* the automation_triggers rows of the automation
  templateReady,   \* the template of the mail nodes is published
  publisher,       \* publisher[p]: what publish request p has read
  request,         \* request[r]: what enrolling request r has read
  scan,            \* the Cron scan: its trigger and candidates
  recorded,        \* events that have been recorded
  inactive,        \* contacts without an event for the trigger's days
  archived,        \* archived contacts
  enrollments,     \* automation_enrollments
  crashes          \* how many requests and scans have died

vars == <<status, version, draft, published, trigger, templateReady, publisher,
          request, scan, recorded, inactive, archived, enrollments, crashes>>

automation == <<status, version, draft, published, trigger>>
contacts == <<recorded, inactive, archived>>

Nodes == { SourceNode[g] : g \in Graphs } \ {NoSource}
SourceEvents == Events \union {Once}

VersionRow == [status : {"absent", "draft", "published"},
               graph  : Graphs \union {NoGraph}]

TriggerRow == [version : Versions, node : Nodes, reentry : {Once, "every_time"},
               type : { EventType[g] : g \in Graphs },
               resource : { Resource[g] : g \in Graphs }]

\* What enrollFromTrigger needs of a trigger.
TriggerRef == [version : Versions, node : Nodes, reentry : {Once, "every_time"}]

Enrollment == [contact : Contacts, source : SourceEvents,
               version : Versions, node : Nodes]

PublisherState ==
  [pc : {"idle"}, version : {NoVersion}, graph : {NoGraph}] \union
  [pc : {"checking", "publishing"}, version : Versions, graph : Graphs]

IdlePublisher == [pc |-> "idle", version |-> NoVersion, graph |-> NoGraph]

IdleRequest == [pc |-> "idle"]

RequestState ==
  {IdleRequest} \union
  [pc : {"recorded"}, contact : Contacts, event : Events] \union
  [pc : {"enrolling"}, contact : Contacts, event : Events, trigger : TriggerRef]

IdleScan == [todo |-> {}]

ScanState ==
  {IdleScan} \union [todo : SUBSET Contacts, trigger : TriggerRef]

-----------------------------------------------------------------------------
(* Editing and publishing.                                                 *)

\* Mutant: saves whatever version the automation has.
Editable_AnyVersion(v) == version[v].status # "absent"

\* The WHERE of saveDraft's UPDATE.
Editable(v) == v = draft /\ version[v].status = "draft"

\* saveDraft stores any graph that parses, valid or not.
SaveDraft(g) ==
  /\ EditWhilePublishing \/ \A p \in Publishers : publisher[p].pc = "idle"
  /\ version' = [v \in Versions |->
                   IF Editable(v) THEN [version[v] EXCEPT !.graph = g] ELSE version[v]]
  /\ UNCHANGED <<status, draft, published, trigger, templateReady, publisher,
                 request, scan, contacts, enrollments, crashes>>

\* Mutant: publishes without validating.
AfterFind_Unvalidated(g) == IF g \in MailGraphs THEN "checking" ELSE "publishing"

\* publish: validateAutomation, then the templates of the mail nodes, if any.
AfterFind(g) ==
  IF g \notin ValidGraphs THEN "idle"
  ELSE IF g \in MailGraphs THEN "checking" ELSE "publishing"

\* findPublishableDraft: the request keeps the graph it has read.
FindPublishableDraft(p) ==
  /\ publisher[p].pc = "idle"
  /\ version[draft].status = "draft"
  /\ LET g == version[draft].graph
         pc == AfterFind(g) IN
     publisher' = [publisher EXCEPT ![p] =
                     IF pc = "idle" THEN IdlePublisher
                     ELSE [pc |-> pc, version |-> draft, graph |-> g]]
  /\ UNCHANGED <<automation, templateReady, request, scan, contacts,
                 enrollments, crashes>>

\* listPublishedTemplateIds
CheckTemplates(p) ==
  /\ publisher[p].pc = "checking"
  /\ publisher' = [publisher EXCEPT ![p] =
                     IF templateReady THEN [@ EXCEPT !.pc = "publishing"]
                     ELSE IdlePublisher]
  /\ UNCHANGED <<automation, templateReady, request, scan, contacts,
                 enrollments, crashes>>

\* Mutant: no unique index on (automation, version).
VersionFree_NotUnique(v) == TRUE

\* The INSERT of the next draft does not violate the unique index.
VersionFree(v) == version[v].status = "absent"

\* The automation_triggers row of version v, whose graph was read as g.
TriggerFor(v, g) ==
  [version |-> v, node |-> SourceNode[g], reentry |-> Reentry[g],
   type |-> EventType[g], resource |-> Resource[g]]

\* Mutant: the trigger registration of the version before is kept.
ReplaceTrigger_Kept(t) == IF trigger = {} THEN {t} ELSE trigger

\* DELETE of the automation's triggers, INSERT of the new one.
ReplaceTrigger(t) == {t}

\* The draft row publishDraft inserts.
NextDraft(v, g) == [status |-> "draft", graph |-> g]

\* publishDraft: one batch; a constraint violation aborts all of it.
PublishDraft(p) ==
  LET v == publisher[p].version
      g == publisher[p].graph IN
  /\ publisher[p].pc = "publishing"
  /\ v < MaxVersion
  /\ IF VersionFree(v + 1)
     THEN /\ version' = [version EXCEPT
                           ![v].status = IF @ = "draft" THEN "published" ELSE @,
                           ![v + 1] = NextDraft(v, g)]
          /\ status' = "active"
          /\ published' = v
          /\ draft' = v + 1
          /\ trigger' = ReplaceTrigger(TriggerFor(v, g))
     ELSE UNCHANGED automation
  /\ publisher' = [publisher EXCEPT ![p] = IdlePublisher]
  /\ UNCHANGED <<templateReady, request, scan, contacts, enrollments, crashes>>

\* The template is published, or archived.
TemplateChanges ==
  /\ templateReady' = ~templateReady
  /\ UNCHANGED <<automation, publisher, request, scan, contacts, enrollments,
                 crashes>>

\* setAutomationStatus
SetAutomationStatus(s) ==
  /\ published # NoVersion /\ status \in {"active", "paused"}
  /\ status' = s
  /\ UNCHANGED <<version, draft, published, trigger, templateReady, publisher,
                 request, scan, contacts, enrollments, crashes>>

-----------------------------------------------------------------------------
(* Enrolling.                                                              *)

\* Mutant: every enrollment is keyed by its event.
SourceEventId_Unkeyed(t, e) == e

\* enrollFromTrigger: "once" is the source event id of every such enrollment.
SourceEventId(t, e) == IF t.reentry = Once THEN Once ELSE e

\* enrollContact: NULL for an archived contact or a violated unique index.
EnrollContact(c, t, e) ==
  LET source == SourceEventId(t, e) IN
  IF c \in archived \/ \E x \in enrollments : x.contact = c /\ x.source = source
  THEN enrollments
  ELSE enrollments \union
         {[contact |-> c, source |-> source, version |-> t.version, node |-> t.node]}

ActiveTriggers == { t \in trigger : status = "active" /\ t.version = published }

Ref(t) == [version |-> t.version, node |-> t.node, reentry |-> t.reentry]

\* The WHERE of listActiveTriggersForEvent.
Matches(t, e) ==
  /\ t.type = TypeOf[e]
  /\ t.resource \in {NoResource, ResourceOf[e]}

\* recordContactEvent: the event row is inserted ...
RecordContactEvent(r, c, e) ==
  /\ request[r].pc = "idle" /\ e \notin recorded
  /\ recorded' = recorded \union {e}
  /\ inactive' = inactive \ {c}
  /\ request' = [request EXCEPT ![r] = [pc |-> "recorded", contact |-> c, event |-> e]]
  /\ UNCHANGED <<automation, templateReady, publisher, scan, archived,
                 enrollments, crashes>>

\* ... then enrollAutomationsForEvent reads the triggers it fires.
ListActiveTriggersForEvent(r) ==
  /\ request[r].pc = "recorded"
  /\ LET firing == { t \in ActiveTriggers : Matches(t, request[r].event) } IN
     \/ /\ firing = {}
        /\ request' = [request EXCEPT ![r] = IdleRequest]
     \/ \E t \in firing :
          request' = [request EXCEPT ![r] =
                        [pc |-> "enrolling", contact |-> @.contact,
                         event |-> @.event, trigger |-> Ref(t)]]
  /\ UNCHANGED <<automation, templateReady, publisher, scan, contacts,
                 enrollments, crashes>>

\* Mutant: the version joined is the draft.
LiveVersion_Draft == draft

\* The version findActivePublishedAutomation joins.
LiveVersion == published

\* The source node of its graph.
ManualSource == SourceNode[version[LiveVersion].graph]

\* enrollContactManually: the trigger's reentry is not consulted.
FindActivePublishedAutomation(r, c, e) ==
  /\ ManualEnrollment
  /\ request[r].pc = "idle"
  /\ published # NoVersion /\ status = "active" /\ ManualSource # NoSource
  /\ request' = [request EXCEPT ![r] =
                   [pc |-> "enrolling", contact |-> c, event |-> e,
                    trigger |-> [version |-> LiveVersion, node |-> ManualSource,
                                 reentry |-> "every_time"]]]
  /\ UNCHANGED <<automation, templateReady, publisher, scan, contacts,
                 enrollments, crashes>>

EnrollFromTrigger(r) ==
  /\ request[r].pc = "enrolling"
  /\ enrollments' = EnrollContact(request[r].contact, request[r].trigger, request[r].event)
  /\ request' = [request EXCEPT ![r] = IdleRequest]
  /\ UNCHANGED <<automation, templateReady, publisher, scan, contacts, crashes>>

\* Mutant: contacts that have been enrolled stay candidates.
Candidates_Enrolled == inactive \ archived

\* listInactiveEnrollmentCandidates, before ORDER BY and LIMIT.
Candidates ==
  { c \in inactive \ archived :
      ~ \E x \in enrollments : x.contact = c /\ x.source = Once }

\* The contacts of S updated longest ago, at most ScanLimit of them.
Oldest(S) == { c \in S : Cardinality({ d \in S : Rank[d] < Rank[c] }) < ScanLimit }

\* enrollInactiveContacts reads its candidates ...
ListInactiveEnrollmentCandidates ==
  /\ scan.todo = {}
  /\ \E t \in ActiveTriggers :
       /\ t.type = NoType
       /\ Oldest(Candidates) # {}
       /\ scan' = [todo |-> Oldest(Candidates), trigger |-> Ref(t)]
  /\ UNCHANGED <<automation, templateReady, publisher, request, contacts,
                 enrollments, crashes>>

\* ... and enrolls them one after the other.
EnrollInactiveContact ==
  /\ \E c \in scan.todo :
       /\ \A d \in scan.todo : Rank[c] <= Rank[d]
       /\ enrollments' = EnrollContact(c, scan.trigger, NoEvent)
       /\ scan' = IF scan.todo = {c} THEN IdleScan ELSE [scan EXCEPT !.todo = @ \ {c}]
  /\ UNCHANGED <<automation, templateReady, publisher, request, contacts, crashes>>

\* An enrolling request, or the Cron invocation, dies between two calls.
RequestDies(r) ==
  /\ request[r].pc # "idle" /\ crashes < MaxCrashes
  /\ request' = [request EXCEPT ![r] = IdleRequest]
  /\ crashes' = crashes + 1
  /\ UNCHANGED <<automation, templateReady, publisher, scan, contacts, enrollments>>

ScanDies ==
  /\ scan.todo # {} /\ crashes < MaxCrashes
  /\ scan' = IdleScan
  /\ crashes' = crashes + 1
  /\ UNCHANGED <<automation, templateReady, publisher, request, contacts, enrollments>>

\* Days pass without an event of c; c is archived, or restored.
BecomeInactive(c) ==
  /\ c \notin inactive
  /\ inactive' = inactive \union {c}
  /\ UNCHANGED <<automation, templateReady, publisher, request, scan, recorded,
                 archived, enrollments, crashes>>

ArchiveOrRestore(c) ==
  /\ archived' = IF c \in archived THEN archived \ {c} ELSE archived \union {c}
  /\ UNCHANGED <<automation, templateReady, publisher, request, scan, recorded,
                 inactive, enrollments, crashes>>

-----------------------------------------------------------------------------
\* createAutomation: version 1 is the draft.
Init ==
  /\ status = "draft"
  /\ \E g \in Graphs :
       version = [v \in Versions |->
                    IF v = 1 THEN [status |-> "draft", graph |-> g]
                    ELSE [status |-> "absent", graph |-> NoGraph]]
  /\ draft = 1
  /\ published = NoVersion
  /\ trigger = {}
  /\ templateReady = TRUE
  /\ publisher = [p \in Publishers |-> IdlePublisher]
  /\ request = [r \in Requests |-> IdleRequest]
  /\ scan = IdleScan
  /\ recorded = {}
  /\ inactive = {}
  /\ archived = {}
  /\ enrollments = {}
  /\ crashes = 0

Editing ==
  \/ \E g \in Graphs : SaveDraft(g)
  \/ \E p \in Publishers :
       FindPublishableDraft(p) \/ CheckTemplates(p) \/ PublishDraft(p)
  \/ TemplateChanges
  \/ \E s \in {"active", "paused"} : SetAutomationStatus(s)

Enrolling ==
  \/ \E r \in Requests :
       \/ \E c \in Contacts, e \in Events :
            RecordContactEvent(r, c, e) \/ FindActivePublishedAutomation(r, c, e)
       \/ ListActiveTriggersForEvent(r) \/ EnrollFromTrigger(r) \/ RequestDies(r)
  \/ ListInactiveEnrollmentCandidates \/ EnrollInactiveContact \/ ScanDies
  \/ \E c \in Contacts : BecomeInactive(c) \/ ArchiveOrRestore(c)

Next == Editing \/ Enrolling

Spec == Init /\ [][Next]_vars

\* Cron fires every minute, and an invocation that is not killed runs on.
Fairness ==
  WF_vars(ListInactiveEnrollmentCandidates) /\ WF_vars(EnrollInactiveContact)

FairSpec == Spec /\ Fairness

-----------------------------------------------------------------------------
\* Every variable stays in its type.
TypeOK ==
  /\ status \in {"draft", "active", "paused"}
  /\ version \in [Versions -> VersionRow]
  /\ draft \in Versions
  /\ published \in Versions \union {NoVersion}
  /\ trigger \subseteq TriggerRow
  /\ templateReady \in BOOLEAN
  /\ publisher \in [Publishers -> PublisherState]
  /\ request \in [Requests -> RequestState]
  /\ scan \in ScanState
  /\ recorded \subseteq Events
  /\ inactive \subseteq Contacts
  /\ archived \subseteq Contacts
  /\ enrollments \subseteq Enrollment
  /\ crashes \in 0..MaxCrashes

\* However publishes interleave, the versions are a history: one draft, the
\* newest version, every older one published, the last of them live.
OneDraft ==
  /\ \A v \in Versions :
       version[v].status = IF v < draft THEN "published"
                           ELSE IF v = draft THEN "draft" ELSE "absent"
  /\ published = draft - 1

\* Whatever enrolls by an event or the scan enrolls into the live version: an
\* automation has one trigger once it is published, and it names that version.
TriggerIsPublished ==
  /\ { t.version : t \in trigger } = { published } \ { NoVersion }
  /\ Cardinality(trigger) <= 1
  /\ status = "draft" <=> published = NoVersion

\* A published version never changes.
PublishedImmutable ==
  [][\A v \in Versions : version[v].status = "published" => version'[v] = version[v]]_vars

\* A publish request that read an old draft never puts it back in place.
PublishedNeverRollsBack == [][published' >= published]_vars

\* No contact is enrolled into a version that can still be edited.
EnrolledOnPublished ==
  \A x \in enrollments : version[x.version].status = "published"

\* What is published has passed the validation the engine relies on.
PublishedIsValid ==
  \A v \in Versions : version[v].status = "published" => version[v].graph \in ValidGraphs

\* The trigger is the one the live graph describes.
TriggerMatchesGraph ==
  \A t \in trigger : t = TriggerFor(published, version[published].graph)

\* A contact in progress starts at the source node of its version.
EnrolledAtSource ==
  \A x \in enrollments : x.node = SourceNode[version[x.version].graph]

\* A contact takes part at most once in versions whose source says "once",
\* whichever event, scan or version enrolls it.
OnceEnrollsOnce ==
  \A c \in Contacts :
    Cardinality({ x \in enrollments : /\ x.contact = c
                                      /\ Reentry[version[x.version].graph] = Once }) <= 1

\* Once contacts are no longer archived, an inactive one does not wait for ever
\* behind others the scan finds again and again.
Overlooked(c) ==
  /\ c \in inactive \ archived
  /\ \E t \in ActiveTriggers : t.type = NoType
  /\ ~ \E x \in enrollments : x.contact = c

InactiveEnrolled ==
  <>[](archived = {}) => \A c \in Contacts : []<>~Overlooked(c)
=============================================================================
