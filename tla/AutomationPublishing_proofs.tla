--------------------- MODULE AutomationPublishing_proofs ---------------------
(***************************************************************************)
(* Theorems about AutomationPublishing for every set of graphs, every      *)
(* number of versions, publishers, requests, contacts and events.          *)
(***************************************************************************)
EXTENDS AutomationPublishing, TLAPS, FiniteSetTheorems

\* The automation has its one trigger from its first publish on.
OneTrigger ==
  /\ published = NoVersion => trigger = {}
  /\ published # NoVersion => \E g \in ValidGraphs : trigger = {TriggerFor(published, g)}
  /\ status = "draft" <=> published = NoVersion

\* What requests have read is still true of the versions: drafts and graphs
\* exist, and no request holds a trigger of a version that is not published.
ReadsStand ==
  /\ \A v \in Versions : version[v].status # "absent" => version[v].graph \in Graphs
  /\ \A p \in Publishers :
       publisher[p].pc # "idle" =>
         publisher[p].version <= draft /\ publisher[p].graph \in ValidGraphs
  /\ \A r \in Requests :
       request[r].pc = "enrolling" => request[r].trigger.version <= published
  /\ scan.todo # {} => scan.trigger.version <= published /\ scan.trigger.reentry = Once
  /\ \A x \in enrollments : x.version <= published

\* The inductive invariant.
History == TypeOK /\ OneDraft /\ OneTrigger /\ ReadsStand

\* A publish that succeeds publishes the draft, nothing older.
PublishesDraft(p) ==
  /\ publisher[p].version = draft /\ draft < MaxVersion
  /\ publisher[p].graph \in ValidGraphs
  /\ version' = [version EXCEPT
                   ![draft].status = IF @ = "draft" THEN "published" ELSE @,
                   ![draft + 1] = NextDraft(draft, publisher[p].graph)]
  /\ status' = "active"
  /\ published' = draft
  /\ draft' = draft + 1
  /\ trigger' = {TriggerFor(draft, publisher[p].graph)}

\* The unique index turns the publish of an overtaken request into nothing.
LEMMA PublishEffect ==
  ASSUME History, NEW p \in Publishers, PublishDraft(p)
  PROVE  PublishesDraft(p) \/ UNCHANGED automation
<1> DEFINE v == publisher[p].version
<1>1. v \in Versions /\ v <= draft /\ v < MaxVersion /\ publisher[p].graph \in ValidGraphs
  BY DEF History, TypeOK, PublisherState, ReadsStand, PublishDraft
<1>2. v \in Nat /\ v + 1 \in Versions /\ draft \in Nat
  BY <1>1, PublishingAssumption DEF Versions, History, TypeOK
<1>3. CASE VersionFree(v + 1)
  <2>1. ~(v + 1 <= draft)
    <3>1. version[v + 1].status = "absent"
      BY <1>3 DEF VersionFree
    <3>2. version[v + 1].status = IF v + 1 < draft THEN "published"
                                  ELSE IF v + 1 = draft THEN "draft" ELSE "absent"
      BY <1>2 DEF History, OneDraft
    <3>3. ~(v + 1 < draft) /\ v + 1 # draft
      BY <3>1, <3>2
    <3>4. QED
      BY <1>2, <3>3
  <2>2. v = draft
    BY <1>1, <1>2, <2>1
  <2>3. QED
    BY <1>1, <1>3, <2>2 DEF PublishDraft, PublishesDraft, ReplaceTrigger
<1>4. CASE ~VersionFree(v + 1)
  BY <1>4 DEF PublishDraft
<1>5. QED
  BY <1>3, <1>4

\* The history after a publish that succeeds.
LEMMA PublishedHistory ==
  ASSUME History, NEW p \in Publishers, PublishesDraft(p)
  PROVE  /\ draft \in Versions /\ draft + 1 \in Versions
         /\ \A v \in Versions :
              version'[v] = IF v = draft
                            THEN [status |-> "published", graph |-> version[v].graph]
                            ELSE IF v = draft + 1
                            THEN [status |-> "draft", graph |-> publisher[p].graph]
                            ELSE version[v]
         /\ version' \in [Versions -> VersionRow]
         /\ OneDraft'
         /\ TriggerFor(draft, publisher[p].graph) \in TriggerRow
<1> DEFINE g == publisher[p].graph
<1>1. draft \in Versions /\ draft + 1 \in Versions /\ Versions \subseteq Nat
  BY PublishingAssumption DEF PublishesDraft, Versions, History, TypeOK
<1>2. g \in ValidGraphs /\ g \in Graphs /\ SourceNode[g] # NoSource
  BY PublishingAssumption DEF PublishesDraft
<1>3. version[draft].status = "draft" /\ version[draft] \in VersionRow
  BY <1>1 DEF History, OneDraft, TypeOK
<1>4. ASSUME NEW v \in Versions
      PROVE  version'[v] = IF v = draft
                           THEN [status |-> "published", graph |-> version[v].graph]
                           ELSE IF v = draft + 1
                           THEN [status |-> "draft", graph |-> g]
                           ELSE version[v]
  <2>1. CASE v = draft
    BY <1>1, <1>3, <2>1 DEF PublishesDraft, History, TypeOK, VersionRow
  <2>2. CASE v = draft + 1
    BY <1>1, <2>2 DEF PublishesDraft, NextDraft, History, TypeOK
  <2>3. CASE v # draft /\ v # draft + 1
    BY <1>1, <2>3 DEF PublishesDraft, History, TypeOK
  <2>4. QED
    BY <1>1, <2>1, <2>2, <2>3
<1>5. version' \in [Versions -> VersionRow]
  <2>1. DOMAIN version' = Versions /\ version' = [v \in Versions |-> version'[v]]
    BY DEF PublishesDraft, History, TypeOK
  <2>2. ASSUME NEW v \in Versions PROVE version'[v] \in VersionRow
    <3>1. version[v] \in VersionRow /\ version[v].graph \in Graphs \union {NoGraph}
      BY DEF VersionRow, History, TypeOK
    <3>2. [status |-> "published", graph |-> version[v].graph] \in VersionRow
      BY <3>1 DEF VersionRow
    <3>3. [status |-> "draft", graph |-> g] \in VersionRow
      BY <1>2 DEF VersionRow
    <3>4. QED
      BY <1>4, <3>1, <3>2, <3>3
  <2>3. QED
    BY <2>1, <2>2
<1>6. OneDraft'
  <2>1. draft' = draft + 1 /\ published' = draft /\ published' = draft' - 1
    BY <1>1 DEF PublishesDraft
  <2>2. ASSUME NEW v \in Versions
        PROVE  version'[v].status = IF v < draft' THEN "published"
                                    ELSE IF v = draft' THEN "draft" ELSE "absent"
    <3>1. v \in Nat /\ draft \in Nat
      BY <1>1
    <3>2. version[v].status = IF v < draft THEN "published"
                              ELSE IF v = draft THEN "draft" ELSE "absent"
      BY DEF History, OneDraft
    <3>3. version'[v].status = IF v = draft THEN "published"
                               ELSE IF v = draft + 1 THEN "draft" ELSE version[v].status
      <4>1. CASE v = draft
        <5>1. version'[v] = [status |-> "published", graph |-> version[v].graph]
          BY <1>4, <4>1
        <5>2. QED
          BY <4>1, <5>1
      <4>2. CASE v # draft /\ v = draft + 1
        <5>1. version'[v] = [status |-> "draft", graph |-> g]
          BY <1>4, <3>1, <4>2
        <5>2. QED
          BY <4>2, <5>1
      <4>3. CASE v # draft /\ v # draft + 1
        <5>1. version'[v] = version[v]
          BY <1>4, <3>1, <4>3
        <5>2. QED
          BY <4>3, <5>1
      <4>4. QED
        BY <4>1, <4>2, <4>3
    <3>4. QED
      BY <2>1, <3>1, <3>2, <3>3
  <2>3. QED
    BY <2>1, <2>2 DEF OneDraft
<1>7. TriggerFor(draft, g) \in TriggerRow
  <2>1. SourceNode[g] \in Nodes
    BY <1>2 DEF Nodes
  <2>2. EventType[g] \in { EventType[h] : h \in Graphs } /\ Resource[g] \in { Resource[h] : h \in Graphs }
    BY <1>2
  <2>3. Reentry[g] \in {Once, "every_time"}
    BY <1>2, PublishingAssumption
  <2>4. QED
    BY <1>1, <2>1, <2>2, <2>3 DEF TriggerFor, TriggerRow
<1>8. QED
  BY <1>1, <1>4, <1>5, <1>6, <1>7

-----------------------------------------------------------------------------
\* Steps that publish nothing and read no draft.
Elsewhere == UNCHANGED <<automation, publisher>>

\* They leave the history of versions, and what publishers hold, as it is.
LEMMA ElsewhereHistory ==
  ASSUME History, Elsewhere
  PROVE  /\ OneDraft' /\ OneTrigger'
         /\ \A v \in Versions : version'[v].status # "absent" => version'[v].graph \in Graphs
         /\ \A p \in Publishers :
              publisher'[p].pc # "idle" =>
                publisher'[p].version <= draft' /\ publisher'[p].graph \in ValidGraphs
         /\ published' = published
BY DEF History, OneDraft, OneTrigger, ReadsStand, Elsewhere, automation

\* A trigger that fires, and the version enrolled by hand, is published.
LEMMA ActiveRef ==
  ASSUME History, NEW t \in ActiveTriggers
  PROVE  Ref(t) \in TriggerRef /\ Ref(t).version <= published
<1>1. t \in TriggerRow /\ t.version = published /\ published \in Nat
  BY PublishingAssumption DEF ActiveTriggers, History, TypeOK, Versions, NoVersion
<1>2. QED
  BY <1>1 DEF TriggerRow, TriggerRef, Ref

\* The trigger a request by hand makes up is of its type.
LEMMA ManualRef ==
  ASSUME History, published # NoVersion, ManualSource # NoSource
  PROVE  [version |-> LiveVersion, node |-> ManualSource, reentry |-> "every_time"]
           \in TriggerRef
<1>1. published \in Versions /\ published < draft /\ draft \in Versions
  BY PublishingAssumption DEF History, TypeOK, OneDraft, Versions, NoVersion
<1>2. version[published].graph \in Graphs
  BY <1>1 DEF History, OneDraft, ReadsStand
<1>3. ManualSource \in Nodes
  BY <1>2 DEF ManualSource, LiveVersion, Nodes
<1>4. QED
  BY <1>1, <1>3 DEF TriggerRef, LiveVersion

\* enrollContact adds at most the enrollment of the trigger it was given.
LEMMA EnrollContactResult ==
  ASSUME NEW c, NEW t, NEW e
  PROVE  \A x \in EnrollContact(c, t, e) :
           x \in enrollments \/
           x = [contact |-> c, source |-> SourceEventId(t, e),
                version |-> t.version, node |-> t.node]
BY DEF EnrollContact

\* Enrollments stay enrollments; without an event the trigger must be "once".
LEMMA EnrollContactType ==
  ASSUME TypeOK, NEW c \in Contacts, NEW t \in TriggerRef, NEW e \in SourceEvents \union {NoEvent},
         e = NoEvent => t.reentry = Once
  PROVE  EnrollContact(c, t, e) \subseteq Enrollment
<1>1. SourceEventId(t, e) \in SourceEvents
  BY DEF SourceEventId, SourceEvents
<1>2. [contact |-> c, source |-> SourceEventId(t, e), version |-> t.version, node |-> t.node]
        \in Enrollment
  BY <1>1 DEF Enrollment, TriggerRef
<1>3. QED
  BY <1>2, EnrollContactResult DEF TypeOK

-----------------------------------------------------------------------------
\* saveDraft changes the graph of the draft and nothing else.
LEMMA SaveDraftEffect ==
  ASSUME History, NEW g \in Graphs, SaveDraft(g), NEW v \in Versions
  PROVE  /\ version'[v] \in VersionRow
         /\ version'[v].status = version[v].status
         /\ version'[v].graph = IF v = draft THEN g ELSE version[v].graph
<1>1. version[v] \in VersionRow
  BY DEF History, TypeOK
<1>2. CASE v = draft
  <2>1. version[v].status = "draft"
    BY <1>2 DEF History, OneDraft, TypeOK, Versions
  <2>2. version'[v] = [version[v] EXCEPT !.graph = g]
    BY <1>2, <2>1 DEF SaveDraft, Editable
  <2>3. QED
    BY <1>1, <1>2, <2>2 DEF VersionRow
<1>3. CASE v # draft
  <2>1. version'[v] = version[v]
    BY <1>3 DEF SaveDraft, Editable
  <2>2. QED
    BY <1>1, <1>3, <2>1
<1>4. QED
  BY <1>2, <1>3

\* saveDraft keeps the invariant: only the draft, which nobody has published.
LEMMA HistorySaveDraft ==
  ASSUME History, NEW g \in Graphs, SaveDraft(g)
  PROVE  History'
<1>1. version' \in [Versions -> VersionRow]
  BY SaveDraftEffect DEF SaveDraft
<1>2. TypeOK'
  BY <1>1 DEF SaveDraft, History, TypeOK, contacts
<1>3. OneDraft'
  BY SaveDraftEffect DEF SaveDraft, History, OneDraft
<1>4. OneTrigger'
  BY DEF SaveDraft, History, OneTrigger
<1>5. ReadsStand'
  BY SaveDraftEffect DEF SaveDraft, History, ReadsStand
<1>6. QED
  BY <1>2, <1>3, <1>4, <1>5 DEF History

\* findPublishableDraft keeps it: what goes on has been validated.
LEMMA HistoryFindPublishableDraft ==
  ASSUME History, NEW p \in Publishers, FindPublishableDraft(p)
  PROVE  History'
<1> DEFINE g == version[draft].graph
           found == IF AfterFind(g) = "idle" THEN IdlePublisher
                    ELSE [pc |-> AfterFind(g), version |-> draft, graph |-> g]
<1>1. draft \in Versions /\ draft \in Nat /\ g \in Graphs
  BY DEF FindPublishableDraft, History, TypeOK, ReadsStand, Versions
<1>2. AfterFind(g) \in {"idle", "checking", "publishing"} /\
      (AfterFind(g) # "idle" => g \in ValidGraphs)
  BY DEF AfterFind
<1>3. found \in PublisherState /\
      (found.pc # "idle" => found.version = draft /\ found.graph \in ValidGraphs)
  BY <1>1, <1>2 DEF PublisherState, IdlePublisher
<1>4. publisher' = [publisher EXCEPT ![p] = found]
  BY DEF FindPublishableDraft
<1>5. TypeOK'
  BY <1>3, <1>4 DEF FindPublishableDraft, History, TypeOK, automation, contacts
<1>6. OneDraft' /\ OneTrigger'
  BY DEF FindPublishableDraft, History, OneDraft, OneTrigger, automation
<1>7. ASSUME NEW q \in Publishers, publisher'[q].pc # "idle"
      PROVE  publisher'[q].version <= draft' /\ publisher'[q].graph \in ValidGraphs
  <2>1. draft' = draft
    BY DEF FindPublishableDraft, automation
  <2>2. CASE q = p
    BY <1>1, <1>3, <1>4, <1>7, <2>1, <2>2 DEF History, TypeOK
  <2>3. CASE q # p
    BY <1>4, <1>7, <2>1, <2>3 DEF History, TypeOK, ReadsStand
  <2>4. QED
    BY <2>2, <2>3
<1>8. ReadsStand'
  BY <1>7 DEF FindPublishableDraft, History, ReadsStand, automation
<1>9. QED
  BY <1>5, <1>6, <1>8 DEF History

\* listPublishedTemplateIds keeps it: the request goes on with what it read.
LEMMA HistoryCheckTemplates ==
  ASSUME History, NEW p \in Publishers, CheckTemplates(p)
  PROVE  History'
<1> DEFINE checked == IF templateReady THEN [publisher[p] EXCEPT !.pc = "publishing"]
                      ELSE IdlePublisher
<1>1. publisher[p] \in [pc : {"checking", "publishing"}, version : Versions, graph : Graphs]
  BY DEF CheckTemplates, History, TypeOK, PublisherState
<1>2. checked \in PublisherState /\
      (checked.pc # "idle" =>
         checked.version = publisher[p].version /\ checked.graph = publisher[p].graph)
  BY <1>1 DEF PublisherState, IdlePublisher
<1>3. publisher' = [publisher EXCEPT ![p] = checked]
  BY DEF CheckTemplates
<1>4. TypeOK'
  BY <1>2, <1>3 DEF CheckTemplates, History, TypeOK, automation, contacts
<1>5. OneDraft' /\ OneTrigger'
  BY DEF CheckTemplates, History, OneDraft, OneTrigger, automation
<1>6. ASSUME NEW q \in Publishers, publisher'[q].pc # "idle"
      PROVE  publisher'[q].version <= draft' /\ publisher'[q].graph \in ValidGraphs
  <2>1. draft' = draft
    BY DEF CheckTemplates, automation
  <2>2. CASE q = p
    <3>1. publisher[p].version <= draft /\ publisher[p].graph \in ValidGraphs
      BY DEF CheckTemplates, History, ReadsStand
    <3>2. publisher'[q] = checked
      BY <1>3, <2>2 DEF History, TypeOK
    <3>3. QED
      BY <1>2, <1>6, <2>1, <3>1, <3>2
  <2>3. CASE q # p
    BY <1>3, <1>6, <2>1, <2>3 DEF History, TypeOK, ReadsStand
  <2>4. QED
    BY <2>2, <2>3
<1>7. ReadsStand'
  BY <1>6 DEF CheckTemplates, History, ReadsStand, automation
<1>8. QED
  BY <1>4, <1>5, <1>7 DEF History

\* publishDraft keeps it: the history grows by one version, or stays.
LEMMA HistoryPublishDraft ==
  ASSUME History, NEW p \in Publishers, PublishDraft(p)
  PROVE  History'
<1>1. publisher' = [publisher EXCEPT ![p] = IdlePublisher] /\
      IdlePublisher \in PublisherState
  BY DEF PublishDraft, IdlePublisher, PublisherState
<1>2. publisher' \in [Publishers -> PublisherState]
  BY <1>1 DEF History, TypeOK
<1>3. ASSUME NEW q \in Publishers, publisher'[q].pc # "idle"
      PROVE  publisher[q].pc # "idle" /\ publisher'[q] = publisher[q]
  BY <1>1, <1>3 DEF History, TypeOK, IdlePublisher
<1>4. CASE PublishesDraft(p)
  <2> DEFINE t == TriggerFor(draft, publisher[p].graph)
                g == publisher[p].graph
  <2>0. /\ draft \in Versions /\ draft + 1 \in Versions /\ t \in TriggerRow
        /\ version' \in [Versions -> VersionRow] /\ OneDraft'
        /\ \A v \in Versions :
             version'[v] = IF v = draft
                           THEN [status |-> "published", graph |-> version[v].graph]
                           ELSE IF v = draft + 1
                           THEN [status |-> "draft", graph |-> g]
                           ELSE version[v]
    BY <1>4, PublishedHistory
  <2>1. draft \in Nat /\ draft # 0 /\ draft' = draft + 1 /\ published = draft - 1 /\ published' = draft
    BY <1>4, <2>0, PublishingAssumption DEF PublishesDraft, History, OneDraft, Versions
  <2>2. TypeOK'
    <3>1. status' \in {"draft", "active", "paused"} /\ trigger' \subseteq TriggerRow
      BY <1>4, <2>0 DEF PublishesDraft
    <3>2. draft' \in Versions /\ published' \in Versions \union {NoVersion}
      BY <2>0, <2>1
    <3>3. version' \in [Versions -> VersionRow]
      BY <2>0
    <3>4. QED
      BY <1>2, <3>1, <3>2, <3>3 DEF PublishDraft, History, TypeOK, contacts
  <2>3. OneTrigger'
    <3>1. trigger' = {TriggerFor(published', g)} /\ g \in ValidGraphs
      BY <1>4 DEF PublishesDraft
    <3>2. published' # NoVersion /\ status' = "active"
      BY <1>4, <2>1 DEF PublishesDraft, NoVersion
    <3>3. QED
      BY <3>1, <3>2 DEF OneTrigger
  <2>4. ReadsStand'
    <3>1. ASSUME NEW v \in Versions, version'[v].status # "absent"
          PROVE  version'[v].graph \in Graphs
      <4>1. draft \in Versions /\ version[draft].graph \in Graphs
        BY <2>0, <2>1 DEF History, OneDraft, ReadsStand
      <4>2. publisher[p].graph \in Graphs
        BY <1>4, PublishingAssumption DEF PublishesDraft
      <4>3. version[v].status # "absent" => version[v].graph \in Graphs
        BY DEF History, ReadsStand
      <4>4. CASE v = draft
        BY <2>0, <4>1, <4>4
      <4>5. CASE v # draft /\ v = draft + 1
        BY <2>0, <2>1, <4>2, <4>5
      <4>6. CASE v # draft /\ v # draft + 1
        BY <2>0, <2>1, <3>1, <4>3, <4>6
      <4>7. QED
        BY <4>4, <4>5, <4>6
    <3>2. ASSUME NEW q \in Publishers, publisher'[q].pc # "idle"
          PROVE  publisher'[q].version <= draft' /\ publisher'[q].graph \in ValidGraphs
      <4>1. publisher[q].version <= draft /\ publisher[q].graph \in ValidGraphs
        BY <1>3, <3>2 DEF History, ReadsStand
      <4>2. publisher[q].version \in Nat
        BY <1>3, <3>2 DEF History, TypeOK, PublisherState, Versions
      <4>3. QED
        BY <1>3, <2>1, <3>2, <4>1, <4>2
    <3>3. \A n \in Versions : n <= published => n <= published'
      BY <2>1 DEF Versions
    <3>4. ASSUME NEW r \in Requests, request'[r].pc = "enrolling"
          PROVE  request'[r].trigger.version <= published'
      <4>1. request' = request
        BY DEF PublishDraft
      <4>2. request[r].trigger.version \in Versions
        BY <3>4, <4>1 DEF History, TypeOK, RequestState, TriggerRef, IdleRequest
      <4>3. QED
        BY <3>3, <3>4, <4>1, <4>2 DEF History, ReadsStand
    <3>5. scan'.todo # {} =>
            scan'.trigger.version <= published' /\ scan'.trigger.reentry = Once
      BY <3>3 DEF PublishDraft, History, TypeOK, ScanState, TriggerRef, IdleScan, ReadsStand
    <3>6. \A x \in enrollments' : x.version <= published'
      BY <3>3 DEF PublishDraft, History, TypeOK, Enrollment, ReadsStand
    <3>7. QED
      BY <3>1, <3>2, <3>4, <3>5, <3>6 DEF ReadsStand
  <2>5. QED
    BY <2>0, <2>2, <2>3, <2>4 DEF History
<1>5. CASE UNCHANGED automation
  <2>1. TypeOK'
    BY <1>2, <1>5 DEF PublishDraft, History, TypeOK, automation, contacts
  <2>2. OneDraft' /\ OneTrigger'
    BY <1>5 DEF History, OneDraft, OneTrigger, automation
  <2>3. ReadsStand'
    BY <1>3, <1>5 DEF PublishDraft, History, ReadsStand, automation
  <2>4. QED
    BY <2>1, <2>2, <2>3 DEF History
<1>6. QED
  BY <1>4, <1>5, PublishEffect

\* Every editing step keeps the invariant.
LEMMA HistoryEditing ==
  ASSUME History, Editing
  PROVE  History'
<1>1. CASE TemplateChanges
  <2>1. TypeOK'
    BY <1>1 DEF TemplateChanges, History, TypeOK, automation, contacts
  <2>2. QED
    BY <1>1, <2>1 DEF TemplateChanges, History, OneDraft, OneTrigger, ReadsStand, automation
<1>2. ASSUME NEW s \in {"active", "paused"}, SetAutomationStatus(s)
      PROVE  History'
  <2>1. TypeOK'
    BY <1>2 DEF SetAutomationStatus, History, TypeOK, contacts
  <2>2. QED
    BY <1>2, <2>1 DEF SetAutomationStatus, History, OneDraft, OneTrigger, ReadsStand
<1>3. QED
  BY <1>1, <1>2, HistorySaveDraft, HistoryFindPublishableDraft, HistoryCheckTemplates,
     HistoryPublishDraft DEF Editing

-----------------------------------------------------------------------------
\* A step that enrolls, or moves a request or the scan, keeps the history when
\* what it writes is of its type and names published versions.
LEMMA HistoryElsewhere ==
  ASSUME History, Elsewhere, TypeOK',
         \A r \in Requests :
           request'[r].pc = "enrolling" => request'[r].trigger.version <= published,
         scan'.todo # {} =>
           scan'.trigger.version <= published /\ scan'.trigger.reentry = Once,
         \A x \in enrollments' : x.version <= published
  PROVE  History'
BY ElsewhereHistory DEF History, ReadsStand

\* Setting one request to a state that is of its type and names a published
\* version.
LEMMA RequestMoves ==
  ASSUME History, NEW r \in Requests, NEW s \in RequestState,
         request' = [request EXCEPT ![r] = s],
         s.pc = "enrolling" => s.trigger.version <= published
  PROVE  /\ request' \in [Requests -> RequestState]
         /\ \A q \in Requests :
              request'[q].pc = "enrolling" => request'[q].trigger.version <= published
<1>1. request' \in [Requests -> RequestState]
  BY DEF History, TypeOK
<1>2. ASSUME NEW q \in Requests, request'[q].pc = "enrolling"
      PROVE  request'[q].trigger.version <= published
  <2>1. CASE q = r
    BY <1>2, <2>1 DEF History, TypeOK
  <2>2. CASE q # r
    BY <1>2, <2>2 DEF History, TypeOK, ReadsStand
  <2>3. QED
    BY <2>1, <2>2
<1>3. QED
  BY <1>1, <1>2

\* An enrolling request holds a contact, an event and a trigger.
LEMMA EnrollingRequest ==
  ASSUME TypeOK, NEW r \in Requests, request[r].pc = "enrolling"
  PROVE  /\ request[r].contact \in Contacts /\ request[r].event \in Events
         /\ request[r].trigger \in TriggerRef
BY DEF TypeOK, RequestState, IdleRequest

\* A request that has recorded its event holds a contact and an event.
LEMMA RecordedRequest ==
  ASSUME TypeOK, NEW r \in Requests, request[r].pc = "recorded"
  PROVE  request[r].contact \in Contacts /\ request[r].event \in Events
BY DEF TypeOK, RequestState, IdleRequest

\* A scan with candidates holds the trigger it read them for, a "once" trigger.
LEMMA ScanHolds ==
  ASSUME TypeOK, scan.todo # {}
  PROVE  scan \in [todo : SUBSET Contacts, trigger : TriggerRef]
BY DEF TypeOK, ScanState, IdleScan

\* What finished requests and scans are set to is of their types.
LEMMA IdleStates ==
  /\ IdleRequest \in RequestState /\ IdleRequest.pc # "enrolling"
  /\ IdleScan \in ScanState
BY DEF RequestState, ScanState, IdleRequest

\* Recording an event keeps the invariant.
LEMMA HistoryRecordContactEvent ==
  ASSUME History, NEW r \in Requests, NEW c \in Contacts, NEW e \in Events,
         RecordContactEvent(r, c, e)
  PROVE  History'
<1> DEFINE s == [pc |-> "recorded", contact |-> c, event |-> e]
<1>1. s \in RequestState /\ s.pc # "enrolling"
  BY DEF RequestState
<1>2. request' = [request EXCEPT ![r] = s]
  BY DEF RecordContactEvent
<1>3. request' \in [Requests -> RequestState] /\
      \A q \in Requests :
        request'[q].pc = "enrolling" => request'[q].trigger.version <= published
  BY <1>1, <1>2, RequestMoves
<1>4. TypeOK'
  BY <1>3 DEF RecordContactEvent, History, TypeOK, automation
<1>5. QED
  BY <1>3, <1>4, HistoryElsewhere
     DEF RecordContactEvent, Elsewhere, History, ReadsStand

\* Reading the triggers of an event keeps it: they are of the live version.
LEMMA HistoryListActiveTriggers ==
  ASSUME History, NEW r \in Requests, ListActiveTriggersForEvent(r)
  PROVE  History'
<1>1. PICK s : /\ request' = [request EXCEPT ![r] = s]
               /\ s \in RequestState
               /\ s.pc = "enrolling" => s.trigger.version <= published
  <2> DEFINE firing == { t \in ActiveTriggers : Matches(t, request[r].event) }
             next(t) == [pc |-> "enrolling", contact |-> request[r].contact,
                         event |-> request[r].event, trigger |-> Ref(t)]
  <2>1. CASE request' = [request EXCEPT ![r] = IdleRequest]
    BY <2>1, IdleStates
  <2>2. ASSUME NEW t \in firing, request' = [request EXCEPT ![r] = next(t)]
        PROVE  \E s : /\ request' = [request EXCEPT ![r] = s]
                      /\ s \in RequestState
                      /\ s.pc = "enrolling" => s.trigger.version <= published
    <3>1. next(t) \in RequestState
      BY ActiveRef, RecordedRequest DEF ListActiveTriggersForEvent, History, RequestState
    <3>2. next(t).trigger.version <= published
      BY ActiveRef
    <3>3. QED
      BY <2>2, <3>1, <3>2
  <2>3. request' = [request EXCEPT ![r] = IdleRequest] \/
        \E t \in firing : request' = [request EXCEPT ![r] = next(t)]
    BY DEF ListActiveTriggersForEvent
  <2>4. QED
    BY <2>1, <2>2, <2>3
<1>2. request' \in [Requests -> RequestState] /\
      \A q \in Requests :
        request'[q].pc = "enrolling" => request'[q].trigger.version <= published
  BY <1>1, RequestMoves
<1>3. TypeOK'
  BY <1>2 DEF ListActiveTriggersForEvent, History, TypeOK, automation, contacts
<1>4. QED
  BY <1>2, <1>3, HistoryElsewhere
     DEF ListActiveTriggersForEvent, Elsewhere, History, ReadsStand

\* Enrolling by hand keeps it: the request reads the live version.
LEMMA HistoryFindActivePublished ==
  ASSUME History, NEW r \in Requests, NEW c \in Contacts, NEW e \in Events,
         FindActivePublishedAutomation(r, c, e)
  PROVE  History'
<1> DEFINE ref == [version |-> LiveVersion, node |-> ManualSource, reentry |-> "every_time"]
           s == [pc |-> "enrolling", contact |-> c, event |-> e, trigger |-> ref]
<1>1. ref \in TriggerRef
  BY ManualRef DEF FindActivePublishedAutomation
<1>2. s \in RequestState
  BY <1>1 DEF RequestState
<1>3. s.trigger.version <= published
  <2>1. s.trigger.version = published /\ published \in Nat
    BY DEF LiveVersion, History, TypeOK, Versions, NoVersion
  <2>2. QED
    BY <2>1
<1>4. request' = [request EXCEPT ![r] = s]
  BY DEF FindActivePublishedAutomation
<1>5. request' \in [Requests -> RequestState] /\
      \A q \in Requests :
        request'[q].pc = "enrolling" => request'[q].trigger.version <= published
  BY <1>2, <1>3, <1>4, RequestMoves
<1>6. TypeOK'
  BY <1>5 DEF FindActivePublishedAutomation, History, TypeOK, automation, contacts
<1>7. QED
  BY <1>5, <1>6, HistoryElsewhere
     DEF FindActivePublishedAutomation, Elsewhere, History, ReadsStand

\* Enrolling keeps it, however many publishes have happened since the read.
LEMMA HistoryEnrollFromTrigger ==
  ASSUME History, NEW r \in Requests, EnrollFromTrigger(r)
  PROVE  History'
<1>1. request[r].pc = "enrolling" /\ request[r].contact \in Contacts /\
      request[r].event \in Events /\ request[r].trigger \in TriggerRef
  BY EnrollingRequest DEF EnrollFromTrigger, History
<1>2. request[r].event # NoEvent
  BY <1>1, PublishingAssumption
<1>3. enrollments' \subseteq Enrollment
  BY <1>1, <1>2, EnrollContactType DEF EnrollFromTrigger, History, SourceEvents
<1>4. ASSUME NEW x \in enrollments' PROVE x.version <= published
  <2>1. request[r].trigger.version <= published
    BY <1>1 DEF History, ReadsStand
  <2>2. CASE x \in enrollments
    BY <2>2 DEF History, ReadsStand
  <2>3. CASE x \notin enrollments
    BY <2>1, <2>3, EnrollContactResult DEF EnrollFromTrigger
  <2>4. QED
    BY <2>2, <2>3
<1>5. request' = [request EXCEPT ![r] = IdleRequest]
  BY DEF EnrollFromTrigger
<1>6. request' \in [Requests -> RequestState] /\
      \A q \in Requests :
        request'[q].pc = "enrolling" => request'[q].trigger.version <= published
  BY <1>5, IdleStates, RequestMoves
<1>7. TypeOK'
  BY <1>3, <1>6 DEF EnrollFromTrigger, History, TypeOK, automation, contacts
<1>8. QED
  BY <1>4, <1>6, <1>7, HistoryElsewhere DEF EnrollFromTrigger, Elsewhere, History, ReadsStand

\* The scan's trigger is one for inactive contacts, which enroll once.
LEMMA HistoryListInactive ==
  ASSUME History, ListInactiveEnrollmentCandidates
  PROVE  History'
<1>1. PICK t \in ActiveTriggers :
         t.type = NoType /\ scan' = [todo |-> Oldest(Candidates), trigger |-> Ref(t)]
  BY DEF ListInactiveEnrollmentCandidates
<1>2. Ref(t) \in TriggerRef /\ Ref(t).version <= published
  BY ActiveRef
<1>3. Ref(t).reentry = Once
  <2>1. t \in trigger /\ trigger # {}
    BY DEF ActiveTriggers
  <2>2. PICK g \in ValidGraphs : t = TriggerFor(published, g)
    BY <2>1 DEF History, OneTrigger
  <2>3. g \in Graphs /\ EventType[g] = NoType
    BY <1>1, <2>2, PublishingAssumption DEF TriggerFor
  <2>4. QED
    BY <2>2, <2>3, PublishingAssumption DEF TriggerFor, Ref
<1>4. Oldest(Candidates) \subseteq Contacts
  BY DEF Oldest, Candidates, History, TypeOK
<1>5. scan' \in ScanState
  BY <1>1, <1>2, <1>4 DEF ScanState
<1>6. TypeOK'
  BY <1>5 DEF ListInactiveEnrollmentCandidates, History, TypeOK, automation, contacts
<1>7. scan'.todo # {} => scan'.trigger.version <= published /\ scan'.trigger.reentry = Once
  BY <1>1, <1>2, <1>3
<1>8. QED
  BY <1>6, <1>7, HistoryElsewhere
     DEF ListInactiveEnrollmentCandidates, Elsewhere, History, ReadsStand

\* Enrolling the scan's next contact keeps it, whatever was published since.
LEMMA HistoryEnrollInactive ==
  ASSUME History, EnrollInactiveContact
  PROVE  History'
<1>1. PICK c \in scan.todo :
         /\ enrollments' = EnrollContact(c, scan.trigger, NoEvent)
         /\ scan' = IF scan.todo = {c} THEN IdleScan ELSE [scan EXCEPT !.todo = @ \ {c}]
  BY DEF EnrollInactiveContact
<1>2. scan \in [todo : SUBSET Contacts, trigger : TriggerRef]
  BY <1>1, ScanHolds DEF History
<1>3. scan.trigger.version <= published /\ scan.trigger.reentry = Once
  BY <1>1 DEF History, ReadsStand
<1>4. enrollments' \subseteq Enrollment
  BY <1>1, <1>2, <1>3, EnrollContactType DEF History
<1>5. ASSUME NEW x \in enrollments' PROVE x.version <= published
  <2>1. CASE x \in enrollments
    BY <2>1 DEF History, ReadsStand
  <2>2. CASE x \notin enrollments
    BY <1>1, <1>3, <2>2, EnrollContactResult
  <2>3. QED
    BY <2>1, <2>2
<1>6. /\ scan' \in ScanState
      /\ scan'.todo # {} => scan'.trigger.version <= published /\ scan'.trigger.reentry = Once
  <2>1. CASE scan.todo = {c}
    BY <1>1, <2>1, IdleStates DEF IdleScan
  <2>2. CASE scan.todo # {c}
    <3>1. scan' = [scan EXCEPT !.todo = @ \ {c}]
      BY <1>1, <2>2
    <3>2. scan' \in [todo : SUBSET Contacts, trigger : TriggerRef] /\ scan'.trigger = scan.trigger
      BY <1>2, <3>1
    <3>3. QED
      BY <1>3, <3>2 DEF ScanState
  <2>3. QED
    BY <2>1, <2>2
<1>7. TypeOK'
  BY <1>4, <1>6 DEF EnrollInactiveContact, History, TypeOK, automation, contacts
<1>8. QED
  BY <1>5, <1>6, <1>7, HistoryElsewhere DEF EnrollInactiveContact, Elsewhere, History, ReadsStand

\* A request or a scan that dies keeps it.
LEMMA HistoryDies ==
  ASSUME History, ScanDies \/ \E r \in Requests : RequestDies(r)
  PROVE  History'
<1>1. crashes' \in 0..MaxCrashes
  BY PublishingAssumption DEF ScanDies, RequestDies, History, TypeOK
<1>2. CASE ScanDies
  <2>1. TypeOK'
    BY <1>1, <1>2, IdleStates DEF ScanDies, History, TypeOK, automation, contacts
  <2>2. QED
    BY <1>2, <2>1, HistoryElsewhere DEF ScanDies, Elsewhere, History, ReadsStand, IdleScan
<1>3. ASSUME NEW r \in Requests, RequestDies(r) PROVE History'
  <2>1. request' \in [Requests -> RequestState] /\
        \A q \in Requests :
          request'[q].pc = "enrolling" => request'[q].trigger.version <= published
    BY <1>3, IdleStates, RequestMoves DEF RequestDies
  <2>2. TypeOK'
    BY <1>1, <1>3, <2>1 DEF RequestDies, History, TypeOK, automation, contacts
  <2>3. QED
    BY <1>3, <2>1, <2>2, HistoryElsewhere DEF RequestDies, Elsewhere, History, ReadsStand
<1>4. QED
  BY <1>2, <1>3

\* Every enrolling step keeps the invariant.
LEMMA HistoryEnrolling ==
  ASSUME History, Enrolling
  PROVE  History'
<1>1. ASSUME NEW c \in Contacts, BecomeInactive(c) \/ ArchiveOrRestore(c)
      PROVE  History'
  <2>1. TypeOK'
    BY <1>1 DEF BecomeInactive, ArchiveOrRestore, History, TypeOK, automation
  <2>2. QED
    BY <1>1, <2>1, HistoryElsewhere
       DEF BecomeInactive, ArchiveOrRestore, Elsewhere, History, ReadsStand
<1>2. QED
  BY <1>1, HistoryRecordContactEvent, HistoryListActiveTriggers, HistoryFindActivePublished,
     HistoryEnrollFromTrigger, HistoryListInactive, HistoryEnrollInactive, HistoryDies
     DEF Enrolling

\* The versions are a history and what requests read stands, always.
LEMMA HistoryInvariant == Spec => []History
<1>1. Init => History
  <2> SUFFICES ASSUME Init PROVE History
    OBVIOUS
  <2>1. 1 \in Versions /\ Versions \subseteq Nat
    BY PublishingAssumption DEF Versions
  <2>2. PICK g \in Graphs :
          version = [v \in Versions |->
                       IF v = 1 THEN [status |-> "draft", graph |-> g]
                       ELSE [status |-> "absent", graph |-> NoGraph]]
    BY DEF Init
  <2>3. version \in [Versions -> VersionRow]
    BY <2>2 DEF VersionRow
  <2>4. IdlePublisher \in PublisherState /\ IdlePublisher.pc = "idle" /\ 0 \in 0..MaxCrashes
    BY PublishingAssumption DEF IdlePublisher, PublisherState
  <2>5. TypeOK
    BY <2>1, <2>3, <2>4, IdleStates DEF Init, TypeOK
  <2>6. OneDraft
    <3>1. ASSUME NEW v \in Versions
          PROVE  version[v].status = IF v < 1 THEN "published" ELSE IF v = 1 THEN "draft" ELSE "absent"
      <4>1. v \in Nat /\ ~(v < 1)
        BY DEF Versions
      <4>2. CASE v = 1
        BY <2>2, <4>1, <4>2
      <4>3. CASE v # 1
        BY <2>2, <4>1, <4>3
      <4>4. QED
        BY <4>2, <4>3
    <3>2. QED
      BY <3>1 DEF Init, OneDraft, NoVersion
  <2>7. OneTrigger
    BY DEF Init, OneTrigger
  <2>8. ReadsStand
    <3>1. \A v \in Versions : version[v].status # "absent" => version[v].graph \in Graphs
      BY <2>2
    <3>2. QED
      BY <2>4, <3>1, IdleStates DEF Init, ReadsStand, IdleScan
  <2>9. QED
    BY <2>5, <2>6, <2>7, <2>8 DEF History
<1>2. History /\ [Next]_vars => History'
  <2>1. History /\ UNCHANGED vars => History'
    BY DEF History, TypeOK, OneDraft, OneTrigger, ReadsStand, vars, automation, contacts
  <2>2. QED
    BY <2>1, HistoryEditing, HistoryEnrolling DEF Next
<1>3. QED
  BY <1>1, <1>2, PTL DEF Spec

-----------------------------------------------------------------------------
\* Every variable keeps its type, in every instance: what requests read of the
\* versions can be written back whatever happened in between.
THEOREM TypeCorrect == Spec => []TypeOK
<1>1. History => TypeOK
  BY DEF History
<1>2. QED
  BY <1>1, HistoryInvariant, PTL

\* The versions of an automation are a history with one draft, in every
\* instance: the unique index on (automation, version) makes publishDraft of an
\* overtaken request write nothing.
THEOREM OneDraftAlways == Spec => []OneDraft
<1>1. History => OneDraft
  BY DEF History
<1>2. QED
  BY <1>1, HistoryInvariant, PTL

\* A published automation has one trigger and it names the live version, in
\* every instance: publishDraft replaces the row in the batch that moves
\* published_version_id.
THEOREM TriggerAlwaysPublished == Spec => []TriggerIsPublished
<1>1. History => TriggerIsPublished
  <2> SUFFICES ASSUME History PROVE TriggerIsPublished
    OBVIOUS
  <2>1. CASE published = NoVersion
    <3>1. trigger = {} /\ Cardinality({}) = 0
      BY <2>1, FS_EmptySet DEF History, OneTrigger
    <3>2. QED
      BY <2>1, <3>1 DEF History, OneTrigger, TriggerIsPublished
  <2>2. CASE published # NoVersion
    <3>1. PICK g \in ValidGraphs : trigger = {TriggerFor(published, g)}
      BY <2>2 DEF History, OneTrigger
    <3>2. Cardinality(trigger) = 1
      BY <3>1, FS_Singleton
    <3>3. { t.version : t \in trigger } = {published}
      BY <3>1 DEF TriggerFor
    <3>4. QED
      BY <2>2, <3>2, <3>3 DEF History, OneTrigger, TriggerIsPublished
  <2>3. QED
    BY <2>1, <2>2
<1>2. QED
  BY <1>1, HistoryInvariant, PTL

\* Nobody is enrolled into a version that can still be edited, in every
\* instance and however long an enrolling request holds what it has read.
THEOREM EnrolledAlwaysPublished == Spec => []EnrolledOnPublished
<1>1. History => EnrolledOnPublished
  <2> SUFFICES ASSUME History, NEW x \in enrollments
               PROVE  version[x.version].status = "published"
    BY DEF EnrolledOnPublished
  <2>1. x.version \in Versions /\ x.version <= published
    BY DEF History, TypeOK, Enrollment, ReadsStand
  <2>2. x.version < draft
    BY <2>1 DEF History, TypeOK, OneDraft, Versions
  <2>3. QED
    BY <2>1, <2>2 DEF History, OneDraft
<1>2. QED
  BY <1>1, HistoryInvariant, PTL

-----------------------------------------------------------------------------
\* What each step does to the versions.
LEMMA VersionsChange ==
  ASSUME History, [Next]_vars
  PROVE  \/ UNCHANGED automation
         \/ UNCHANGED <<version, draft, published, trigger>>
         \/ \E g \in Graphs : SaveDraft(g)
         \/ \E p \in Publishers : PublishDraft(p) /\ PublishesDraft(p)
<1>1. CASE Editing
  <2>1. ASSUME NEW p \in Publishers, PublishDraft(p)
        PROVE  PublishesDraft(p) \/ UNCHANGED automation
    BY <2>1, PublishEffect
  <2>2. ASSUME NEW p \in Publishers, FindPublishableDraft(p) \/ CheckTemplates(p)
        PROVE  UNCHANGED automation
    BY <2>2 DEF FindPublishableDraft, CheckTemplates
  <2>3. ASSUME NEW s \in {"active", "paused"}, SetAutomationStatus(s)
        PROVE  UNCHANGED <<version, draft, published, trigger>>
    BY <2>3 DEF SetAutomationStatus
  <2>4. TemplateChanges => UNCHANGED automation
    BY DEF TemplateChanges
  <2>5. QED
    BY <1>1, <2>1, <2>2, <2>3, <2>4 DEF Editing
<1>2. CASE Enrolling \/ UNCHANGED vars
  <2>1. Enrolling => UNCHANGED automation
    BY DEF Enrolling, RecordContactEvent, FindActivePublishedAutomation,
       ListActiveTriggersForEvent, EnrollFromTrigger, RequestDies,
       ListInactiveEnrollmentCandidates, EnrollInactiveContact, ScanDies, BecomeInactive,
       ArchiveOrRestore
  <2>2. UNCHANGED vars => UNCHANGED automation
    BY DEF vars, automation
  <2>3. QED
    BY <1>2, <2>1, <2>2
<1>3. QED
  BY <1>1, <1>2 DEF Next

\* The history rows are never written again, whatever the step.
LEMMA PublishedStays ==
  ASSUME History, [Next]_vars, NEW v \in Versions, version[v].status = "published"
  PROVE  version'[v] = version[v]
<1>1. v \in Nat /\ draft \in Nat /\ v < draft
  BY DEF History, TypeOK, OneDraft, Versions
<1>2. ASSUME NEW g \in Graphs, SaveDraft(g) PROVE version'[v] = version[v]
  BY <1>1, <1>2 DEF SaveDraft, Editable
<1>3. ASSUME NEW p \in Publishers, PublishesDraft(p) PROVE version'[v] = version[v]
  BY <1>1, <1>3 DEF PublishesDraft, History, TypeOK
<1>4. QED
  BY <1>2, <1>3, VersionsChange DEF automation

\* What has been published never changes, in every instance: a contact in
\* progress finds the graph it was enrolled into.
THEOREM PublishedIsImmutable == Spec => PublishedImmutable
<1>1. History /\ [Next]_vars =>
        [\A v \in Versions : version[v].status = "published" => version'[v] = version[v]]_vars
  BY PublishedStays
<1>2. QED
  BY <1>1, HistoryInvariant, PTL DEF Spec, PublishedImmutable

\* The live version only moves forward, in every instance: two publishes that
\* read the same draft cannot leave the older one live.
THEOREM NeverRollsBack == Spec => PublishedNeverRollsBack
<1>1. History /\ [Next]_vars => [published' >= published]_vars
  <2> SUFFICES ASSUME History, [Next]_vars PROVE published' >= published
    OBVIOUS
  <2>1. published \in Nat /\ draft \in Nat /\ published = draft - 1
    BY DEF History, TypeOK, OneDraft, Versions, NoVersion
  <2>2. published' = published \/ published' = draft
    BY VersionsChange DEF automation, SaveDraft, PublishesDraft
  <2>3. QED
    BY <2>1, <2>2
<1>2. QED
  BY <1>1, HistoryInvariant, PTL DEF Spec, PublishedNeverRollsBack

-----------------------------------------------------------------------------
(* While no save overlaps a publish request, what is published is what was *)
(* validated, and everybody is enrolled as the published graph says.       *)

\* The trigger a request holds is the one of the graph its version has.
RefMatches(ref) ==
  LET g == version[ref.version].graph IN
  /\ ref.node = SourceNode[g]
  /\ ~ManualEnrollment => ref.reentry = Reentry[g]

RequestMatches(r) == request[r].pc = "enrolling" => RefMatches(request[r].trigger)

ScanMatches == scan.todo # {} => RefMatches(scan.trigger)

\* Publish requests hold the graph the draft still has, and enrolling requests
\* and the scan the trigger its version still has.
ReadsCurrent ==
  /\ \A p \in Publishers :
       publisher[p].pc # "idle" /\ publisher[p].version = draft =>
         publisher[p].graph = version[draft].graph
  /\ \A r \in Requests : RequestMatches(r)
  /\ ScanMatches

\* Two enrollments differ in their contact or their source event id, and one
\* into a "once" version has the id that stands for "once".
EnrollmentsKeyed ==
  /\ \A x, y \in enrollments : x.contact = y.contact /\ x.source = y.source => x = y
  /\ ~ManualEnrollment =>
       \A x \in enrollments : Reentry[version[x.version].graph] = Once => x.source = Once

Faithful ==
  ReadsCurrent /\ PublishedIsValid /\ TriggerMatchesGraph /\ EnrolledAtSource /\ EnrollmentsKeyed

\* What names a published version keeps matching it.
LEMMA RefStays ==
  ASSUME History, [Next]_vars, NEW ref, ref.version \in Versions, ref.version <= published,
         RefMatches(ref)
  PROVE  RefMatches(ref)'
<1>1. version[ref.version].status = "published"
  BY DEF History, TypeOK, OneDraft, Versions
<1>2. version'[ref.version] = version[ref.version]
  BY <1>1, PublishedStays
<1>3. QED
  BY <1>2 DEF RefMatches

\* A publish request of the current draft holds the graph the draft has: no save
\* came in between.
LEMMA PublishersReadCurrent ==
  ASSUME EditWhilePublishing = FALSE, History, Faithful, [Next]_vars, NEW p \in Publishers,
         publisher'[p].pc # "idle", publisher'[p].version = draft'
  PROVE  publisher'[p].graph = version'[draft'].graph
<1>1. publisher[p].pc # "idle" /\ publisher[p].version = draft =>
        publisher[p].graph = version[draft].graph
  BY DEF Faithful, ReadsCurrent
<1>2. ASSUME NEW g \in Graphs, SaveDraft(g) PROVE FALSE
  BY <1>2 DEF SaveDraft
<1>3. ASSUME NEW q \in Publishers, FindPublishableDraft(q)
      PROVE  publisher'[p].graph = version'[draft'].graph
  <2>1. version' = version /\ draft' = draft
    BY <1>3 DEF FindPublishableDraft, automation
  <2>2. CASE p = q
    <3>1. publisher'[p] = [pc |-> AfterFind(version[draft].graph), version |-> draft,
                           graph |-> version[draft].graph] \/ publisher'[p] = IdlePublisher
      BY <1>3, <2>2 DEF FindPublishableDraft, History, TypeOK
    <3>2. QED
      BY <2>1, <3>1 DEF IdlePublisher
  <2>3. CASE p # q
    BY <1>1, <1>3, <2>1, <2>3 DEF FindPublishableDraft, History, TypeOK
  <2>4. QED
    BY <2>2, <2>3
<1>4. ASSUME NEW q \in Publishers, CheckTemplates(q)
      PROVE  publisher'[p].graph = version'[draft'].graph
  <2>1. version' = version /\ draft' = draft
    BY <1>4 DEF CheckTemplates, automation
  <2>2. CASE p = q
    <3>1. publisher[p] \in [pc : {"checking", "publishing"}, version : Versions, graph : Graphs]
      BY <1>4, <2>2 DEF CheckTemplates, History, TypeOK, PublisherState
    <3>2. publisher'[p] = [publisher[p] EXCEPT !.pc = "publishing"] \/ publisher'[p] = IdlePublisher
      BY <1>4, <2>2 DEF CheckTemplates, History, TypeOK
    <3>3. QED
      BY <1>1, <2>1, <3>1, <3>2 DEF IdlePublisher
  <2>3. CASE p # q
    BY <1>1, <1>4, <2>1, <2>3 DEF CheckTemplates, History, TypeOK
  <2>4. QED
    BY <2>2, <2>3
<1>5. ASSUME NEW q \in Publishers, PublishDraft(q)
      PROVE  publisher'[p].graph = version'[draft'].graph
  <2>1. publisher[p].pc # "idle" /\ publisher'[p] = publisher[p]
    BY <1>5 DEF PublishDraft, History, TypeOK, IdlePublisher
  <2>2. CASE PublishesDraft(q)
    <3>1. publisher[p].version <= draft /\ publisher[p].version \in Nat /\ draft \in Nat
      BY <2>1 DEF History, TypeOK, ReadsStand, PublisherState, Versions
    <3>2. publisher[p].version = draft + 1
      BY <2>1, <2>2 DEF PublishesDraft
    <3>3. QED
      BY <3>1, <3>2
  <2>3. CASE UNCHANGED automation
    BY <1>1, <2>1, <2>3 DEF automation
  <2>4. QED
    BY <1>5, <2>2, <2>3, PublishEffect
<1>6. CASE Enrolling \/ TemplateChanges \/ (\E s \in {"active", "paused"} : SetAutomationStatus(s))
           \/ UNCHANGED vars
  <2>1. UNCHANGED <<version, draft, publisher>>
    BY <1>6 DEF Enrolling, RecordContactEvent, FindActivePublishedAutomation,
         ListActiveTriggersForEvent, EnrollFromTrigger, RequestDies,
         ListInactiveEnrollmentCandidates, EnrollInactiveContact, ScanDies, BecomeInactive,
         ArchiveOrRestore, TemplateChanges, SetAutomationStatus, vars, automation
  <2>2. QED
    BY <1>1, <2>1
<1>7. QED
  BY <1>2, <1>3, <1>4, <1>5, <1>6 DEF Next, Editing

\* A publish publishes the graph its request validated, and registers the
\* trigger of that graph.
LEMMA PublishesWhatItRead ==
  ASSUME History, Faithful, [Next]_vars, EditWhilePublishing = FALSE
  PROVE  PublishedIsValid' /\ TriggerMatchesGraph'
<1>1. CASE UNCHANGED <<version, draft, published, trigger>>
  BY <1>1 DEF Faithful, PublishedIsValid, TriggerMatchesGraph, TriggerFor
<1>2. ASSUME NEW g \in Graphs, SaveDraft(g) PROVE PublishedIsValid' /\ TriggerMatchesGraph'
  <2>1. ASSUME NEW v \in Versions, version'[v].status = "published"
        PROVE  version'[v].graph = version[v].graph
    <3>1. version[v].status = "published"
      BY <1>2, <2>1, SaveDraftEffect
    <3>2. version'[v] = version[v]
      BY <1>2, <3>1, PublishedStays
    <3>3. QED
      BY <3>2
  <2>2. \A v \in Versions : version'[v].status = version[v].status
    BY <1>2, SaveDraftEffect
  <2>3. PublishedIsValid'
    BY <2>1, <2>2 DEF Faithful, PublishedIsValid
  <2>4. ASSUME NEW t \in trigger'
        PROVE  t = TriggerFor(published', version'[published'].graph)
    <3>1. t \in trigger /\ published' = published
      BY <1>2, <2>4 DEF SaveDraft
    <3>2. published \in Versions /\ version[published].status = "published"
      BY <3>1 DEF History, TypeOK, OneDraft, OneTrigger, Versions, NoVersion
    <3>3. version'[published].graph = version[published].graph
      BY <2>1, <2>2, <3>2
    <3>4. QED
      BY <3>1, <3>3 DEF Faithful, TriggerMatchesGraph
  <2>5. QED
    BY <2>3, <2>4 DEF TriggerMatchesGraph, TriggerFor
<1>3. ASSUME NEW p \in Publishers, PublishDraft(p), PublishesDraft(p)
      PROVE  PublishedIsValid' /\ TriggerMatchesGraph'
  <2> DEFINE g == publisher[p].graph
  <2>1. version[draft].graph = g /\ g \in ValidGraphs
    BY <1>3 DEF Faithful, ReadsCurrent, PublishDraft, PublishesDraft
  <2>2. /\ draft \in Versions /\ draft + 1 \in Versions
        /\ \A v \in Versions :
             version'[v] = IF v = draft
                           THEN [status |-> "published", graph |-> version[v].graph]
                           ELSE IF v = draft + 1
                           THEN [status |-> "draft", graph |-> g]
                           ELSE version[v]
    BY <1>3, PublishedHistory
  <2>3. draft \in Nat
    BY <2>2 DEF Versions
  <2>4. version'[draft].graph = g
    <3>1. version'[draft] = [status |-> "published", graph |-> version[draft].graph]
      BY <2>2
    <3>2. QED
      BY <2>1, <3>1
  <2>5. ASSUME NEW v \in Versions, version'[v].status = "published"
        PROVE  version'[v].graph \in ValidGraphs
    <3>1. CASE v = draft
      BY <2>1, <2>4, <3>1
    <3>2. CASE v # draft /\ v = draft + 1
      <4>1. version'[v] = [status |-> "draft", graph |-> g]
        BY <2>2, <2>3, <3>2
      <4>2. QED
        BY <2>5, <4>1
    <3>3. CASE v # draft /\ v # draft + 1
      <4>1. version'[v] = version[v]
        BY <2>2, <2>3, <3>3
      <4>2. QED
        BY <2>5, <4>1 DEF Faithful, PublishedIsValid
    <3>4. QED
      BY <3>1, <3>2, <3>3
  <2>6. TriggerMatchesGraph'
    BY <1>3, <2>4 DEF PublishesDraft, TriggerMatchesGraph, TriggerFor
  <2>7. QED
    BY <2>5, <2>6 DEF PublishedIsValid
<1>4. QED
  BY <1>1, <1>2, <1>3, VersionsChange DEF automation

\* Requests and the scan read the trigger of the live version, or its graph.
LEMMA ActiveRefMatches ==
  ASSUME History, Faithful, NEW t \in ActiveTriggers
  PROVE  RefMatches(Ref(t))
<1>1. t = TriggerFor(published, version[published].graph)
  BY DEF ActiveTriggers, Faithful, TriggerMatchesGraph
<1>2. Ref(t).version = published /\ Ref(t).node = SourceNode[version[published].graph] /\
      Ref(t).reentry = Reentry[version[published].graph]
  BY <1>1 DEF Ref, TriggerFor
<1>3. QED
  BY <1>2 DEF RefMatches

\* Who begins to enroll holds a trigger that matches.
LEMMA RequestsReadCurrent ==
  ASSUME History, Faithful, [Next]_vars, NEW r \in Requests, request'[r].pc = "enrolling"
  PROVE  RequestMatches(r)'
<1>1. CASE request[r].pc = "enrolling" /\ request'[r] = request[r]
  <2>1. request[r].trigger.version \in Versions /\ request[r].trigger.version <= published
    BY <1>1, EnrollingRequest DEF History, TriggerRef, ReadsStand
  <2>2. RefMatches(request[r].trigger)
    BY <1>1 DEF Faithful, ReadsCurrent, RequestMatches
  <2>3. QED
    BY <1>1, <2>1, <2>2, RefStays DEF RequestMatches, RefMatches
<1>2. ASSUME ListActiveTriggersForEvent(r) PROVE RequestMatches(r)'
  <2>1. PICK t \in ActiveTriggers :
          request' = [request EXCEPT ![r] = [pc |-> "enrolling", contact |-> @.contact,
                                             event |-> @.event, trigger |-> Ref(t)]]
    <3>1. request' # [request EXCEPT ![r] = IdleRequest]
      BY <1>2 DEF History, TypeOK, IdleRequest
    <3>2. QED
      BY <1>2, <3>1 DEF ListActiveTriggersForEvent
  <2>2. request'[r].trigger = Ref(t)
    BY <2>1 DEF History, TypeOK
  <2>3. RefMatches(Ref(t)) /\ version' = version
    BY <1>2, ActiveRefMatches DEF ListActiveTriggersForEvent, automation
  <2>4. QED
    BY <2>2, <2>3 DEF RequestMatches, RefMatches
<1>3. ASSUME NEW c \in Contacts, NEW e \in Events, FindActivePublishedAutomation(r, c, e)
      PROVE  RequestMatches(r)'
  <2>1. request'[r].trigger = [version |-> published, node |-> SourceNode[version[published].graph],
                               reentry |-> "every_time"]
    BY <1>3 DEF FindActivePublishedAutomation, LiveVersion, ManualSource, History, TypeOK
  <2>2. ManualEnrollment /\ version' = version
    BY <1>3 DEF FindActivePublishedAutomation, automation
  <2>3. QED
    BY <2>1, <2>2 DEF RequestMatches, RefMatches
<1>4. \/ request'[r] = request[r]
      \/ ListActiveTriggersForEvent(r)
      \/ \E c \in Contacts, e \in Events : FindActivePublishedAutomation(r, c, e)
  <2>1. CASE Enrolling
    <3>1. ASSUME NEW q \in Requests, NEW c \in Contacts, NEW e \in Events,
                 RecordContactEvent(q, c, e)
          PROVE  request'[r] = request[r]
      BY <3>1 DEF RecordContactEvent, History, TypeOK
    <3>2. ASSUME NEW q \in Requests, NEW c \in Contacts, NEW e \in Events,
                 FindActivePublishedAutomation(q, c, e)
          PROVE  request'[r] = request[r] \/ q = r
      BY <3>2 DEF FindActivePublishedAutomation, History, TypeOK
    <3>3. ASSUME NEW q \in Requests, ListActiveTriggersForEvent(q)
          PROVE  request'[r] = request[r] \/ q = r
      BY <3>3 DEF ListActiveTriggersForEvent, History, TypeOK
    <3>4. ASSUME NEW q \in Requests, EnrollFromTrigger(q) \/ RequestDies(q)
          PROVE  request'[r] = request[r]
      BY <3>4 DEF EnrollFromTrigger, RequestDies, History, TypeOK, IdleRequest
    <3>5. ListInactiveEnrollmentCandidates \/ EnrollInactiveContact \/ ScanDies \/
          (\E c \in Contacts : BecomeInactive(c) \/ ArchiveOrRestore(c)) => request' = request
      BY DEF ListInactiveEnrollmentCandidates, EnrollInactiveContact, ScanDies, BecomeInactive,
         ArchiveOrRestore
    <3>6. QED
      BY <2>1, <3>1, <3>2, <3>3, <3>4, <3>5 DEF Enrolling
  <2>2. CASE Editing \/ UNCHANGED vars
    BY <2>2 DEF Editing, SaveDraft, FindPublishableDraft, CheckTemplates, PublishDraft,
         TemplateChanges, SetAutomationStatus, vars
  <2>3. QED
    BY <2>1, <2>2 DEF Next
<1>5. QED
  BY <1>1, <1>2, <1>3, <1>4 DEF RequestMatches

\* The scan holds a trigger that matches its version.
LEMMA ScanReadsCurrent ==
  ASSUME History, Faithful, [Next]_vars, scan'.todo # {}
  PROVE  ScanMatches'
<1>1. CASE ListInactiveEnrollmentCandidates
  <2>1. PICK t \in ActiveTriggers : scan' = [todo |-> Oldest(Candidates), trigger |-> Ref(t)]
    BY <1>1 DEF ListInactiveEnrollmentCandidates
  <2>2. RefMatches(Ref(t)) /\ version' = version
    BY <1>1, ActiveRefMatches DEF ListInactiveEnrollmentCandidates, automation
  <2>3. QED
    BY <2>1, <2>2 DEF ScanMatches, RefMatches
<1>2. CASE scan.todo # {} /\ scan'.trigger = scan.trigger
  <2>1. scan.trigger.version \in Versions /\ scan.trigger.version <= published
    BY <1>2, ScanHolds DEF History, TriggerRef, ReadsStand
  <2>2. RefMatches(scan.trigger)
    BY <1>2 DEF Faithful, ReadsCurrent, ScanMatches
  <2>3. QED
    BY <1>2, <2>1, <2>2, RefStays DEF ScanMatches, RefMatches
<1>3. CASE EnrollInactiveContact
  <2>1. scan.todo # {} /\ scan \in [todo : SUBSET Contacts, trigger : TriggerRef]
    BY <1>3, ScanHolds DEF EnrollInactiveContact, History
  <2>2. PICK c \in scan.todo : scan' = IF scan.todo = {c} THEN IdleScan ELSE [scan EXCEPT !.todo = @ \ {c}]
    BY <1>3 DEF EnrollInactiveContact
  <2>3. scan' = [scan EXCEPT !.todo = @ \ {c}]
    BY <2>2 DEF IdleScan
  <2>4. scan'.trigger = scan.trigger
    BY <2>1, <2>3
  <2>5. QED
    BY <1>2, <2>1, <2>4
<1>4. CASE scan' = scan
  BY <1>2, <1>4 DEF ScanMatches
<1>5. ListInactiveEnrollmentCandidates \/ EnrollInactiveContact \/ scan' = scan
  <2>1. ~ScanDies
    BY DEF ScanDies, IdleScan
  <2>2. QED
    BY <2>1 DEF Next, Editing, Enrolling, SaveDraft, FindPublishableDraft, CheckTemplates, PublishDraft,
         TemplateChanges, SetAutomationStatus, RecordContactEvent,
         FindActivePublishedAutomation, ListActiveTriggersForEvent, EnrollFromTrigger,
         RequestDies, BecomeInactive, ArchiveOrRestore, vars
<1>6. QED
  BY <1>1, <1>3, <1>4, <1>5

\* Enrolling adds an enrollment only under a key that is free, and what it
\* adds is what the trigger that is held says.
LEMMA EnrollKeepsKeys ==
  ASSUME History, Faithful, [Next]_vars,
         NEW c, NEW ref, NEW e, RefMatches(ref), ref.version \in Versions,
         ref.version <= published, enrollments' = EnrollContact(c, ref, e)
  PROVE  EnrolledAtSource' /\ EnrollmentsKeyed'
<1> DEFINE new == [contact |-> c, source |-> SourceEventId(ref, e),
                   version |-> ref.version, node |-> ref.node]
<1>1. \/ enrollments' = enrollments
      \/ /\ enrollments' = enrollments \union {new}
         /\ \A x \in enrollments : ~(x.contact = new.contact /\ x.source = new.source)
  BY DEF EnrollContact
<1>2. ASSUME NEW x \in enrollments PROVE version'[x.version] = version[x.version]
  <2>1. x.version \in Versions /\ x.version <= published
    BY DEF History, TypeOK, Enrollment, ReadsStand
  <2>2. version[x.version].status = "published"
    BY <2>1 DEF History, TypeOK, OneDraft, Versions
  <2>3. QED
    BY <2>1, <2>2, PublishedStays
<1>3. RefMatches(ref)'
  BY RefStays
<1>4. EnrolledAtSource'
  <2>1. \A x \in enrollments : x.node = SourceNode[version'[x.version].graph]
    BY <1>2 DEF Faithful, EnrolledAtSource
  <2>2. new.node = SourceNode[version'[new.version].graph]
    BY <1>3 DEF RefMatches
  <2>3. QED
    BY <1>1, <2>1, <2>2 DEF EnrolledAtSource
<1>5. \A x, y \in enrollments' : x.contact = y.contact /\ x.source = y.source => x = y
  BY <1>1 DEF Faithful, EnrollmentsKeyed
<1>6. ASSUME ~ManualEnrollment, NEW x \in enrollments', Reentry[version'[x.version].graph] = Once
      PROVE  x.source = Once
  <2>1. CASE x \in enrollments
    BY <1>2, <1>6, <2>1 DEF Faithful, EnrollmentsKeyed
  <2>2. CASE x = new
    <3>1. ref.reentry = Once
      BY <1>3, <1>6, <2>2 DEF RefMatches
    <3>2. QED
      BY <2>2, <3>1 DEF SourceEventId
  <2>3. QED
    BY <1>1, <2>1, <2>2
<1>7. QED
  BY <1>4, <1>5, <1>6 DEF EnrollmentsKeyed

\* Every step keeps the enrollments keyed and at their sources.
LEMMA EnrollmentsStay ==
  ASSUME History, Faithful, [Next]_vars
  PROVE  EnrolledAtSource' /\ EnrollmentsKeyed'
<1>1. ASSUME NEW r \in Requests, EnrollFromTrigger(r)
      PROVE  EnrolledAtSource' /\ EnrollmentsKeyed'
  <2>1. request[r].pc = "enrolling" /\ request[r].trigger \in TriggerRef
    BY <1>1, EnrollingRequest DEF EnrollFromTrigger, History
  <2>2. RefMatches(request[r].trigger) /\ request[r].trigger.version <= published /\
        request[r].trigger.version \in Versions
    BY <2>1 DEF History, Faithful, ReadsCurrent, RequestMatches, ReadsStand, TriggerRef
  <2>3. enrollments' = EnrollContact(request[r].contact, request[r].trigger, request[r].event)
    BY <1>1 DEF EnrollFromTrigger
  <2>4. QED
    BY <2>2, <2>3, EnrollKeepsKeys
<1>2. CASE EnrollInactiveContact
  <2>1. PICK c \in scan.todo : enrollments' = EnrollContact(c, scan.trigger, NoEvent)
    BY <1>2 DEF EnrollInactiveContact
  <2>2. scan.trigger \in TriggerRef
    BY <2>1, ScanHolds DEF History
  <2>3. RefMatches(scan.trigger) /\ scan.trigger.version <= published /\
        scan.trigger.version \in Versions
    BY <2>1, <2>2 DEF History, Faithful, ReadsCurrent, ScanMatches, ReadsStand, TriggerRef
  <2>4. QED
    BY <2>1, <2>3, EnrollKeepsKeys
<1>3. CASE enrollments' = enrollments
  <2>1. ASSUME NEW x \in enrollments PROVE version'[x.version] = version[x.version]
    <3>1. x.version \in Versions /\ x.version <= published
      BY DEF History, TypeOK, Enrollment, ReadsStand
    <3>2. version[x.version].status = "published"
      BY <3>1 DEF History, TypeOK, OneDraft, Versions
    <3>3. QED
      BY <3>1, <3>2, PublishedStays
  <2>2. QED
    BY <1>3, <2>1 DEF Faithful, EnrolledAtSource, EnrollmentsKeyed
<1>4. (\E r \in Requests : EnrollFromTrigger(r)) \/ EnrollInactiveContact \/
      enrollments' = enrollments
  BY DEF Next, Editing, Enrolling, SaveDraft, FindPublishableDraft, CheckTemplates, PublishDraft,
     TemplateChanges, SetAutomationStatus, RecordContactEvent, FindActivePublishedAutomation,
     ListActiveTriggersForEvent, RequestDies, ScanDies, ListInactiveEnrollmentCandidates,
     BecomeInactive, ArchiveOrRestore, vars
<1>5. QED
  BY <1>1, <1>2, <1>3, <1>4

\* Without overlapping saves, what is held and published is what was validated.
LEMMA FaithfulInvariant ==
  ASSUME EditWhilePublishing = FALSE PROVE Spec => []Faithful
<1>1. Init => Faithful
  <2> SUFFICES ASSUME Init PROVE Faithful
    OBVIOUS
  <2>1. IdlePublisher.pc = "idle" /\ IdleRequest.pc # "enrolling" /\ IdleScan.todo = {}
    BY DEF IdlePublisher, IdleRequest, IdleScan
  <2>2. ReadsCurrent
    BY <2>1 DEF Init, ReadsCurrent, RequestMatches, ScanMatches
  <2>3. \A v \in Versions : version[v].status # "published"
    BY DEF Init
  <2>4. QED
    BY <2>2, <2>3
       DEF Init, Faithful, PublishedIsValid, TriggerMatchesGraph, EnrolledAtSource,
           EnrollmentsKeyed
<1>2. History /\ Faithful /\ [Next]_vars => Faithful'
  <2> SUFFICES ASSUME History, Faithful, [Next]_vars PROVE Faithful'
    OBVIOUS
  <2>1. \A r \in Requests : RequestMatches(r)'
    BY RequestsReadCurrent DEF RequestMatches
  <2>2. ScanMatches'
    BY ScanReadsCurrent DEF ScanMatches
  <2>3. ReadsCurrent'
    BY <2>1, <2>2, PublishersReadCurrent DEF ReadsCurrent
  <2>4. QED
    BY <2>3, PublishesWhatItRead, EnrollmentsStay DEF Faithful
<1>3. QED
  BY <1>1, <1>2, HistoryInvariant, PTL DEF Spec

\* What is published has passed validateAutomation, in every instance in which
\* no save overlaps a publish request.  Without the assumption it is false: the
\* run publishing_unvalidated.
THEOREM PublishedAlwaysValid ==
  ASSUME EditWhilePublishing = FALSE PROVE Spec => []PublishedIsValid
<1>1. Faithful => PublishedIsValid
  BY DEF Faithful
<1>2. QED
  BY <1>1, FaithfulInvariant, PTL

\* The registered trigger is the one the live graph describes, in every
\* instance in which no save overlaps a publish request: the row is computed
\* from the graph the request read.
THEOREM TriggerAlwaysMatches ==
  ASSUME EditWhilePublishing = FALSE PROVE Spec => []TriggerMatchesGraph
<1>1. Faithful => TriggerMatchesGraph
  BY DEF Faithful
<1>2. QED
  BY <1>1, FaithfulInvariant, PTL

\* Contacts in progress start at the source node of the graph they were
\* enrolled into, in every instance in which no save overlaps a publish
\* request, also when an enrolling request holds an overtaken trigger.
THEOREM EnrolledAlwaysAtSource ==
  ASSUME EditWhilePublishing = FALSE PROVE Spec => []EnrolledAtSource
<1>1. Faithful => EnrolledAtSource
  BY DEF Faithful
<1>2. QED
  BY <1>1, FaithfulInvariant, PTL

\* A contact takes part once in the versions of an automation entered once, in
\* every instance without enrollment by hand, which ignores reentry, and in
\* which no save overlaps a publish request: the unique index on (automation,
\* contact, source event) outlives the version that enrolled the contact.
THEOREM OnceEnrollsAlwaysOnce ==
  ASSUME EditWhilePublishing = FALSE, ManualEnrollment = FALSE
  PROVE  Spec => []OnceEnrollsOnce
<1>1. Faithful => OnceEnrollsOnce
  <2> SUFFICES ASSUME Faithful, NEW c \in Contacts
               PROVE  Cardinality({ x \in enrollments :
                                      /\ x.contact = c
                                      /\ Reentry[version[x.version].graph] = Once }) <= 1
    BY DEF OnceEnrollsOnce
  <2> DEFINE E == { x \in enrollments : /\ x.contact = c
                                        /\ Reentry[version[x.version].graph] = Once }
  <2>1. \A x, y \in E : x = y
    BY DEF Faithful, EnrollmentsKeyed
  <2>2. CASE E = {}
    BY <2>2, FS_EmptySet
  <2>3. CASE E # {}
    <3>1. PICK x \in E : TRUE
      BY <2>3
    <3>2. E = {x}
      BY <2>1, <3>1
    <3>3. Cardinality(E) = 1
      BY <3>2, FS_Singleton
    <3>4. QED
      BY <3>3
  <2>4. QED
    BY <2>2, <2>3
<1>2. QED
  BY <1>1, FaithfulInvariant, PTL
=============================================================================
