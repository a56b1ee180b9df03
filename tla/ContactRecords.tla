--------------------------- MODULE ContactRecords ---------------------------
(***************************************************************************)
(* The columns that repeat what other rows say about a contact: its score  *)
(* (the sum of its score events), a segment's member count (the number of  *)
(* its memberships), and its primary company (at most one of its links).   *)
(*                                                                         *)
(*   apps/server/src/contacts/resource-service.ts, company-service.ts      *)
(*   apps/server/src/segments/membership-service.ts, router.ts             *)
(*   packages/database/src/contacts/resource-repository.ts,                *)
(*     company-repository.ts; packages/database/src/segments/repository.ts *)
(*   packages/database/src/automations/repository.ts   the actions' SQL    *)
(*                                                                         *)
(* Members' requests, automation steps and the daily maintenance write the *)
(* same rows.  A request is one step per statement or batch.  A score      *)
(* event is its delta; the tags, which nothing counts, the fields and the  *)
(* segment_joined event that follows a recount are left out.               *)
(***************************************************************************)
EXTENDS Integers, FiniteSets

CONSTANTS
  ContactIds,
  StaticSegments, DynamicSegments,   \* ids segments of each kind may get
  Companies,
  Deltas,        \* what a score is adjusted by
  MaxScore,      \* bound: scores stay between -MaxScore and MaxScore
  RecordRequests \* concurrent requests

Segments == StaticSegments \cup DynamicSegments
Sources == {"none", "static", "dynamic", "automation"}
Links == {"none", "linked", "primary"}

ASSUME ContactRecordsAssumption ==
  /\ StaticSegments \cap DynamicSegments = {}
  /\ Deltas \subseteq Int
  /\ MaxScore \in Nat
  /\ IsFiniteSet(ContactIds)

VARIABLES
  archived,    \* the archived contacts
  score,       \* ContactIds -> contacts.score
  ledger,      \* ContactIds -> the sum of its score events
  created,     \* the segments that exist
  membership,  \* Segments -> ContactIds -> the source of the row, or "none"
  memberCount, \* Segments -> segments.member_count
  behind,      \* history: segments changed by a step that recounts nothing
  company,     \* Companies -> ContactIds -> the link
  recordReq    \* RecordRequests -> what the request is about to do

scoreVars == <<score, ledger>>
segmentVars == <<created, membership, memberCount, behind>>
recordVars == <<archived, scoreVars, segmentVars, company, recordReq>>

IdleRecord == [step |-> "idle"]
RecordRequestState ==
  {IdleRecord}
    \cup [step : {"refresh", "recount", "replace"}, segment : Segments]
    \cup [step : {"assign"}, company : Companies, contact : ContactIds, isPrimary : BOOLEAN]

RecordTypeOK ==
  /\ archived \subseteq ContactIds
  /\ score \in [ContactIds -> Int]
  /\ ledger \in [ContactIds -> Int]
  /\ created \subseteq Segments
  /\ membership \in [Segments -> [ContactIds -> Sources]]
  /\ memberCount \in [Segments -> Nat]
  /\ behind \subseteq Segments
  /\ company \in [Companies -> [ContactIds -> Links]]
  /\ recordReq \in [RecordRequests -> RecordRequestState]

RecordInit ==
  /\ archived = {}
  /\ score = [c \in ContactIds |-> 0]
  /\ ledger = [c \in ContactIds |-> 0]
  /\ created = {}
  /\ membership = [s \in Segments |-> [c \in ContactIds |-> "none"]]
  /\ memberCount = [s \in Segments |-> 0]
  /\ behind = {}
  /\ company = [co \in Companies |-> [c \in ContactIds |-> "none"]]
  /\ recordReq = [r \in RecordRequests |-> IdleRecord]

Turn(r, state) == recordReq' = [recordReq EXCEPT ![r] = state]
On(r, step) == recordReq[r].step = step

-----------------------------------------------------------------------------
(* archiveContact, restoreContact and bulkSetContactsArchived.  (The       *)
(* recipients an archive scrubs are part of the deliveries.)               *)
SetArchived(C) ==
  /\ archived' = archived \cup C
  /\ UNCHANGED <<scoreVars, segmentVars, company, recordReq>>

SetRestored(C) ==
  /\ archived' = archived \ C
  /\ UNCHANGED <<scoreVars, segmentVars, company, recordReq>>

-----------------------------------------------------------------------------
(* adjustContactScore: the update and the score event, both scoped to a    *)
(* contact that is not archived, in one batch.                             *)
InRange(c, delta) == score[c] + delta \in -MaxScore .. MaxScore

AdjustContactScore(c, delta) ==
  /\ c \notin archived
  /\ InRange(c, delta)
  /\ score' = [score EXCEPT ![c] = @ + delta]
  /\ ledger' = [ledger EXCEPT ![c] = @ + delta]
  /\ UNCHANGED <<archived, segmentVars, company, recordReq>>

(* An automation's change_score: archived or not, in one batch.            *)
AdjustContactScoreForEnrollment(c, delta) ==
  /\ InRange(c, delta)
  /\ score' = [score EXCEPT ![c] = @ + delta]
  /\ ledger' = [ledger EXCEPT ![c] = @ + delta]
  /\ UNCHANGED <<archived, segmentVars, company, recordReq>>

(* The maintenance sets every score that differs from its events' sum.     *)
ReconcileContactScores ==
  /\ score' = ledger
  /\ UNCHANGED <<archived, ledger, segmentVars, company, recordReq>>

-----------------------------------------------------------------------------
(* Segments.                                                               *)
Members(s) == {c \in ContactIds : membership[s][c] # "none"}

(* createSegment; a dynamic one is filled by a refresh that follows.       *)
CreateSegment(r, s) ==
  /\ On(r, "idle")
  /\ s \notin created
  /\ created' = created \cup {s}
  /\ Turn(r, IF s \in DynamicSegments THEN [step |-> "refresh", segment |-> s] ELSE IdleRecord)
  /\ UNCHANGED <<archived, scoreVars, membership, memberCount, behind, company>>

WithSource(s, C, source) ==
  [membership EXCEPT ![s] = [c \in ContactIds |-> IF c \in C THEN source ELSE @[c]]]

(* insertSegmentMemberships, for one contact or many: into a static        *)
(* segment, keeping the rows there are; if it wrote any, the members are   *)
(* counted next.                                                           *)
AddContactSegment(r, C, s) ==
  LET fresh == {c \in C \ archived : membership[s][c] = "none"}
  IN /\ On(r, "idle")
     /\ s \in created \cap StaticSegments
     /\ fresh # {}
     /\ membership' = WithSource(s, fresh, "static")
     /\ Turn(r, [step |-> "recount", segment |-> s])
     /\ UNCHANGED <<archived, scoreVars, created, memberCount, behind, company>>

(* deleteSegmentMemberships: only what was added by hand.                  *)
RemoveContactSegment(r, C, s) ==
  LET gone == {c \in C \ archived : membership[s][c] = "static"}
  IN /\ On(r, "idle")
     /\ s \in created
     /\ gone # {}
     /\ membership' = WithSource(s, gone, "none")
     /\ Turn(r, [step |-> "recount", segment |-> s])
     /\ UNCHANGED <<archived, scoreVars, created, memberCount, behind, company>>

(* updateMemberCount: counted again, not changed by what the request did.  *)
UpdateMemberCount(r) ==
  LET s == recordReq[r].segment
  IN /\ On(r, "recount")
     /\ memberCount' = [memberCount EXCEPT ![s] = Cardinality(Members(s))]
     /\ behind' = behind \ {s}
     /\ Turn(r, IdleRecord)
     /\ UNCHANGED <<archived, scoreVars, created, membership, company>>

(* The segment actions of an automation: any segment, any contact, no      *)
(* recount.                                                                *)
AddAutomationSegmentMembership(s, c) ==
  /\ s \in created
  /\ membership[s][c] = "none"
  /\ membership' = WithSource(s, {c}, "automation")
  /\ behind' = behind \cup {s}
  /\ UNCHANGED <<archived, scoreVars, created, memberCount, company, recordReq>>

RemoveSegmentMembership(s, c) ==
  /\ s \in created
  /\ membership[s][c] # "none"
  /\ membership' = WithSource(s, {c}, "none")
  /\ behind' = behind \cup {s}
  /\ UNCHANGED <<archived, scoreVars, created, memberCount, company, recordReq>>

(* refreshSegmentMemberships: the definition is read; a static segment is  *)
(* counted, a dynamic one is replaced.                                     *)
RequestRefresh(r, s) ==
  /\ On(r, "idle")
  /\ s \in created
  /\ Turn(r, [step |-> "refresh", segment |-> s])
  /\ UNCHANGED <<archived, scoreVars, segmentVars, company>>

FindSegmentDefinition(r) ==
  LET s == recordReq[r].segment
  IN /\ On(r, "refresh")
     /\ Turn(r, [step |-> IF s \in StaticSegments THEN "recount" ELSE "replace",
                  segment |-> s])
     /\ UNCHANGED <<archived, scoreVars, segmentVars, company>>

(* replaceDynamicMemberships: the dynamic rows are deleted, the contacts   *)
(* the filter matches inserted unless they have a row, and the members     *)
(* counted, in one batch.                                                  *)
ReplaceDynamicMemberships_CountsMatched(r, matched) ==
  LET s == recordReq[r].segment
  IN /\ On(r, "replace")
     /\ membership' = [membership EXCEPT ![s] =
          [c \in ContactIds |->
             IF @[c] \notin {"none", "dynamic"} THEN @[c]
             ELSE IF c \in matched \ archived THEN "dynamic" ELSE "none"]]
     /\ memberCount' = [memberCount EXCEPT ![s] = Cardinality(matched \ archived)]
     /\ behind' = behind \ {s}
     /\ Turn(r, IdleRecord)
     /\ UNCHANGED <<archived, scoreVars, created, company>>

ReplaceDynamicMemberships(r, matched) ==
  LET s == recordReq[r].segment
  IN /\ On(r, "replace")
     /\ membership' = [membership EXCEPT ![s] =
          [c \in ContactIds |->
             IF @[c] \notin {"none", "dynamic"} THEN @[c]
             ELSE IF c \in matched \ archived THEN "dynamic" ELSE "none"]]
     /\ memberCount' = [memberCount EXCEPT ![s] =
          Cardinality({c \in ContactIds : membership'[s][c] # "none"})]
     /\ behind' = behind \ {s}
     /\ Turn(r, IdleRecord)
     /\ UNCHANGED <<archived, scoreVars, created, company>>

-----------------------------------------------------------------------------
(* assignCompanyContact: looked up, then written; a contact that becomes   *)
(* primary is demoted everywhere else in the same batch.                   *)
HasAssignableContact(r, co, c, isPrimary) ==
  /\ On(r, "idle")
  /\ c \notin archived
  /\ Turn(r, [step |-> "assign", company |-> co, contact |-> c, isPrimary |-> isPrimary])
  /\ UNCHANGED <<archived, scoreVars, segmentVars, company>>

AssignContact(r) ==
  LET q == recordReq[r]
      Demoted(link) == IF q.isPrimary /\ link = "primary" THEN "linked" ELSE link
  IN /\ On(r, "assign")
     /\ company' = [co \in Companies |-> [company[co] EXCEPT ![q.contact] =
                      IF co # q.company THEN Demoted(@)
                      ELSE IF q.isPrimary THEN "primary" ELSE "linked"]]
     /\ Turn(r, IdleRecord)
     /\ UNCHANGED <<archived, scoreVars, segmentVars>>

RemoveContact(co, c) ==
  /\ company[co][c] # "none"
  /\ company' = [company EXCEPT ![co][c] = "none"]
  /\ UNCHANGED <<archived, scoreVars, segmentVars, recordReq>>

(* A request dies: a recount it owed is not made.                          *)
RecordRequestDies(r) ==
  /\ recordReq[r] # IdleRecord
  /\ behind' = IF On(r, "recount") THEN behind \cup {recordReq[r].segment} ELSE behind
  /\ Turn(r, IdleRecord)
  /\ UNCHANGED <<archived, scoreVars, created, membership, memberCount, company>>

-----------------------------------------------------------------------------
ScoreNext ==
  \/ \E c \in ContactIds, delta \in Deltas :
       AdjustContactScore(c, delta) \/ AdjustContactScoreForEnrollment(c, delta)
  \/ ReconcileContactScores

SegmentNext ==
  \/ \E r \in RecordRequests :
       \/ \E s \in Segments : CreateSegment(r, s) \/ RequestRefresh(r, s)
       \/ \E C \in SUBSET ContactIds, s \in Segments :
            AddContactSegment(r, C, s) \/ RemoveContactSegment(r, C, s)
       \/ UpdateMemberCount(r) \/ FindSegmentDefinition(r)
       \/ \E matched \in SUBSET ContactIds : ReplaceDynamicMemberships(r, matched)
  \/ \E s \in Segments, c \in ContactIds :
       AddAutomationSegmentMembership(s, c) \/ RemoveSegmentMembership(s, c)

CompanyNext ==
  \/ \E r \in RecordRequests :
       \/ \E co \in Companies, c \in ContactIds, isPrimary \in BOOLEAN :
            HasAssignableContact(r, co, c, isPrimary)
       \/ AssignContact(r)
  \/ \E co \in Companies, c \in ContactIds : RemoveContact(co, c)

RecordNext ==
  \/ ScoreNext
  \/ SegmentNext
  \/ CompanyNext
  \/ \E C \in SUBSET ContactIds : SetArchived(C) \/ SetRestored(C)
  \/ \E r \in RecordRequests : RecordRequestDies(r)

RecordSpec == RecordInit /\ [][RecordNext]_recordVars

-----------------------------------------------------------------------------
(* A contact's score is the sum of its score events, however members, the  *)
(* bulk archive and automation steps interleave: the nightly sweep never   *)
(* finds anything to correct.  (resource-repository.ts adjustContactScore) *)
ScoreIsLedger == \A c \in ContactIds : score[c] = ledger[c]

(* When every request that changed a segment has counted, its count is the *)
(* number of its members, in whatever order changes and counts ran; only   *)
(* an automation or a request that died leaves it behind, until the next   *)
(* count.  (segments/repository.ts updateMemberCount)                      *)
CountsSettle ==
  \A s \in Segments :
    (s \notin behind /\ ~\E r \in RecordRequests :
                           On(r, "recount") /\ recordReq[r].segment = s)
      => memberCount[s] = Cardinality(Members(s))

(* A refresh owns its rows: nobody is added by hand to a dynamic segment,  *)
(* and no static segment has rows a refresh would replace.                 *)
SourcesApart ==
  /\ \A s \in DynamicSegments, c \in ContactIds : membership[s][c] # "static"
  /\ \A s \in StaticSegments, c \in ContactIds : membership[s][c] # "dynamic"

(* Requests that make a contact primary in different companies at once     *)
(* leave one link primary: company-repository.ts:157 "so a contact is      *)
(* never primary in two places".                                           *)
OnePrimary ==
  \A c \in ContactIds, co, other \in Companies :
    company[co][c] = "primary" /\ company[other][c] = "primary" => co = other

(* The columns that repeat other rows agree with them.                     *)
RecordsAddUp == ScoreIsLedger /\ CountsSettle /\ SourcesApart /\ OnePrimary

=============================================================================
