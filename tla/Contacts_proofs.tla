-------------------------- MODULE Contacts_proofs --------------------------
(***************************************************************************)
(* Theorems about the components of contacts, for every set of contacts,   *)
(* segments, companies, requests and consumers, and every import:          *)
(*                                                                         *)
(*   ContactRecords   scores, segments, primary companies                  *)
(*   DataJobs         the import and the export                            *)
(*   ContactsView     the list and the walk through its pages              *)
(*   SegmentFilters   filters, saved segments and conditions               *)
(*   Contacts         all of it, with the browser client's cache           *)
(***************************************************************************)
EXTENDS Contacts, ClientCache_proofs, TLAPS, FiniteSetTheorems, WellFoundedInduction

-----------------------------------------------------------------------------
(* ContactRecords.  The columns that repeat other rows agree with them: the *)
(* invariant adds that only a refresh of a dynamic segment replaces rows.   *)

(* Only a refresh of a dynamic segment goes on to replace its rows.        *)
ReplacesDynamic ==
  \A r \in RecordRequests : On(r, "replace") => recordReq[r].segment \in DynamicSegments

(* A segment whose count is due: an automation or a request that died left *)
(* it behind, or a request has yet to count.                               *)
CountDue(s) ==
  s \in behind \/ \E r \in RecordRequests : On(r, "recount") /\ recordReq[r].segment = s

RecordInv == RecordTypeOK /\ RecordsAddUp /\ ReplacesDynamic

LEMMA CountsSettleDue ==
  CountsSettle <=> \A s \in Segments : CountDue(s) \/ memberCount[s] = Cardinality(Members(s))
BY DEF CountsSettle, CountDue

LEMMA MembersCounted ==
  \A C \in SUBSET ContactIds : Cardinality(C) \in Nat
BY ContactRecordsAssumption, FS_Subset, FS_CardinalityType

LEMMA IdleRecordState ==
  IdleRecord \in RecordRequestState /\ IdleRecord.step = "idle"
BY DEF IdleRecord, RecordRequestState

LEMMA RecordStateFields ==
  ASSUME NEW q \in RecordRequestState
  PROVE  /\ q.step \in {"refresh", "recount", "replace"} => q.segment \in Segments
         /\ q.step = "assign" => /\ q.company \in Companies
                                 /\ q.contact \in ContactIds
                                 /\ q.isPrimary \in BOOLEAN
BY DEF RecordRequestState, IdleRecord

LEMMA TurnFields ==
  ASSUME RecordTypeOK, NEW r \in RecordRequests, NEW state \in RecordRequestState,
         Turn(r, state)
  PROVE  /\ recordReq' \in [RecordRequests -> RecordRequestState]
         /\ recordReq'[r] = state
         /\ \A q \in RecordRequests : q # r => recordReq'[q] = recordReq[q]
BY DEF RecordTypeOK, Turn

(* A request that owes no count moves on without taking one away.          *)
LEMMA TurnKeeps ==
  ASSUME RecordInv, NEW r \in RecordRequests, NEW state \in RecordRequestState,
         Turn(r, state), ~On(r, "recount"), behind \subseteq behind',
         state.step = "replace" => state.segment \in DynamicSegments
  PROVE  /\ recordReq' \in [RecordRequests -> RecordRequestState]
         /\ ReplacesDynamic'
         /\ \A s \in Segments : CountDue(s) => CountDue(s)'
         /\ state.step = "recount" => CountDue(state.segment)'
<1>1. /\ recordReq' \in [RecordRequests -> RecordRequestState]
      /\ recordReq'[r] = state
      /\ \A q \in RecordRequests : q # r => recordReq'[q] = recordReq[q]
  BY TurnFields DEF RecordInv
<1>2. ReplacesDynamic'
  BY <1>1 DEF RecordInv, ReplacesDynamic, On
<1>3. ASSUME NEW s \in Segments, CountDue(s)
      PROVE  CountDue(s)'
  BY <1>1, <1>3 DEF CountDue, On
<1>4. state.step = "recount" => CountDue(state.segment)'
  BY <1>1 DEF CountDue, On
<1> QED
  BY <1>1, <1>2, <1>3, <1>4

(* The rows of the three kinds are written by different steps.             *)
LEMMA ScoresUntouched ==
  ASSUME RecordInv, UNCHANGED scoreVars
  PROVE  ScoreIsLedger' /\ (score \in [ContactIds -> Int])' /\ (ledger \in [ContactIds -> Int])'
BY DEF RecordInv, RecordTypeOK, RecordsAddUp, ScoreIsLedger, scoreVars

LEMMA CompaniesUntouched ==
  ASSUME RecordInv, UNCHANGED company
  PROVE  OnePrimary' /\ (company \in [Companies -> [ContactIds -> Links]])'
BY DEF RecordInv, RecordTypeOK, RecordsAddUp, OnePrimary

SegmentTypeOK ==
  /\ created \subseteq Segments
  /\ membership \in [Segments -> [ContactIds -> Sources]]
  /\ memberCount \in [Segments -> Nat]
  /\ behind \subseteq Segments

LEMMA SegmentsUntouched ==
  ASSUME RecordInv, UNCHANGED segmentVars,
         \A s \in Segments : CountDue(s) => CountDue(s)'
  PROVE  CountsSettle' /\ SourcesApart' /\ SegmentTypeOK'
<1>1. CountsSettle'
  <2> SUFFICES ASSUME NEW s \in Segments
               PROVE  CountDue(s)' \/ (memberCount[s] = Cardinality(Members(s)))'
    BY DEF CountsSettle, CountDue
  <2>1. CountDue(s) \/ memberCount[s] = Cardinality(Members(s))
    BY CountsSettleDue DEF RecordInv, RecordsAddUp
  <2> QED
    BY <2>1 DEF segmentVars, Members
<1>2. SourcesApart' /\ SegmentTypeOK'
  BY DEF RecordInv, RecordTypeOK, RecordsAddUp, SourcesApart, SegmentTypeOK, segmentVars
<1> QED
  BY <1>1, <1>2

(* The rows of one segment change; its count is due or was taken.          *)
LEMMA SegmentChanged ==
  ASSUME RecordInv, NEW s \in Segments, NEW row \in [ContactIds -> Sources],
         membership' = [membership EXCEPT ![s] = row],
         memberCount' \in [Segments -> Nat],
         created' = created, behind' \subseteq Segments,
         \A t \in Segments : t # s => /\ CountDue(t) => CountDue(t)'
                                      /\ memberCount'[t] = memberCount[t],
         CountDue(s)' \/ memberCount'[s] = Cardinality({c \in ContactIds : row[c] # "none"}),
         s \in DynamicSegments => \A c \in ContactIds : row[c] # "static",
         s \in StaticSegments => \A c \in ContactIds : row[c] # "dynamic"
  PROVE  CountsSettle' /\ SourcesApart' /\ SegmentTypeOK'
<1>1. /\ membership' \in [Segments -> [ContactIds -> Sources]]
      /\ membership'[s] = row
      /\ \A t \in Segments : t # s => membership'[t] = membership[t]
  BY DEF RecordInv, RecordTypeOK
<1>2. CountsSettle'
  <2> SUFFICES ASSUME NEW t \in Segments
               PROVE  CountDue(t)' \/ (memberCount[t] = Cardinality(Members(t)))'
    BY DEF CountsSettle, CountDue
  <2>1. CASE t = s
    BY <1>1, <2>1 DEF Members
  <2>2. CASE t # s
    <3>1. CountDue(t) \/ memberCount[t] = Cardinality(Members(t))
      BY CountsSettleDue DEF RecordInv, RecordsAddUp
    <3>2. Members(t)' = Members(t)
      BY <1>1, <2>2 DEF Members
    <3> QED
      BY <2>2, <3>1, <3>2
  <2> QED
    BY <2>1, <2>2
<1>3. SourcesApart'
  <2>1. ASSUME NEW t \in DynamicSegments, NEW c \in ContactIds
        PROVE  membership'[t][c] # "static"
    BY <1>1 DEF RecordInv, RecordsAddUp, SourcesApart, Segments
  <2>2. ASSUME NEW t \in StaticSegments, NEW c \in ContactIds
        PROVE  membership'[t][c] # "dynamic"
    BY <1>1 DEF RecordInv, RecordsAddUp, SourcesApart, Segments
  <2> QED
    BY <2>1, <2>2 DEF SourcesApart
<1>4. SegmentTypeOK'
  BY <1>1 DEF SegmentTypeOK, RecordInv, RecordTypeOK
<1> QED
  BY <1>2, <1>3, <1>4

LEMMA RecordInvFrom ==
  ASSUME (archived \subseteq ContactIds)',
         ScoreIsLedger', (score \in [ContactIds -> Int])', (ledger \in [ContactIds -> Int])',
         CountsSettle', SourcesApart', SegmentTypeOK',
         OnePrimary', (company \in [Companies -> [ContactIds -> Links]])',
         ReplacesDynamic', (recordReq \in [RecordRequests -> RecordRequestState])'
  PROVE  RecordInv'
BY DEF RecordInv, RecordTypeOK, RecordsAddUp, SegmentTypeOK

LEMMA RequestsUntouched ==
  ASSUME RecordInv, UNCHANGED recordReq, behind \subseteq behind'
  PROVE  /\ ReplacesDynamic' /\ (recordReq \in [RecordRequests -> RecordRequestState])'
         /\ \A s \in Segments : CountDue(s) => CountDue(s)'
BY DEF RecordInv, RecordTypeOK, ReplacesDynamic, CountDue, On

LEMMA RecordInvInit == RecordInit => RecordInv
<1> SUFFICES ASSUME RecordInit PROVE RecordInv
  OBVIOUS
<1>1. RecordTypeOK
  BY IdleRecordState DEF RecordInit, RecordTypeOK, Sources, Links
<1>2. CountsSettle
  <2> SUFFICES ASSUME NEW s \in Segments
               PROVE  memberCount[s] = Cardinality(Members(s))
    BY DEF CountsSettle
  <2>1. Members(s) = {}
    BY DEF RecordInit, Members
  <2> QED
    BY <2>1, FS_EmptySet DEF RecordInit
<1>3. ScoreIsLedger /\ SourcesApart /\ OnePrimary /\ ReplacesDynamic
  BY IdleRecordState DEF RecordInit, ScoreIsLedger, SourcesApart, OnePrimary, ReplacesDynamic,
     On, Segments
<1> QED
  BY <1>1, <1>2, <1>3 DEF RecordInv, RecordsAddUp

LEMMA ScoreStep ==
  ASSUME RecordInv, ScoreNext
  PROVE  RecordInv'
<1>1. UNCHANGED <<archived, segmentVars, company, recordReq>>
  BY DEF ScoreNext, AdjustContactScore, AdjustContactScoreForEnrollment, ReconcileContactScores
<1>2. ScoreIsLedger' /\ score' \in [ContactIds -> Int] /\ ledger' \in [ContactIds -> Int]
  <2>1. ASSUME NEW c \in ContactIds, NEW delta \in Deltas,
               AdjustContactScore(c, delta) \/ AdjustContactScoreForEnrollment(c, delta)
        PROVE  ScoreIsLedger' /\ score' \in [ContactIds -> Int] /\ ledger' \in [ContactIds -> Int]
    BY <2>1, ContactRecordsAssumption DEF AdjustContactScore, AdjustContactScoreForEnrollment,
       RecordInv, RecordTypeOK, RecordsAddUp, ScoreIsLedger
  <2>2. CASE ReconcileContactScores
    BY <2>2 DEF ReconcileContactScores, RecordInv, RecordTypeOK, ScoreIsLedger
  <2> QED
    BY <2>1, <2>2 DEF ScoreNext
<1>3. (archived \subseteq ContactIds)'
  BY <1>1 DEF RecordInv, RecordTypeOK
<1>4. /\ ReplacesDynamic' /\ (recordReq \in [RecordRequests -> RecordRequestState])'
      /\ \A s \in Segments : CountDue(s) => CountDue(s)'
  BY <1>1, RequestsUntouched DEF segmentVars
<1> QED
  BY <1>1, <1>2, <1>3, <1>4, SegmentsUntouched, CompaniesUntouched, RecordInvFrom

(* What a step on a segment leaves alone, and what it must show.           *)
LEMMA SegmentStepFrom ==
  ASSUME RecordInv, UNCHANGED <<archived, scoreVars, company>>,
         CountsSettle', SourcesApart', SegmentTypeOK',
         ReplacesDynamic', (recordReq \in [RecordRequests -> RecordRequestState])'
  PROVE  RecordInv'
<1>1. (archived \subseteq ContactIds)'
  BY DEF RecordInv, RecordTypeOK
<1> QED
  BY <1>1, ScoresUntouched, CompaniesUntouched, RecordInvFrom

LEMMA SegmentStep ==
  ASSUME RecordInv, SegmentNext
  PROVE  RecordInv'
<1>t. /\ membership \in [Segments -> [ContactIds -> Sources]]
      /\ memberCount \in [Segments -> Nat]
      /\ behind \subseteq Segments /\ created \subseteq Segments
      /\ recordReq \in [RecordRequests -> RecordRequestState]
  BY DEF RecordInv, RecordTypeOK
<1>a. /\ \A s \in DynamicSegments, c \in ContactIds : membership[s][c] # "static"
      /\ \A s \in StaticSegments, c \in ContactIds : membership[s][c] # "dynamic"
  BY DEF RecordInv, RecordsAddUp, SourcesApart
<1>1. ASSUME NEW r \in RecordRequests, NEW s \in Segments, CreateSegment(r, s)
      PROVE  RecordInv'
  <2> DEFINE state == IF s \in DynamicSegments THEN [step |-> "refresh", segment |-> s]
                      ELSE IdleRecord
  <2>1. /\ Turn(r, state) /\ On(r, "idle") /\ created' = created \cup {s}
        /\ UNCHANGED <<archived, scoreVars, membership, memberCount, behind, company>>
    BY <1>1 DEF CreateSegment
  <2>2. /\ state \in RecordRequestState
        /\ state.step # "replace"
    BY IdleRecordState DEF RecordRequestState
  <2> HIDE DEF state
  <2>3. /\ recordReq' \in [RecordRequests -> RecordRequestState]
        /\ ReplacesDynamic'
        /\ \A t \in Segments : CountDue(t) => CountDue(t)'
    BY <2>1, <2>2, TurnKeeps DEF On
  <2>4. CountsSettle'
    <3> SUFFICES ASSUME NEW t \in Segments
                 PROVE  CountDue(t)' \/ (memberCount[t] = Cardinality(Members(t)))'
      BY DEF CountsSettle, CountDue
    <3>1. CountDue(t) \/ memberCount[t] = Cardinality(Members(t))
      BY CountsSettleDue DEF RecordInv, RecordsAddUp
    <3> QED
      BY <2>1, <2>3, <3>1 DEF Members
  <2>5. SourcesApart' /\ SegmentTypeOK'
    BY <1>t, <2>1 DEF RecordInv, RecordsAddUp, SourcesApart, SegmentTypeOK
  <2> QED
    BY <2>1, <2>3, <2>4, <2>5, SegmentStepFrom
<1>2. ASSUME NEW r \in RecordRequests, NEW s \in Segments, RequestRefresh(r, s)
      PROVE  RecordInv'
  <2> DEFINE state == [step |-> "refresh", segment |-> s]
  <2>1. /\ Turn(r, state) /\ On(r, "idle")
        /\ UNCHANGED <<archived, scoreVars, segmentVars, company>>
    BY <1>2 DEF RequestRefresh
  <2>2. state \in RecordRequestState /\ state.step # "replace"
    BY DEF RecordRequestState
  <2> HIDE DEF state
  <2>3. /\ recordReq' \in [RecordRequests -> RecordRequestState]
        /\ ReplacesDynamic'
        /\ \A t \in Segments : CountDue(t) => CountDue(t)'
    BY <2>1, <2>2, TurnKeeps DEF On, segmentVars
  <2> QED
    BY <2>1, <2>3, SegmentsUntouched, SegmentStepFrom
<1>3. ASSUME NEW r \in RecordRequests, NEW C \in SUBSET ContactIds, NEW s \in Segments,
             AddContactSegment(r, C, s) \/ RemoveContactSegment(r, C, s)
      PROVE  RecordInv'
  <2> DEFINE state == [step |-> "recount", segment |-> s]
  <2>1. /\ Turn(r, state) /\ On(r, "idle")
        /\ UNCHANGED <<archived, scoreVars, created, memberCount, behind, company>>
    BY <1>3 DEF AddContactSegment, RemoveContactSegment
  <2>2. state \in RecordRequestState /\ state.step = "recount" /\ state.segment = s
    BY DEF RecordRequestState
  <2>3. PICK row \in [ContactIds -> Sources] :
          /\ membership' = [membership EXCEPT ![s] = row]
          /\ s \in DynamicSegments => \A c \in ContactIds : row[c] # "static"
          /\ s \in StaticSegments => \A c \in ContactIds : row[c] # "dynamic"
    <3>1. CASE AddContactSegment(r, C, s)
      <4> DEFINE fresh == {c \in C \ archived : membership[s][c] = "none"}
                 row == [c \in ContactIds |-> IF c \in fresh THEN "static" ELSE membership[s][c]]
      <4>1. s \in StaticSegments /\ membership' = [membership EXCEPT ![s] = row]
        BY <1>t, <3>1 DEF AddContactSegment, WithSource
      <4>2. row \in [ContactIds -> Sources]
        BY <1>t DEF Sources
      <4>3. s \notin DynamicSegments /\ \A c \in ContactIds : row[c] # "dynamic"
        BY <1>a, <4>1, ContactRecordsAssumption
      <4> HIDE DEF row
      <4> QED
        BY <4>1, <4>2, <4>3
    <3>2. CASE RemoveContactSegment(r, C, s)
      <4> DEFINE gone == {c \in C \ archived : membership[s][c] = "static"}
                 row == [c \in ContactIds |-> IF c \in gone THEN "none" ELSE membership[s][c]]
      <4>1. membership' = [membership EXCEPT ![s] = row]
        BY <1>t, <3>2 DEF RemoveContactSegment, WithSource
      <4>2. row \in [ContactIds -> Sources]
        BY <1>t DEF Sources
      <4>3. /\ s \in DynamicSegments => \A c \in ContactIds : row[c] # "static"
            /\ s \in StaticSegments => \A c \in ContactIds : row[c] # "dynamic"
        BY <1>a
      <4> HIDE DEF row
      <4> QED
        BY <4>1, <4>2, <4>3
    <3> QED
      BY <1>3, <3>1, <3>2
  <2> HIDE DEF state
  <2>4. /\ recordReq' \in [RecordRequests -> RecordRequestState]
        /\ ReplacesDynamic'
        /\ \A t \in Segments : CountDue(t) => CountDue(t)'
        /\ CountDue(s)'
    BY <2>1, <2>2, TurnKeeps DEF On
  <2>5. CountsSettle' /\ SourcesApart' /\ SegmentTypeOK'
    BY <1>t, <2>1, <2>3, <2>4, SegmentChanged
  <2> QED
    BY <2>1, <2>4, <2>5, SegmentStepFrom
<1>4. ASSUME NEW r \in RecordRequests, UpdateMemberCount(r)
      PROVE  RecordInv'
  <2> DEFINE s == recordReq[r].segment
             n == Cardinality(Members(s))
  <2>1. /\ On(r, "recount") /\ Turn(r, IdleRecord)
        /\ memberCount' = [memberCount EXCEPT ![s] = n]
        /\ behind' = behind \ {s}
        /\ UNCHANGED <<archived, scoreVars, created, membership, company>>
    BY <1>4 DEF UpdateMemberCount
  <2>2. s \in Segments
    BY <1>t, <2>1, RecordStateFields DEF On
  <2>3. n \in Nat
    BY MembersCounted DEF Members
  <2>4. /\ recordReq' \in [RecordRequests -> RecordRequestState]
        /\ recordReq'[r] = IdleRecord
        /\ \A q \in RecordRequests : q # r => recordReq'[q] = recordReq[q]
    BY <2>1, IdleRecordState, TurnFields DEF RecordInv
  <2>5. ReplacesDynamic'
    BY <2>4, IdleRecordState DEF RecordInv, ReplacesDynamic, On
  <2>6. CountsSettle'
    <3> SUFFICES ASSUME NEW t \in Segments
                 PROVE  CountDue(t)' \/ (memberCount[t] = Cardinality(Members(t)))'
      BY DEF CountsSettle, CountDue
    <3>1. Members(t)' = Members(t)
      BY <2>1 DEF Members
    <3>2. CASE t = s
      BY <1>t, <2>1, <3>1, <3>2
    <3>3. CASE t # s
      <4>1. CountDue(t) \/ memberCount[t] = Cardinality(Members(t))
        BY CountsSettleDue DEF RecordInv, RecordsAddUp
      <4>2. CountDue(t) => CountDue(t)'
        BY <2>1, <2>4, <3>3 DEF CountDue, On
      <4> QED
        BY <1>t, <2>1, <3>1, <3>3, <4>1, <4>2
    <3> QED
      BY <3>2, <3>3
  <2>7. memberCount' \in [Segments -> Nat]
    BY <1>t, <2>1, <2>3
  <2>8. SourcesApart' /\ SegmentTypeOK'
    BY <1>t, <1>a, <2>1, <2>7 DEF SourcesApart, SegmentTypeOK
  <2> QED
    BY <2>1, <2>4, <2>5, <2>6, <2>8, SegmentStepFrom
<1>5. ASSUME NEW r \in RecordRequests, FindSegmentDefinition(r)
      PROVE  RecordInv'
  <2> DEFINE s == recordReq[r].segment
             state == [step |-> IF s \in StaticSegments THEN "recount" ELSE "replace",
                       segment |-> s]
  <2>1. /\ On(r, "refresh") /\ Turn(r, state)
        /\ UNCHANGED <<archived, scoreVars, segmentVars, company>>
    BY <1>5 DEF FindSegmentDefinition
  <2>2. s \in Segments
    BY <1>t, <2>1, RecordStateFields DEF On
  <2>3. state \in RecordRequestState /\ state.segment = s
    BY <2>2 DEF RecordRequestState
  <2>4. state.step = "replace" => state.segment \in DynamicSegments
    BY <2>2 DEF Segments
  <2> HIDE DEF state
  <2>5. /\ recordReq' \in [RecordRequests -> RecordRequestState]
        /\ ReplacesDynamic'
        /\ \A t \in Segments : CountDue(t) => CountDue(t)'
    BY <2>1, <2>3, <2>4, TurnKeeps DEF On, segmentVars
  <2> QED
    BY <2>1, <2>5, SegmentsUntouched, SegmentStepFrom
<1>6. ASSUME NEW r \in RecordRequests, NEW matched \in SUBSET ContactIds,
             ReplaceDynamicMemberships(r, matched)
      PROVE  RecordInv'
  <2> DEFINE s == recordReq[r].segment
             row == [c \in ContactIds |->
                       IF membership[s][c] \notin {"none", "dynamic"} THEN membership[s][c]
                       ELSE IF c \in matched \ archived THEN "dynamic" ELSE "none"]
             n == Cardinality({c \in ContactIds : row[c] # "none"})
  <2>1. /\ On(r, "replace") /\ Turn(r, IdleRecord)
        /\ behind' = behind \ {s}
        /\ UNCHANGED <<archived, scoreVars, created, company>>
    BY <1>6 DEF ReplaceDynamicMemberships
  <2>2. s \in Segments /\ s \in DynamicSegments /\ s \notin StaticSegments
    BY <2>1, ContactRecordsAssumption DEF RecordInv, ReplacesDynamic, Segments
  <2>3. membership' = [membership EXCEPT ![s] = row]
    BY <1>t, <1>6, <2>2 DEF ReplaceDynamicMemberships
  <2>4. row \in [ContactIds -> Sources] /\ \A c \in ContactIds : row[c] # "static"
    BY <1>t, <1>a, <2>2 DEF Sources
  <2>5. membership'[s] = row
    BY <1>t, <2>2, <2>3
  <2>6. memberCount' = [memberCount EXCEPT ![s] = n]
    BY <1>6, <2>5 DEF ReplaceDynamicMemberships
  <2>7. n \in Nat
    BY MembersCounted
  <2>8. memberCount' \in [Segments -> Nat] /\ memberCount'[s] = n
    BY <1>t, <2>2, <2>6, <2>7
  <2>9. /\ recordReq' \in [RecordRequests -> RecordRequestState]
        /\ recordReq'[r] = IdleRecord
        /\ \A q \in RecordRequests : q # r => recordReq'[q] = recordReq[q]
    BY <2>1, IdleRecordState, TurnFields DEF RecordInv
  <2>10. ReplacesDynamic'
    BY <2>9, IdleRecordState DEF RecordInv, ReplacesDynamic, On
  <2>11. \A t \in Segments : t # s => /\ CountDue(t) => CountDue(t)'
                                      /\ memberCount'[t] = memberCount[t]
    BY <1>t, <2>1, <2>6, <2>9 DEF CountDue, On
  <2>12. behind' \subseteq Segments
    BY <1>t, <2>1
  <2> HIDE DEF row
  <2>13. CountsSettle' /\ SourcesApart' /\ SegmentTypeOK'
    BY <2>1, <2>2, <2>3, <2>4, <2>8, <2>11, <2>12, SegmentChanged
  <2> QED
    BY <2>1, <2>9, <2>10, <2>13, SegmentStepFrom
<1>7. ASSUME NEW s \in Segments, NEW c \in ContactIds,
             AddAutomationSegmentMembership(s, c) \/ RemoveSegmentMembership(s, c)
      PROVE  RecordInv'
  <2> DEFINE NewRow(source) == [d \in ContactIds |-> IF d = c THEN source ELSE membership[s][d]]
  <2>1. /\ behind' = behind \cup {s}
        /\ UNCHANGED <<archived, scoreVars, created, memberCount, company, recordReq>>
    BY <1>7 DEF AddAutomationSegmentMembership, RemoveSegmentMembership
  <2>2. PICK source \in {"automation", "none"} : membership' = [membership EXCEPT ![s] = NewRow(source)]
    BY <1>t, <1>7 DEF AddAutomationSegmentMembership, RemoveSegmentMembership, WithSource
  <2>3. /\ NewRow(source) \in [ContactIds -> Sources]
        /\ s \in DynamicSegments => \A d \in ContactIds : NewRow(source)[d] # "static"
        /\ s \in StaticSegments => \A d \in ContactIds : NewRow(source)[d] # "dynamic"
    BY <1>t, <1>a DEF Sources
  <2>4. /\ ReplacesDynamic' /\ (recordReq \in [RecordRequests -> RecordRequestState])'
        /\ \A t \in Segments : CountDue(t) => CountDue(t)'
    BY <2>1, RequestsUntouched
  <2>5. CountDue(s)' /\ behind' \subseteq Segments
    BY <1>t, <2>1 DEF CountDue
  <2> HIDE DEF NewRow
  <2>6. CountsSettle' /\ SourcesApart' /\ SegmentTypeOK'
    BY <1>t, <2>1, <2>2, <2>3, <2>4, <2>5, SegmentChanged
  <2> QED
    BY <2>1, <2>4, <2>6, SegmentStepFrom
<1> QED
  BY <1>1, <1>2, <1>3, <1>4, <1>5, <1>6, <1>7 DEF SegmentNext

LEMMA CompanyStep ==
  ASSUME RecordInv, CompanyNext
  PROVE  RecordInv'
<1>t. /\ company \in [Companies -> [ContactIds -> Links]]
      /\ recordReq \in [RecordRequests -> RecordRequestState]
  BY DEF RecordInv, RecordTypeOK
<1>1. ASSUME NEW r \in RecordRequests, NEW co \in Companies, NEW c \in ContactIds,
             NEW isPrimary \in BOOLEAN, HasAssignableContact(r, co, c, isPrimary)
      PROVE  RecordInv'
  <2> DEFINE state == [step |-> "assign", company |-> co, contact |-> c, isPrimary |-> isPrimary]
  <2>1. /\ Turn(r, state) /\ On(r, "idle")
        /\ UNCHANGED <<archived, scoreVars, segmentVars, company>>
    BY <1>1 DEF HasAssignableContact
  <2>2. state \in RecordRequestState /\ state.step # "replace"
    BY DEF RecordRequestState
  <2> HIDE DEF state
  <2>3. /\ recordReq' \in [RecordRequests -> RecordRequestState]
        /\ ReplacesDynamic'
        /\ \A t \in Segments : CountDue(t) => CountDue(t)'
    BY <2>1, <2>2, TurnKeeps DEF On, segmentVars
  <2> QED
    BY <2>1, <2>3, SegmentsUntouched, SegmentStepFrom
<1>2. ASSUME NEW r \in RecordRequests, AssignContact(r)
      PROVE  RecordInv'
  <2> DEFINE q == recordReq[r]
             Demoted(link) == IF q.isPrimary /\ link = "primary" THEN "linked" ELSE link
             NewLink(co) == IF co # q.company THEN Demoted(company[co][q.contact])
                            ELSE IF q.isPrimary THEN "primary" ELSE "linked"
  <2>1. /\ On(r, "assign") /\ Turn(r, IdleRecord)
        /\ UNCHANGED <<archived, scoreVars, segmentVars>>
    BY <1>2 DEF AssignContact
  <2>2. q.company \in Companies /\ q.contact \in ContactIds /\ q.isPrimary \in BOOLEAN
    BY <1>t, <2>1, RecordStateFields DEF On
  <2>3. company' = [co \in Companies |-> [company[co] EXCEPT ![q.contact] = NewLink(co)]]
    BY <1>2 DEF AssignContact
  <2>4. \A co \in Companies : NewLink(co) \in Links
    BY <1>t, <2>2 DEF Links
  <2>5. /\ company' \in [Companies -> [ContactIds -> Links]]
        /\ \A co \in Companies, c \in ContactIds :
             company'[co][c] = IF c = q.contact THEN NewLink(co) ELSE company[co][c]
    <3> HIDE DEF NewLink
    <3> QED
      BY <1>t, <2>3, <2>4
  <2>6. \A co, other \in Companies :
          NewLink(co) = "primary" /\ NewLink(other) = "primary" => co = other
    BY <2>2 DEF RecordInv, RecordsAddUp, OnePrimary
  <2> HIDE DEF NewLink
  <2>7. OnePrimary'
    BY <2>5, <2>6 DEF RecordInv, RecordsAddUp, OnePrimary
  <2> HIDE DEF q
  <2>8. ~On(r, "recount") /\ IdleRecord.step # "replace" /\ behind' = behind
    BY <2>1, IdleRecordState DEF On, segmentVars
  <2>9. /\ recordReq' \in [RecordRequests -> RecordRequestState]
        /\ ReplacesDynamic'
        /\ \A t \in Segments : CountDue(t) => CountDue(t)'
    BY <2>1, <2>8, IdleRecordState, TurnKeeps
  <2>10. (archived \subseteq ContactIds)'
    BY <2>1 DEF RecordInv, RecordTypeOK
  <2> QED
    BY <2>1, <2>5, <2>7, <2>9, <2>10, SegmentsUntouched, ScoresUntouched, RecordInvFrom
<1>3. ASSUME NEW co \in Companies, NEW c \in ContactIds, RemoveContact(co, c)
      PROVE  RecordInv'
  <2>1. /\ company' = [company EXCEPT ![co] = [@ EXCEPT ![c] = "none"]]
        /\ UNCHANGED <<archived, scoreVars, segmentVars, recordReq>>
    BY <1>3 DEF RemoveContact
  <2>2. /\ company' \in [Companies -> [ContactIds -> Links]]
        /\ \A x \in Companies, d \in ContactIds :
             company'[x][d] \in {company[x][d], "none"}
    BY <1>t, <2>1 DEF Links
  <2>3. OnePrimary'
    BY <2>2 DEF RecordInv, RecordsAddUp, OnePrimary
  <2>4. /\ ReplacesDynamic' /\ (recordReq \in [RecordRequests -> RecordRequestState])'
        /\ \A t \in Segments : CountDue(t) => CountDue(t)'
    BY <2>1, RequestsUntouched DEF segmentVars
  <2>5. (archived \subseteq ContactIds)'
    BY <2>1 DEF RecordInv, RecordTypeOK
  <2> QED
    BY <2>1, <2>2, <2>3, <2>4, <2>5, SegmentsUntouched, ScoresUntouched, RecordInvFrom
<1> QED
  BY <1>1, <1>2, <1>3 DEF CompanyNext

LEMMA RecordInvStep ==
  ASSUME RecordInv, [RecordNext]_recordVars
  PROVE  RecordInv'
<1>1. ASSUME NEW C \in SUBSET ContactIds, SetArchived(C) \/ SetRestored(C)
      PROVE  RecordInv'
  <2>1. UNCHANGED <<scoreVars, segmentVars, company, recordReq>>
    BY <1>1 DEF SetArchived, SetRestored
  <2>2. (archived \subseteq ContactIds)'
    BY <1>1 DEF SetArchived, SetRestored, RecordInv, RecordTypeOK
  <2>3. /\ ReplacesDynamic' /\ (recordReq \in [RecordRequests -> RecordRequestState])'
        /\ \A t \in Segments : CountDue(t) => CountDue(t)'
    BY <2>1, RequestsUntouched DEF segmentVars
  <2> QED
    BY <2>1, <2>2, <2>3, SegmentsUntouched, ScoresUntouched, CompaniesUntouched, RecordInvFrom
<1>2. ASSUME NEW r \in RecordRequests, RecordRequestDies(r)
      PROVE  RecordInv'
  <2> DEFINE s == recordReq[r].segment
  <2>1. /\ Turn(r, IdleRecord)
        /\ behind' = IF On(r, "recount") THEN behind \cup {s} ELSE behind
        /\ UNCHANGED <<archived, scoreVars, created, membership, memberCount, company>>
    BY <1>2 DEF RecordRequestDies
  <2>2. On(r, "recount") => s \in Segments
    BY RecordStateFields DEF On, RecordInv, RecordTypeOK
  <2>3. /\ recordReq' \in [RecordRequests -> RecordRequestState]
        /\ recordReq'[r] = IdleRecord
        /\ \A q \in RecordRequests : q # r => recordReq'[q] = recordReq[q]
    BY <2>1, IdleRecordState, TurnFields DEF RecordInv
  <2>4. ReplacesDynamic'
    BY <2>3, IdleRecordState DEF RecordInv, ReplacesDynamic, On
  <2>5. \A t \in Segments : CountDue(t) => CountDue(t)'
    BY <2>1, <2>3 DEF CountDue, On
  <2>6. CountsSettle'
    <3> SUFFICES ASSUME NEW t \in Segments
                 PROVE  CountDue(t)' \/ (memberCount[t] = Cardinality(Members(t)))'
      BY DEF CountsSettle, CountDue
    <3>1. CountDue(t) \/ memberCount[t] = Cardinality(Members(t))
      BY CountsSettleDue DEF RecordInv, RecordsAddUp
    <3> QED
      BY <2>1, <2>5, <3>1 DEF Members
  <2>7. SourcesApart' /\ SegmentTypeOK'
    BY <2>1, <2>2 DEF RecordInv, RecordTypeOK, RecordsAddUp, SourcesApart, SegmentTypeOK
  <2> QED
    BY <2>1, <2>3, <2>4, <2>6, <2>7, SegmentStepFrom
<1>3. CASE UNCHANGED recordVars
  BY <1>3 DEF recordVars, scoreVars, segmentVars, RecordInv, RecordTypeOK, RecordsAddUp,
     ScoreIsLedger, CountsSettle, SourcesApart, OnePrimary, ReplacesDynamic, Members, On
<1> QED
  BY <1>1, <1>2, <1>3, ScoreStep, SegmentStep, CompanyStep DEF RecordNext

(* Scores, segments, companies and what requests carry keep their types.   *)
THEOREM RecordTypeCorrect == RecordSpec => []RecordTypeOK
<1>1. RecordInv => RecordTypeOK
  BY DEF RecordInv
<1> QED
  BY <1>1, RecordInvInit, RecordInvStep, PTL DEF RecordSpec

(* The score is the sum of the ledger, a segment's count the number of its *)
(* members once every request has counted, static and dynamic rows do not  *)
(* mix, and one company at most is primary - whatever requests,            *)
(* automations and refreshes do at once.  (contacts/resource-repository,   *)
(* segments/repository, company-repository)                                *)
THEOREM RecordsAlwaysAddUp == RecordSpec => []RecordsAddUp
<1>1. RecordInv => RecordsAddUp
  BY DEF RecordInv
<1> QED
  BY <1>1, RecordInvInit, RecordInvStep, PTL DEF RecordSpec

-----------------------------------------------------------------------------
(* DataJobs.  The invariant ties a consumer, which works on what it read     *)
(* when it began, to the parts that are applied or stored by then.          *)

-----------------------------------------------------------------------------
(* Types: the table both jobs share, the import's and the export's state.  *)

TableTypeOK ==
  /\ contacts \in Nat
  /\ taken \subseteq Identifiers
  /\ jobDead \subseteq {"import", "export"}
  /\ jobFaults \in 0 .. MaxFaults

ImportTypeOK ==
  /\ importRequest \in {"none", "storing", "created", "done", "died"}
  /\ importStored \subseteq PartNumbers
  /\ importJob \in [status : JobStatus, processed : Nat]
  /\ importQueue \in [PartNumbers -> Nat]
  /\ importer \in [Consumers -> [step : ImportSteps, part : Nat]]

ExportTypeOK ==
  /\ exportRequest \in {"none", "start", "created", "done", "died"}
  /\ exportFrom \in Nat
  /\ exportJob \in [status : JobStatus, part : Nat, after : Nat, processed : Nat]
  /\ exportQueue \in Nat
  /\ DOMAIN exportParts \subseteq Nat
  /\ \A k \in DOMAIN exportParts : exportParts[k] \subseteq Nat
  /\ exportFile = NoFile \/ exportFile \subseteq Nat
  /\ exporter \in [Consumers -> [step : ExportSteps, part : Nat, after : Nat,
                                 page : Nat, read : Nat, chunks : SUBSET Nat]]

LEMMA JobTypeParts == JobTypeOK <=> TableTypeOK /\ ImportTypeOK /\ ExportTypeOK
BY DEF JobTypeOK, TableTypeOK, ImportTypeOK, ExportTypeOK

LEMMA IdleTypes ==
  /\ IdleImporter \in [step : ImportSteps, part : Nat]
  /\ IdleExporter \in [step : ExportSteps, part : Nat, after : Nat, page : Nat, read : Nat,
                       chunks : SUBSET Nat]
BY DEF IdleImporter, IdleExporter, ImportSteps, ExportSteps

LEMMA FaultCounted ==
  ASSUME TableTypeOK, Fault
  PROVE  jobFaults' \in 0 .. MaxFaults
BY DataJobsAssumption DEF TableTypeOK, Fault

LEMMA PartRowsType ==
  ASSUME NEW p \in PartNumbers
  PROVE  /\ PartRows[p] \in Seq(SUBSET Identifiers)
         /\ Len(PartRows[p]) \in Nat
         /\ \A i \in DOMAIN PartRows[p] : PartRows[p][i] \subseteq Identifiers
         /\ \A K \in SUBSET DOMAIN PartRows[p] : Cardinality(K) \in Nat
<1>1. PartRows[p] \in Seq(SUBSET Identifiers)
  BY DataJobsAssumption
<1>2. Len(PartRows[p]) \in Nat /\ DOMAIN PartRows[p] = 1 .. Len(PartRows[p])
  BY <1>1
<1>3. IsFiniteSet(DOMAIN PartRows[p])
  BY <1>2, FS_Interval
<1> QED
  BY <1>1, <1>2, <1>3, FS_Subset, FS_CardinalityType

-----------------------------------------------------------------------------
(* What lets an import complete: whoever works on a part, or will, finds   *)
(* every part before it applied, and nothing takes that back.              *)

Applied(p, held) ==
  \A i \in DOMAIN PartRows[p] : PartRows[p][i] # {} => PartRows[p][i] \cap held # {}
AppliedBelow(p, held) == \A q \in PartNumbers : q < p => Applied(q, held)

ImporterSound(w, held) ==
  w.step # "idle" =>
    /\ w.part \in PartNumbers
    /\ AppliedBelow(w.part, held)
    /\ w.step \in {"record", "send"} => Applied(w.part, held)
    /\ w.step = "send" => ~Finished(w.part)

QueueSound(queue, held) ==
  \A p \in PartNumbers : queue[p] > 0 => AppliedBelow(p, held)

AllApplied(held) == \A p \in PartNumbers : Applied(p, held)

ImportInv ==
  /\ TableTypeOK
  /\ ImportTypeOK
  /\ QueueSound(importQueue, taken)
  /\ \A c \in Consumers : ImporterSound(importer[c], taken)
  /\ importJob.status = "completed" => AllApplied(taken)

LEMMA AppliedStays ==
  ASSUME NEW held, NEW more, held \subseteq more
  PROVE  /\ \A p \in PartNumbers : Applied(p, held) => Applied(p, more)
         /\ \A p : AppliedBelow(p, held) => AppliedBelow(p, more)
         /\ AllApplied(held) => AllApplied(more)
         /\ \A queue : QueueSound(queue, held) => QueueSound(queue, more)
         /\ \A w : ImporterSound(w, held) => ImporterSound(w, more)
<1>1. \A p \in PartNumbers : Applied(p, held) => Applied(p, more)
  BY DEF Applied
<1>2. \A p : AppliedBelow(p, held) => AppliedBelow(p, more)
  BY <1>1 DEF AppliedBelow
<1>3. AllApplied(held) => AllApplied(more)
  BY <1>1 DEF AllApplied
<1>4. \A queue : QueueSound(queue, held) => QueueSound(queue, more)
  BY <1>2 DEF QueueSound
<1>5. \A w : ImporterSound(w, held) => ImporterSound(w, more)
  BY <1>1, <1>2 DEF ImporterSound
<1> QED
  BY <1>1, <1>2, <1>3, <1>4, <1>5

(* A batch leaves no row that names an identifier without a contact.       *)
LEMMA BatchApplies ==
  ASSUME NEW p \in PartNumbers, NEW K \in SUBSET DOMAIN PartRows[p], Kept(PartRows[p], K)
  PROVE  Applied(p, taken \cup UNION {PartRows[p][i] : i \in K})
<1> DEFINE entries == PartRows[p]
           held == taken \cup UNION {entries[i] : i \in K}
<1> SUFFICES ASSUME NEW i \in DOMAIN entries, entries[i] # {}
             PROVE  entries[i] \cap held # {}
  BY DEF Applied
<1>1. \A j \in K : entries[j] \subseteq held
  OBVIOUS
<1>2. i \in K <=> /\ entries[i] # {}
                  /\ entries[i] \cap taken = {}
                  /\ \A j \in K : j < i => entries[j] \cap entries[i] = {}
  BY DEF Kept
<1> HIDE DEF entries
<1>3. CASE i \in K
  BY <1>1, <1>3
<1>4. CASE entries[i] \cap taken # {}
  BY <1>4
<1>5. CASE \E j \in K : entries[j] \cap entries[i] # {}
  BY <1>1, <1>5
<1> QED
  BY <1>2, <1>3, <1>4, <1>5

LEMMA ImportInvInit == JobInit => ImportInv
<1> SUFFICES ASSUME JobInit PROVE ImportInv
  OBVIOUS
<1>1. TableTypeOK /\ ImportTypeOK
  BY IdleTypes, DataJobsAssumption DEF JobInit, TableTypeOK, ImportTypeOK, JobStatus
<1> QED
  BY <1>1 DEF JobInit, ImportInv, QueueSound, ImporterSound, IdleImporter

(* Contacts are created and never deleted, whoever creates them.           *)
LEMMA ImportUntouched ==
  ASSUME ImportInv, UNCHANGED importVars, taken \subseteq taken', TableTypeOK'
  PROVE  ImportInv'
<1>1. ImportTypeOK'
  BY DEF ImportInv, ImportTypeOK, importVars
<1> QED
  BY <1>1, AppliedStays DEF ImportInv, importVars

(* A consumer that is at work moves on, and what it leaves is sound.       *)
LEMMA ImporterMoves ==
  ASSUME ImportInv, NEW c \in Consumers, NEW w \in [step : ImportSteps, part : Nat],
         importer' = [importer EXCEPT ![c] = w], ImporterSound(w, taken'),
         taken \subseteq taken', TableTypeOK',
         importRequest' = importRequest, importStored' = importStored,
         importQueue' \in [PartNumbers -> Nat], QueueSound(importQueue', taken'),
         importJob' \in [status : JobStatus, processed : Nat],
         importJob'.status = "completed" => AllApplied(taken')
  PROVE  ImportInv'
<1>1. \A d \in Consumers : importer'[d] = IF d = c THEN w ELSE importer[d]
  BY DEF ImportInv, ImportTypeOK
<1>2. ASSUME NEW d \in Consumers
      PROVE  ImporterSound(importer'[d], taken')
  BY <1>1, AppliedStays DEF ImportInv
<1>3. ImportTypeOK'
  BY DEF ImportInv, ImportTypeOK
<1> QED
  BY <1>2, <1>3 DEF ImportInv

LEMMA ImportStepKeeps ==
  ASSUME ImportInv, ImportNext
  PROVE  ImportInv'
<1> DEFINE Worker == [step : ImportSteps, part : Nat]
<1>t. /\ TableTypeOK /\ ImportTypeOK
      /\ QueueSound(importQueue, taken)
      /\ \A c \in Consumers : ImporterSound(importer[c], taken)
      /\ importJob.status = "completed" => AllApplied(taken)
  BY DEF ImportInv
<1>1. CASE ImportRequest \/ ImportRequestDies
  <2>1. /\ UNCHANGED <<contacts, taken, importer, jobDead>>
        /\ TableTypeOK'
    BY <1>1, <1>t, FaultCounted DEF ImportRequest, StorePart, CreateImport, SendFirstPart,
       ImportRequestDies, TableTypeOK
  <2>2. /\ importRequest' \in {"none", "storing", "created", "done", "died"}
        /\ importStored' \subseteq PartNumbers
    BY <1>1, <1>t DEF ImportRequest, StorePart, CreateImport, SendFirstPart, ImportRequestDies,
       ImportTypeOK
  <2>3. /\ importQueue' \in [PartNumbers -> Nat]
        /\ QueueSound(importQueue', taken)
    <3>1. CASE UNCHANGED importQueue
      BY <1>t, <3>1 DEF ImportTypeOK
    <3>2. CASE TotalParts > 0 /\ importQueue' = [importQueue EXCEPT ![0] = @ + 1]
      <4>1. 0 \in PartNumbers /\ AppliedBelow(0, taken)
        BY <3>2, DataJobsAssumption DEF PartNumbers, AppliedBelow
      <4> QED
        BY <1>t, <3>2, <4>1 DEF ImportTypeOK, QueueSound
    <3> QED
      BY <1>1, <3>1, <3>2 DEF ImportRequest, StorePart, CreateImport, SendFirstPart, ImportRequestDies
  <2>4. /\ importJob' \in [status : JobStatus, processed : Nat]
        /\ importJob'.status = "completed" => AllApplied(taken)
    <3>1. CASE UNCHANGED importJob
      BY <1>t, <3>1 DEF ImportTypeOK
    <3>2. CASE importJob' = [importJob EXCEPT !.status = "pending"]
      BY <1>t, <3>2 DEF ImportTypeOK, JobStatus, Open
    <3>3. CASE TotalParts = 0 /\ importJob' = [importJob EXCEPT !.status = "completed"]
      <4>1. PartNumbers = {}
        BY <3>3 DEF PartNumbers
      <4> QED
        BY <1>t, <3>3, <4>1 DEF ImportTypeOK, JobStatus, AllApplied
    <3> QED
      BY <1>1, <3>1, <3>2, <3>3, DataJobsAssumption
         DEF ImportRequest, StorePart, CreateImport, SendFirstPart, ImportRequestDies
  <2>5. ImportTypeOK'
    BY <1>t, <2>1, <2>2, <2>3, <2>4 DEF ImportTypeOK
  <2> QED
    BY <1>t, <2>1, <2>3, <2>4, <2>5 DEF ImportInv
<1>2. ASSUME NEW c \in Consumers, NEW p \in PartNumbers, ClaimImportJob(c, p)
      PROVE  ImportInv'
  <2> DEFINE w == [step |-> IF importJob.status \in Open THEN "mark" ELSE "ack", part |-> p]
  <2>1. /\ importQueue[p] > 0
        /\ importQueue' = [importQueue EXCEPT ![p] = @ - 1]
        /\ importer' = [importer EXCEPT ![c] = w]
        /\ UNCHANGED <<contacts, taken, importRequest, importStored, importJob, jobDead, jobFaults>>
    BY <1>2 DEF ClaimImportJob
  <2>2. importQueue' \in [PartNumbers -> Nat] /\ QueueSound(importQueue', taken)
    BY <1>t, <2>1 DEF ImportTypeOK, QueueSound
  <2>3. w \in Worker /\ ImporterSound(w, taken)
    BY <1>t, <2>1 DEF ImportSteps, ImporterSound, QueueSound, PartNumbers
  <2>4. TableTypeOK'
    BY <1>t, <2>1 DEF TableTypeOK
  <2> HIDE DEF w
  <2> QED
    BY <1>t, <2>1, <2>2, <2>3, <2>4, ImporterMoves DEF ImportTypeOK
<1>3. ASSUME NEW c \in Consumers, MarkProcessing(c)
      PROVE  ImportInv'
  <2> DEFINE w == [importer[c] EXCEPT !.step = "insert"]
  <2>1. /\ importer[c].step = "mark"
        /\ importer' = [importer EXCEPT ![c] = w]
        /\ importJob' = [importJob EXCEPT !.status = "processing"]
        /\ UNCHANGED <<contacts, taken, importRequest, importStored, importQueue, jobDead, jobFaults>>
    BY <1>3 DEF MarkProcessing
  <2>2. importer[c] \in Worker /\ ImporterSound(importer[c], taken)
    BY <1>t DEF ImportTypeOK
  <2>3. w \in Worker /\ w.step = "insert" /\ w.part = importer[c].part
    BY <2>2 DEF ImportSteps
  <2>4. ImporterSound(w, taken)
    BY <2>1, <2>2, <2>3 DEF ImporterSound
  <2>5. importJob' \in [status : JobStatus, processed : Nat] /\ importJob'.status # "completed"
    BY <1>t, <2>1 DEF ImportTypeOK, JobStatus, Open
  <2>6. TableTypeOK'
    BY <1>t, <2>1 DEF TableTypeOK
  <2> HIDE DEF w
  <2> QED
    BY <1>t, <2>1, <2>3, <2>4, <2>5, <2>6, ImporterMoves DEF ImportTypeOK
<1>4. ASSUME NEW c \in Consumers, InsertContacts(c)
      PROVE  ImportInv'
  <2> DEFINE p == importer[c].part
             entries == PartRows[p]
             w == [importer[c] EXCEPT !.step = "record"]
  <2>1. /\ importer[c].step = "insert"
        /\ importer' = [importer EXCEPT ![c] = w]
        /\ UNCHANGED <<importRequest, importStored, importJob, importQueue, jobDead, jobFaults>>
    BY <1>4 DEF InsertContacts
  <2>2. PICK K \in SUBSET DOMAIN entries :
          /\ Kept(entries, K)
          /\ contacts' = contacts + Cardinality(K)
          /\ taken' = taken \cup UNION {entries[i] : i \in K}
    BY <1>4 DEF InsertContacts
  <2>3. importer[c] \in Worker /\ ImporterSound(importer[c], taken)
    BY <1>t DEF ImportTypeOK
  <2>4. p \in PartNumbers
    BY <2>1, <2>3 DEF ImporterSound
  <2>5. taken \subseteq taken' /\ TableTypeOK'
    BY <1>t, <2>1, <2>2, <2>4, PartRowsType DEF TableTypeOK
  <2>6. Applied(p, taken')
    BY <2>2, <2>4, BatchApplies
  <2>7. w \in Worker /\ w.step = "record" /\ w.part = p
    BY <2>3 DEF ImportSteps
  <2>8. ImporterSound(importer[c], taken')
    BY <2>3, <2>5, AppliedStays
  <2>9. ImporterSound(w, taken')
    BY <2>1, <2>6, <2>7, <2>8 DEF ImporterSound
  <2>10. QueueSound(importQueue', taken') /\ (importJob'.status = "completed" => AllApplied(taken'))
    BY <1>t, <2>1, <2>5, AppliedStays
  <2> HIDE DEF w
  <2> QED
    BY <1>t, <2>1, <2>5, <2>7, <2>9, <2>10, ImporterMoves DEF ImportTypeOK
<1>5. ASSUME NEW c \in Consumers, PartMissing(c) \/ AckImport(c) \/ ImportFails(c)
      PROVE  ImportInv'
  <2>1. /\ importer[c].step # "idle"
        /\ importer' = [importer EXCEPT ![c] = IdleImporter]
        /\ UNCHANGED <<contacts, taken, importRequest, importStored, importJob>>
    BY <1>5 DEF PartMissing, AckImport, ImportFails
  <2>2. TableTypeOK'
    <3>1. jobDead' \subseteq {"import", "export"}
      BY <1>5, <1>t DEF PartMissing, AckImport, ImportFails, TableTypeOK
    <3>2. jobFaults' \in 0 .. MaxFaults
      BY <1>5, <1>t, FaultCounted DEF PartMissing, AckImport, ImportFails, TableTypeOK
    <3> QED
      BY <1>t, <2>1, <3>1, <3>2 DEF TableTypeOK
  <2>3. ImporterSound(importer[c], taken)
    BY <1>t
  <2>4. importQueue' \in [PartNumbers -> Nat] /\ QueueSound(importQueue', taken)
    <3>1. CASE UNCHANGED importQueue
      BY <1>t, <3>1 DEF ImportTypeOK
    <3>2. CASE importQueue' = [importQueue EXCEPT ![importer[c].part] = @ + 1]
      BY <1>t, <2>1, <2>3, <3>2 DEF ImportTypeOK, QueueSound, ImporterSound
    <3> QED
      BY <1>5, <3>1, <3>2 DEF PartMissing, AckImport, ImportFails
  <2>5. ImporterSound(IdleImporter, taken)
    BY DEF ImporterSound, IdleImporter
  <2> QED
    BY <1>t, <2>1, <2>2, <2>4, <2>5, IdleTypes, ImporterMoves DEF ImportTypeOK
<1>6. ASSUME NEW c \in Consumers, RecordImportProgress(c)
      PROVE  ImportInv'
  <2> DEFINE p == importer[c].part
             w == [importer[c] EXCEPT !.step = IF Finished(p) THEN "ack" ELSE "send"]
  <2>1. /\ importer[c].step = "record"
        /\ importJob' = [status |-> IF Finished(p) THEN "completed" ELSE "processing",
                         processed |-> importJob.processed + Len(PartRows[p])]
        /\ importer' = [importer EXCEPT ![c] = w]
        /\ UNCHANGED <<contacts, taken, importRequest, importStored, importQueue, jobDead, jobFaults>>
    BY <1>6 DEF RecordImportProgress
  <2>2. importer[c] \in Worker /\ ImporterSound(importer[c], taken)
    BY <1>t DEF ImportTypeOK
  <2>3. p \in PartNumbers /\ AppliedBelow(p, taken) /\ Applied(p, taken)
    BY <2>1, <2>2 DEF ImporterSound
  <2>4. w \in Worker /\ w.part = p /\ w.step = IF Finished(p) THEN "ack" ELSE "send"
    BY <2>2 DEF ImportSteps
  <2>5. ImporterSound(w, taken)
    BY <2>3, <2>4 DEF ImporterSound
  <2>6. Finished(p) => AllApplied(taken)
    BY <2>3, DataJobsAssumption DEF Finished, AllApplied, AppliedBelow, PartNumbers
  <2>7. importJob' \in [status : JobStatus, processed : Nat]
        /\ (importJob'.status = "completed" => Finished(p))
    BY <1>t, <2>1, <2>3, PartRowsType DEF ImportTypeOK, JobStatus, Open
  <2>8. TableTypeOK'
    BY <1>t, <2>1 DEF TableTypeOK
  <2> HIDE DEF w, p
  <2> QED
    BY <1>t, <2>1, <2>4, <2>5, <2>6, <2>7, <2>8, ImporterMoves DEF ImportTypeOK
<1>7. ASSUME NEW c \in Consumers, SendNextPart(c)
      PROVE  ImportInv'
  <2> DEFINE p == importer[c].part
             w == [importer[c] EXCEPT !.step = "ack"]
  <2>1. /\ importer[c].step = "send"
        /\ importQueue' = [importQueue EXCEPT ![p + 1] = @ + 1]
        /\ importer' = [importer EXCEPT ![c] = w]
        /\ UNCHANGED <<contacts, taken, importRequest, importStored, importJob, jobDead, jobFaults>>
    BY <1>7 DEF SendNextPart
  <2>2. importer[c] \in Worker /\ ImporterSound(importer[c], taken)
    BY <1>t DEF ImportTypeOK
  <2>3. p \in PartNumbers /\ AppliedBelow(p, taken) /\ Applied(p, taken) /\ ~Finished(p)
    BY <2>1, <2>2 DEF ImporterSound
  <2>4. p + 1 \in PartNumbers /\ AppliedBelow(p + 1, taken)
    BY <2>3, DataJobsAssumption DEF Finished, AppliedBelow, PartNumbers
  <2>5. importQueue' \in [PartNumbers -> Nat] /\ QueueSound(importQueue', taken)
    BY <1>t, <2>1, <2>4 DEF ImportTypeOK, QueueSound
  <2>6. w \in Worker /\ w.part = p /\ w.step = "ack"
    BY <2>2 DEF ImportSteps
  <2>7. ImporterSound(w, taken)
    BY <2>3, <2>6 DEF ImporterSound
  <2>8. TableTypeOK'
    BY <1>t, <2>1 DEF TableTypeOK
  <2> HIDE DEF w
  <2> QED
    BY <1>t, <2>1, <2>5, <2>6, <2>7, <2>8, ImporterMoves DEF ImportTypeOK
<1>8. ASSUME NEW p \in PartNumbers, ImportDuplicated(p)
      PROVE  ImportInv'
  <2>1. /\ importQueue[p] > 0
        /\ importQueue' = [importQueue EXCEPT ![p] = @ + 1]
        /\ UNCHANGED <<contacts, taken, importRequest, importStored, importJob, importer, jobDead>>
    BY <1>8 DEF ImportDuplicated
  <2>2. importQueue' \in [PartNumbers -> Nat] /\ QueueSound(importQueue', taken)
    BY <1>t, <2>1 DEF ImportTypeOK, QueueSound
  <2>3. TableTypeOK'
    BY <1>8, <1>t, FaultCounted DEF ImportDuplicated, TableTypeOK
  <2> QED
    BY <1>t, <2>1, <2>2, <2>3 DEF ImportInv, ImportTypeOK
<1> QED
  BY <1>1, <1>2, <1>3, <1>4, <1>5, <1>6, <1>7, <1>8 DEF ImportNext, ImportStep

-----------------------------------------------------------------------------
(* What lets an export complete.  Part number j starts where j full pages  *)
(* end.  A page that was not full ended where the table did, which was not *)
(* before the export was created; so whichever consumer writes a part last *)
(* writes in it what the file must have of it.                             *)

Start(j) == j * PageSize

PartGood(parts, from, j) ==
  /\ j \in DOMAIN parts
  /\ \A x \in 1 .. from : Start(j) < x /\ x <= Start(j + 1) => x \in parts[j]
PartsGood(parts, from, n) == \A j \in Nat : j < n => PartGood(parts, from, j)

CursorSound(from, part, after) ==
  after <= Start(part) /\ (after = Start(part) \/ after >= from)

FileGood(file, from) == file # NoFile /\ 1 .. from \subseteq file

PageSound(e, from) ==
  e.page \in 1 .. PageSize /\ (e.page = PageSize \/ e.after + e.page >= from)

ExporterSound(e, parts, from, file) ==
  /\ e.step \in {"list", "put", "record", "assemble"} =>
       CursorSound(from, e.part, e.after) /\ PartsGood(parts, from, e.part)
  /\ e.step \in {"list", "put", "record"} => e.read = 0 /\ e.chunks = {}
  /\ e.step \in {"put", "record"} => PageSound(e, from)
  /\ e.step = "record" => PartGood(parts, from, e.part)
  /\ e.step = "assemble" =>
       /\ PartsGood(parts, from, PartsToRead(e))
       /\ e.page <= PageSize /\ e.after + e.page >= from
       /\ e.read <= PartsToRead(e)
       /\ \A x \in 1 .. from : x <= Start(e.read) => x \in e.chunks
  /\ e.step = "complete" => FileGood(file, from)

ExportRowSound ==
  /\ CursorSound(exportFrom, exportJob.part, exportJob.after)
  /\ PartsGood(exportParts, exportFrom, exportJob.part)
  /\ exportJob.status = "completed" => FileGood(exportFile, exportFrom)

(* Before the row is created nobody works on it.                           *)
NothingBefore ==
  exportRequest \in {"none", "start"} =>
    /\ exportQueue = 0
    /\ \A c \in Consumers : exporter[c] = IdleExporter
    /\ exportJob = [status |-> "none", part |-> 0, after |-> 0, processed |-> 0]

ExportInv ==
  /\ TableTypeOK
  /\ ExportTypeOK
  /\ exportFrom <= contacts
  /\ NothingBefore
  /\ ExportRowSound
  /\ \A c \in Consumers : ExporterSound(exporter[c], exportParts, exportFrom, exportFile)

LEMMA StartOf ==
  /\ Start(0) = 0
  /\ \A j \in Nat : Start(j) \in Nat
  /\ \A j \in Nat : Start(j + 1) = Start(j) + PageSize
<1>1. \A j \in Nat : Start(j) \in Nat
  BY DataJobsAssumption DEF Start
<1>2. \A j \in Nat : Start(j + 1) = Start(j) + PageSize
  BY DataJobsAssumption DEF Start
<1>3. Start(0) = 0
  BY DataJobsAssumption DEF Start
<1> QED
  BY <1>1, <1>2, <1>3

LEMMA ExporterFields ==
  ASSUME ExportTypeOK, NEW c \in Consumers
  PROVE  /\ exporter[c] \in [step : ExportSteps, part : Nat, after : Nat, page : Nat,
                             read : Nat, chunks : SUBSET Nat]
         /\ exporter[c].part \in Nat /\ exporter[c].after \in Nat /\ exporter[c].page \in Nat
         /\ exporter[c].read \in Nat /\ exporter[c].chunks \subseteq Nat
BY DEF ExportTypeOK

LEMMA IdleExporterSound ==
  \A parts, from, file : ExporterSound(IdleExporter, parts, from, file)
BY DEF ExporterSound, IdleExporter

LEMMA FileIsFile ==
  ASSUME NEW file \in SUBSET Nat
  PROVE  file # NoFile
BY DEF NoFile

(* What is there stays: parts are only replaced by parts as good, and the  *)
(* file by a file as good.                                                 *)
LEMMA ExporterStays ==
  ASSUME NEW e, NEW parts, NEW more, NEW from, NEW file, NEW newer,
         \A j \in Nat : PartGood(parts, from, j) => PartGood(more, from, j),
         e.part \in Nat, FileGood(file, from) => FileGood(newer, from),
         ExporterSound(e, parts, from, file)
  PROVE  ExporterSound(e, more, from, newer)
<1>1. \A n : PartsGood(parts, from, n) => PartsGood(more, from, n)
  BY DEF PartsGood
<1> QED
  BY <1>1 DEF ExporterSound

LEMMA ExportInvInit == JobInit => ExportInv
<1> SUFFICES ASSUME JobInit PROVE ExportInv
  OBVIOUS
<1>1. TableTypeOK
  BY DataJobsAssumption DEF JobInit, TableTypeOK
<1>2. ExportTypeOK
  BY IdleTypes DEF JobInit, ExportTypeOK, JobStatus, Open
<1>3. exportFrom <= contacts
  BY DataJobsAssumption DEF JobInit
<1>4. NothingBefore
  BY DEF JobInit, NothingBefore
<1>5. ExportRowSound
  BY StartOf DEF JobInit, ExportRowSound, CursorSound, PartsGood
<1> QED
  BY <1>1, <1>2, <1>3, <1>4, <1>5, IdleExporterSound DEF JobInit, ExportInv

LEMMA ExportUntouched ==
  ASSUME ExportInv, UNCHANGED exportVars, contacts <= contacts', TableTypeOK'
  PROVE  ExportInv'
<1>1. exportFrom' <= contacts'
  BY DEF ExportInv, ExportTypeOK, TableTypeOK, exportVars
<1>2. ExportTypeOK' /\ NothingBefore' /\ ExportRowSound'
  BY DEF ExportInv, ExportTypeOK, NothingBefore, ExportRowSound, exportVars
<1> QED
  BY <1>1, <1>2 DEF ExportInv, exportVars

(* A consumer moves on: the row, the parts and the file it leaves are      *)
(* sound, and so is what it goes on with.                                  *)
LEMMA ExporterMoves ==
  ASSUME ExportInv, NEW c \in Consumers,
         NEW e \in [step : ExportSteps, part : Nat, after : Nat, page : Nat, read : Nat,
                    chunks : SUBSET Nat],
         exporter' = [exporter EXCEPT ![c] = e],
         exporter[c] # IdleExporter \/ exportQueue > 0,
         ExporterSound(e, exportParts', exportFrom, exportFile'),
         UNCHANGED <<contacts, taken, exportRequest, exportFrom>>, TableTypeOK',
         exportQueue' \in Nat,
         exportJob' \in [status : JobStatus, part : Nat, after : Nat, processed : Nat],
         DOMAIN exportParts' \subseteq Nat,
         \A k \in DOMAIN exportParts' : exportParts'[k] \subseteq Nat,
         exportFile' = NoFile \/ exportFile' \subseteq Nat,
         \A j \in Nat : PartGood(exportParts, exportFrom, j) => PartGood(exportParts', exportFrom, j),
         FileGood(exportFile, exportFrom) => FileGood(exportFile', exportFrom),
         ExportRowSound'
  PROVE  ExportInv'
<1>1. \A d \in Consumers : exporter'[d] = IF d = c THEN e ELSE exporter[d]
  BY DEF ExportInv, ExportTypeOK
<1>2. ASSUME NEW d \in Consumers
      PROVE  ExporterSound(exporter'[d], exportParts', exportFrom', exportFile')
  <2>1. CASE d = c
    BY <1>1, <2>1
  <2>2. CASE d # c
    <3>1. exporter[d].part \in Nat /\ ExporterSound(exporter[d], exportParts, exportFrom, exportFile)
      BY ExporterFields DEF ExportInv
    <3>2. ExporterSound(exporter[d], exportParts', exportFrom, exportFile')
      BY <3>1, ExporterStays
    <3> QED
      BY <1>1, <2>2, <3>2
  <2> QED
    BY <2>1, <2>2
<1>3. ExportTypeOK'
  BY DEF ExportInv, ExportTypeOK
<1>4. NothingBefore'
  BY DEF ExportInv, NothingBefore
<1>5. exportFrom' <= contacts'
  BY DEF ExportInv
<1> QED
  BY <1>2, <1>3, <1>4, <1>5 DEF ExportInv

LEMMA PageAfterIs ==
  ASSUME TableTypeOK, NEW after \in Nat
  PROVE  /\ PageAfter(after) \in 0 .. PageSize
         /\ PageAfter(after) < PageSize => after + PageAfter(after) >= contacts
BY DataJobsAssumption DEF TableTypeOK, PageAfter

LEMMA ExportStepKeeps ==
  ASSUME ExportInv, ExportNext
  PROVE  ExportInv'
<1> DEFINE Worker == [step : ExportSteps, part : Nat, after : Nat, page : Nat, read : Nat,
                      chunks : SUBSET Nat]
           Sound(c) == ExporterSound(exporter[c], exportParts, exportFrom, exportFile)
<1>t. /\ TableTypeOK /\ ExportTypeOK /\ exportFrom <= contacts /\ NothingBefore
      /\ ExportRowSound /\ \A c \in Consumers : Sound(c)
  BY DEF ExportInv
<1>u. /\ exportFrom \in Nat /\ contacts \in Nat /\ exportQueue \in Nat
      /\ exportJob \in [status : JobStatus, part : Nat, after : Nat, processed : Nat]
      /\ DOMAIN exportParts \subseteq Nat
      /\ \A k \in DOMAIN exportParts : exportParts[k] \subseteq Nat
      /\ exportFile = NoFile \/ exportFile \subseteq Nat
  BY <1>t DEF TableTypeOK, ExportTypeOK
<1>1. CASE CreateExport
  <2>1. /\ exportRequest = "start" /\ exportRequest' = "created"
        /\ exportFrom' = contacts
        /\ exportJob' = [exportJob EXCEPT !.status = "pending"]
        /\ UNCHANGED <<contacts, taken, exportQueue, exportParts, exportFile, exporter, jobDead, jobFaults>>
    BY <1>1 DEF CreateExport
  <2>2. /\ exportQueue = 0
        /\ \A c \in Consumers : exporter[c] = IdleExporter
        /\ exportJob = [status |-> "none", part |-> 0, after |-> 0, processed |-> 0]
    BY <1>t, <2>1 DEF NothingBefore
  <2>3. TableTypeOK' /\ ExportTypeOK'
    BY <1>t, <1>u, <2>1 DEF TableTypeOK, ExportTypeOK, JobStatus, Open
  <2>4. exportFrom' <= contacts' /\ NothingBefore'
    BY <1>u, <2>1 DEF NothingBefore
  <2>5. ExportRowSound'
    BY <2>1, <2>2, StartOf DEF ExportRowSound, CursorSound, PartsGood
  <2>6. \A c \in Consumers : ExporterSound(exporter[c], exportParts, exportFrom, exportFile)'
    BY <2>1, <2>2, IdleExporterSound
  <2> QED
    BY <2>3, <2>4, <2>5, <2>6 DEF ExportInv
<1>2. CASE SendExport \/ ExportRequestDies \/ ExportDuplicated
  <2>1. /\ \/ exportRequest = "created" /\ exportRequest' \in {"done", "died"}
           \/ exportRequest' = exportRequest /\ exportQueue > 0
        /\ exportQueue' \in {exportQueue, exportQueue + 1}
        /\ UNCHANGED <<contacts, taken, exportFrom, exportJob, exportParts, exportFile, exporter, jobDead>>
    BY <1>2 DEF SendExport, ExportRequestDies, ExportDuplicated
  <2>2. jobFaults' \in 0 .. MaxFaults
    BY <1>2, <1>t, FaultCounted DEF SendExport, ExportRequestDies, ExportDuplicated, TableTypeOK
  <2>3. TableTypeOK' /\ ExportTypeOK'
    BY <1>t, <1>u, <2>1, <2>2 DEF TableTypeOK, ExportTypeOK
  <2>4. NothingBefore'
    BY <1>t, <1>u, <2>1 DEF NothingBefore
  <2>5. ExportRowSound'
    BY <1>t, <2>1 DEF ExportRowSound
  <2> QED
    BY <1>t, <2>1, <2>3, <2>4, <2>5 DEF ExportInv
<1>3. ASSUME NEW c \in Consumers, ClaimExportJob(c)
      PROVE  ExportInv'
  <2> DEFINE step == IF exportJob.status \in Open THEN "list" ELSE "ack"
             e == [IdleExporter EXCEPT !.step = step, !.part = exportJob.part,
                                       !.after = exportJob.after]
  <2>1. /\ exportQueue > 0 /\ exportQueue' = exportQueue - 1
        /\ exporter' = [exporter EXCEPT ![c] = e]
        /\ UNCHANGED <<contacts, taken, exportRequest, exportFrom, exportJob, exportParts,
                       exportFile, jobDead, jobFaults>>
    BY <1>3 DEF ClaimExportJob
  <2>2. /\ e \in Worker
        /\ e.step \in {"list", "ack"} /\ e.part = exportJob.part /\ e.after = exportJob.after
        /\ e.read = 0 /\ e.chunks = {}
    BY <1>u DEF IdleExporter, ExportSteps
  <2>3. ExporterSound(e, exportParts, exportFrom, exportFile)
    <3> HIDE DEF e
    <3> QED
      BY <1>t, <2>2 DEF ExporterSound, ExportRowSound
  <2>4. TableTypeOK' /\ ExportRowSound' /\ exportQueue' \in Nat
    BY <1>t, <1>u, <2>1 DEF TableTypeOK, ExportRowSound
  <2> HIDE DEF e
  <2> QED
    BY <1>u, <2>1, <2>2, <2>3, <2>4, ExporterMoves
<1>4. ASSUME NEW c \in Consumers, ListContactsForExport(c)
      PROVE  ExportInv'
  <2> DEFINE w == exporter[c]
             page == PageAfter(w.after)
             step == IF page > 0 THEN "put" ELSE "assemble"
             e == [w EXCEPT !.page = page, !.step = step]
  <2>1. /\ w.step = "list"
        /\ exporter' = [exporter EXCEPT ![c] = e]
        /\ UNCHANGED <<contacts, taken, exportRequest, exportFrom, exportJob, exportQueue,
                       exportParts, exportFile, jobDead, jobFaults>>
    BY <1>4 DEF ListContactsForExport
  <2>2. w \in Worker /\ w.part \in Nat /\ w.after \in Nat /\ w # IdleExporter
    BY <1>t, <2>1, ExporterFields DEF IdleExporter
  <2>3. page \in Nat /\ page \in 0 .. PageSize
        /\ (page < PageSize => w.after + page >= exportFrom)
    <3>1. contacts \in Nat /\ exportFrom \in Nat /\ exportFrom <= contacts
      BY <1>t, <1>u DEF TableTypeOK
    <3>2. page \in 0 .. PageSize /\ (page < PageSize => w.after + page >= contacts)
      BY <1>t, <2>2, PageAfterIs
    <3> HIDE DEF page, w
    <3> QED
      BY <2>2, <3>1, <3>2, DataJobsAssumption
  <2>4. /\ CursorSound(exportFrom, w.part, w.after) /\ PartsGood(exportParts, exportFrom, w.part)
        /\ w.read = 0 /\ w.chunks = {}
    BY <1>t, <2>1 DEF ExporterSound
  <2> HIDE DEF page
  <2>5. /\ e \in Worker
        /\ e.part = w.part /\ e.after = w.after /\ e.page = page /\ e.step = step
        /\ e.read = w.read /\ e.chunks = w.chunks
    BY <2>2, <2>3 DEF ExportSteps
  <2> HIDE DEF e, w
  <2>6. CASE page > 0
    <3>1. e.step = "put" /\ PageSound(e, exportFrom)
      BY <2>3, <2>5, <2>6, DataJobsAssumption DEF PageSound
    <3> QED
      <4>1. ExporterSound(e, exportParts, exportFrom, exportFile)
        BY <2>4, <2>5, <3>1 DEF ExporterSound
      <4>2. TableTypeOK' /\ ExportRowSound'
        BY <1>t, <2>1 DEF TableTypeOK, ExportRowSound
      <4> QED
        BY <1>u, <2>1, <2>2, <2>5, <4>1, <4>2, ExporterMoves DEF w
  <2>7. CASE ~(page > 0)
    <3>1. e.step = "assemble" /\ e.page = 0
      BY <2>3, <2>5, <2>7
    <3>2. PartsToRead(e) = w.part
      BY <2>2, <2>5, <3>1 DEF PartsToRead
    <3>3. /\ e.page <= PageSize /\ e.after + e.page >= exportFrom
          /\ e.read <= PartsToRead(e)
      BY <2>2, <2>3, <2>4, <2>5, <3>1, <3>2, DataJobsAssumption
    <3>4. \A x \in 1 .. exportFrom : ~(x <= Start(e.read))
      BY <1>u, <2>4, <2>5, StartOf
    <3>5. ExporterSound(e, exportParts, exportFrom, exportFile)
      BY <2>4, <2>5, <3>1, <3>2, <3>3, <3>4 DEF ExporterSound
    <3>6. TableTypeOK' /\ ExportRowSound'
      BY <1>t, <2>1 DEF TableTypeOK, ExportRowSound
    <3> QED
      BY <1>u, <2>1, <2>2, <2>5, <3>5, <3>6, ExporterMoves DEF w
  <2> QED
    BY <2>6, <2>7
<1>5. ASSUME NEW c \in Consumers, PutExportPart(c)
      PROVE  ExportInv'
  <2> DEFINE w == exporter[c]
             e == [w EXCEPT !.step = "record"]
             content == w.after + 1 .. w.after + w.page
  <2>1. /\ w.step = "put"
        /\ exporter' = [exporter EXCEPT ![c] = e]
        /\ exportParts' = [k \in DOMAIN exportParts \cup {w.part} |->
                             IF k = w.part THEN content ELSE exportParts[k]]
        /\ UNCHANGED <<contacts, taken, exportRequest, exportFrom, exportJob, exportQueue,
                       exportFile, jobDead, jobFaults>>
    BY <1>5 DEF PutExportPart
  <2>2. /\ w \in Worker /\ w.part \in Nat /\ w.after \in Nat /\ w.page \in Nat
        /\ w # IdleExporter
    BY <1>t, <2>1, ExporterFields DEF IdleExporter
  <2>3. /\ CursorSound(exportFrom, w.part, w.after) /\ PartsGood(exportParts, exportFrom, w.part)
        /\ w.read = 0 /\ w.chunks = {} /\ PageSound(w, exportFrom)
    BY <1>t, <2>1 DEF ExporterSound
  <2>4. /\ e \in Worker
        /\ e.part = w.part /\ e.after = w.after /\ e.page = w.page /\ e.step = "record"
        /\ e.read = w.read /\ e.chunks = w.chunks
    BY <2>2 DEF ExportSteps
  <2> HIDE DEF e, w
  <2>5. DOMAIN exportParts' = DOMAIN exportParts \cup {w.part}
        /\ exportParts'[w.part] = content
        /\ \A k \in DOMAIN exportParts : k # w.part => exportParts'[k] = exportParts[k]
    BY <2>1
  <2>6. ASSUME NEW x \in 1 .. exportFrom, Start(w.part) < x, x <= Start(w.part + 1)
        PROVE  x \in content
    <3>1. /\ Start(w.part) \in Nat /\ Start(w.part + 1) = Start(w.part) + PageSize
      BY <2>2, StartOf
    <3>2. w.after = Start(w.part)
      BY <1>u, <2>2, <2>3, <2>6, <3>1 DEF CursorSound
    <3>3. x <= w.after + w.page
      BY <1>u, <2>2, <2>3, <2>6, <3>1, <3>2, DataJobsAssumption DEF PageSound
    <3> QED
      BY <1>u, <2>2, <2>6, <3>2, <3>3
  <2>7. PartGood(exportParts', exportFrom, w.part)
    BY <2>5, <2>6 DEF PartGood
  <2>8. \A j \in Nat : PartGood(exportParts, exportFrom, j) => PartGood(exportParts', exportFrom, j)
    BY <2>5, <2>7 DEF PartGood
  <2>9. /\ DOMAIN exportParts' \subseteq Nat
        /\ \A k \in DOMAIN exportParts' : exportParts'[k] \subseteq Nat
    BY <1>u, <2>2, <2>5
  <2>10. \A n : PartsGood(exportParts, exportFrom, n) => PartsGood(exportParts', exportFrom, n)
    BY <2>8 DEF PartsGood
  <2>11. ExporterSound(e, exportParts', exportFrom, exportFile)
    <3>1. PageSound(e, exportFrom)
      BY <2>3, <2>4 DEF PageSound
    <3> QED
      BY <2>3, <2>4, <2>7, <2>10, <3>1 DEF ExporterSound
  <2>12. TableTypeOK' /\ ExportRowSound'
    BY <1>t, <2>1, <2>10 DEF TableTypeOK, ExportRowSound
  <2> QED
    BY <1>u, <2>1, <2>2, <2>4, <2>8, <2>9, <2>11, <2>12, ExporterMoves DEF w
<1>6. ASSUME NEW c \in Consumers, RecordExportProgress(c)
      PROVE  ExportInv'
  <2> DEFINE w == exporter[c]
             step == IF w.page = PageSize THEN "send" ELSE "assemble"
             e == [w EXCEPT !.step = step]
  <2>1. /\ w.step = "record"
        /\ exporter' = [exporter EXCEPT ![c] = e]
        /\ exportJob' = [status |-> "processing", part |-> w.part + 1,
                         after |-> w.after + w.page, processed |-> exportJob.processed + w.page]
        /\ UNCHANGED <<contacts, taken, exportRequest, exportFrom, exportQueue, exportParts,
                       exportFile, jobDead, jobFaults>>
    BY <1>6 DEF RecordExportProgress
  <2>2. /\ w \in Worker /\ w.part \in Nat /\ w.after \in Nat /\ w.page \in Nat
        /\ w # IdleExporter
    BY <1>t, <2>1, ExporterFields DEF IdleExporter
  <2>3. /\ CursorSound(exportFrom, w.part, w.after) /\ PartsGood(exportParts, exportFrom, w.part)
        /\ w.read = 0 /\ w.chunks = {} /\ PageSound(w, exportFrom)
        /\ PartGood(exportParts, exportFrom, w.part)
    BY <1>t, <2>1 DEF ExporterSound
  <2>4. /\ e \in Worker
        /\ e.part = w.part /\ e.after = w.after /\ e.page = w.page /\ e.step = step
        /\ e.read = w.read /\ e.chunks = w.chunks
    BY <2>2 DEF ExportSteps
  <2> HIDE DEF e, w
  <2>5. /\ Start(w.part) \in Nat /\ Start(w.part + 1) = Start(w.part) + PageSize
    BY <2>2, StartOf
  <2>6. CursorSound(exportFrom, w.part + 1, w.after + w.page)
    BY <1>u, <2>2, <2>3, <2>5, DataJobsAssumption DEF CursorSound, PageSound
  <2>7. PartsGood(exportParts, exportFrom, w.part + 1)
    <3> SUFFICES ASSUME NEW j \in Nat, j < w.part + 1
                 PROVE  PartGood(exportParts, exportFrom, j)
      BY DEF PartsGood
    <3>1. j < w.part \/ j = w.part
      BY <2>2
    <3> QED
      BY <2>3, <3>1 DEF PartsGood
  <2>8. exportJob' \in [status : JobStatus, part : Nat, after : Nat, processed : Nat]
        /\ exportJob'.part = w.part + 1 /\ exportJob'.after = w.after + w.page
        /\ exportJob'.status # "completed"
    BY <1>u, <2>1, <2>2 DEF JobStatus, Open
  <2>9. ExportRowSound'
    BY <2>1, <2>6, <2>7, <2>8 DEF ExportRowSound
  <2>10. ExporterSound(e, exportParts, exportFrom, exportFile)
    <3>1. CASE w.page = PageSize
      BY <2>4, <3>1 DEF ExporterSound
    <3>2. CASE w.page # PageSize
      <4>1. e.step = "assemble"
        BY <2>4, <3>2
      <4>2. PartsToRead(e) = w.part + 1
        BY <2>3, <2>4 DEF PartsToRead, PageSound
      <4>3. /\ e.page <= PageSize /\ e.after + e.page >= exportFrom
            /\ e.read <= PartsToRead(e)
        BY <2>2, <2>3, <2>4, <3>2, <4>2, DataJobsAssumption DEF PageSound
      <4>4. \A x \in 1 .. exportFrom : ~(x <= Start(e.read))
        BY <1>u, <2>3, <2>4, StartOf
      <4> QED
        BY <2>3, <2>4, <2>7, <4>1, <4>2, <4>3, <4>4 DEF ExporterSound
    <3> QED
      BY <3>1, <3>2
  <2>11. TableTypeOK'
    BY <1>t, <2>1 DEF TableTypeOK
  <2> QED
    BY <1>u, <2>1, <2>2, <2>4, <2>8, <2>9, <2>10, <2>11, ExporterMoves DEF w
<1>7. ASSUME NEW c \in Consumers, SendNextPage(c)
      PROVE  ExportInv'
  <2> DEFINE w == exporter[c]
             e == [w EXCEPT !.step = "ack"]
  <2>1. /\ w.step = "send"
        /\ exporter' = [exporter EXCEPT ![c] = e]
        /\ exportQueue' = exportQueue + 1
        /\ UNCHANGED <<contacts, taken, exportRequest, exportFrom, exportJob, exportParts,
                       exportFile, jobDead, jobFaults>>
    BY <1>7 DEF SendNextPage
  <2>2. w \in Worker /\ w # IdleExporter
    BY <1>t, <2>1, ExporterFields DEF IdleExporter
  <2>3. e \in Worker /\ e.step = "ack"
    BY <2>2 DEF ExportSteps
  <2> HIDE DEF e
  <2>4. ExporterSound(e, exportParts, exportFrom, exportFile)
    BY <2>3 DEF ExporterSound
  <2>5. TableTypeOK' /\ ExportRowSound' /\ exportQueue' \in Nat
    BY <1>t, <1>u, <2>1 DEF TableTypeOK, ExportRowSound
  <2> QED
    BY <1>u, <2>1, <2>2, <2>3, <2>4, <2>5, ExporterMoves
<1>8. ASSUME NEW c \in Consumers, ReadExportPart(c)
      PROVE  ExportInv'
  <2> DEFINE w == exporter[c]
             e == [w EXCEPT !.read = @ + 1, !.chunks = @ \cup exportParts[w.read]]
  <2>1. /\ w.step = "assemble" /\ w.read < PartsToRead(w) /\ w.read \in DOMAIN exportParts
        /\ exporter' = [exporter EXCEPT ![c] = e]
        /\ UNCHANGED <<contacts, taken, exportRequest, exportFrom, exportJob, exportQueue,
                       exportParts, exportFile, jobDead, jobFaults>>
    BY <1>8 DEF ReadExportPart
  <2>2. /\ w \in Worker /\ w.part \in Nat /\ w.after \in Nat /\ w.page \in Nat
        /\ w.read \in Nat /\ w.chunks \subseteq Nat /\ w # IdleExporter
    BY <1>t, <2>1, ExporterFields DEF IdleExporter
  <2>3. /\ CursorSound(exportFrom, w.part, w.after) /\ PartsGood(exportParts, exportFrom, w.part)
        /\ PartsGood(exportParts, exportFrom, PartsToRead(w))
        /\ w.page <= PageSize /\ w.after + w.page >= exportFrom
        /\ w.read <= PartsToRead(w)
        /\ \A x \in 1 .. exportFrom : x <= Start(w.read) => x \in w.chunks
    BY <1>t, <2>1 DEF ExporterSound
  <2>4. w.read + 1 \in Nat /\ w.chunks \cup exportParts[w.read] \in SUBSET Nat
    BY <1>u, <2>1, <2>2
  <2>5. /\ e \in Worker
        /\ e.part = w.part /\ e.after = w.after /\ e.page = w.page /\ e.step = w.step
        /\ e.read = w.read + 1 /\ e.chunks = w.chunks \cup exportParts[w.read]
    BY <2>2, <2>4
  <2> HIDE DEF e, w
  <2>6. PartsToRead(e) = PartsToRead(w) /\ PartsToRead(w) \in Nat
    BY <2>2, <2>5 DEF PartsToRead
  <2>7. PartGood(exportParts, exportFrom, w.read)
    BY <2>1, <2>2, <2>3 DEF PartsGood
  <2>8. ASSUME NEW x \in 1 .. exportFrom, x <= Start(e.read)
        PROVE  x \in e.chunks
    <3>1. Start(w.read) \in Nat
      BY <2>2, StartOf
    <3>2. CASE x <= Start(w.read)
      BY <2>3, <2>5, <3>2
    <3>3. CASE Start(w.read) < x
      BY <2>5, <2>7, <2>8, <3>3 DEF PartGood
    <3> QED
      BY <1>u, <3>1, <3>2, <3>3
  <2>9. e.read <= PartsToRead(e)
    BY <2>1, <2>2, <2>5, <2>6
  <2>10. ExporterSound(e, exportParts, exportFrom, exportFile)
    BY <2>1, <2>3, <2>5, <2>6, <2>8, <2>9 DEF ExporterSound
  <2>11. TableTypeOK' /\ ExportRowSound'
    BY <1>t, <2>1 DEF TableTypeOK, ExportRowSound
  <2> QED
    BY <1>u, <2>1, <2>2, <2>5, <2>10, <2>11, ExporterMoves DEF w
<1>9. ASSUME NEW c \in Consumers, ExportPartMissing(c) \/ AckExport(c) \/ ExportFails(c)
      PROVE  ExportInv'
  <2>1. /\ exporter[c].step # "idle"
        /\ exporter' = [exporter EXCEPT ![c] = IdleExporter]
        /\ exportQueue' \in {exportQueue, exportQueue + 1}
        /\ jobDead' \in {jobDead, jobDead \cup {"export"}}
        /\ UNCHANGED <<contacts, taken, exportRequest, exportFrom, exportJob, exportParts, exportFile>>
    BY <1>9 DEF ExportPartMissing, AckExport, ExportFails
  <2>2. jobFaults' \in 0 .. MaxFaults
    BY <1>9, <1>t, FaultCounted DEF ExportPartMissing, AckExport, ExportFails, TableTypeOK
  <2>3. TableTypeOK' /\ ExportRowSound' /\ exportQueue' \in Nat
    BY <1>t, <1>u, <2>1, <2>2 DEF TableTypeOK, ExportRowSound
  <2>4. exporter[c] # IdleExporter
    BY <2>1 DEF IdleExporter
  <2> QED
    BY <1>u, <2>1, <2>3, <2>4, IdleTypes, IdleExporterSound, ExporterMoves
<1>10. ASSUME NEW c \in Consumers, PutExportFile(c)
       PROVE  ExportInv'
  <2> DEFINE w == exporter[c]
             e == [w EXCEPT !.step = "complete"]
  <2>1. /\ w.step = "assemble" /\ w.read = PartsToRead(w)
        /\ exportFile' = w.chunks
        /\ exporter' = [exporter EXCEPT ![c] = e]
        /\ UNCHANGED <<contacts, taken, exportRequest, exportFrom, exportJob, exportQueue,
                       exportParts, jobDead, jobFaults>>
    BY <1>10 DEF PutExportFile
  <2>2. /\ w \in Worker /\ w.part \in Nat /\ w.after \in Nat /\ w.page \in Nat
        /\ w.read \in Nat /\ w.chunks \subseteq Nat /\ w # IdleExporter
    BY <1>t, <2>1, ExporterFields DEF IdleExporter
  <2>3. /\ CursorSound(exportFrom, w.part, w.after)
        /\ w.page <= PageSize /\ w.after + w.page >= exportFrom
        /\ \A x \in 1 .. exportFrom : x <= Start(w.read) => x \in w.chunks
    BY <1>t, <2>1 DEF ExporterSound
  <2>4. e \in Worker /\ e.step = "complete"
    BY <2>2 DEF ExportSteps
  <2> HIDE DEF e, w
  <2>5. Start(w.read) >= exportFrom
    <3>1. /\ Start(w.part) \in Nat /\ Start(w.part + 1) = Start(w.part) + PageSize
      BY <2>2, StartOf
    <3>2. CASE w.page > 0
      BY <1>u, <2>1, <2>2, <2>3, <3>1, <3>2, DataJobsAssumption DEF PartsToRead, CursorSound
    <3>3. CASE ~(w.page > 0)
      BY <1>u, <2>1, <2>2, <2>3, <3>1, <3>3, DataJobsAssumption DEF PartsToRead, CursorSound
    <3> QED
      BY <3>2, <3>3
  <2>6. 1 .. exportFrom \subseteq w.chunks
    <3> SUFFICES ASSUME NEW x \in 1 .. exportFrom
                 PROVE  x \in w.chunks
      OBVIOUS
    <3>1. Start(w.read) \in Nat /\ x <= exportFrom
      BY <2>2, StartOf
    <3>2. x <= Start(w.read)
      BY <1>u, <2>5, <3>1
    <3> QED
      BY <2>3, <3>2
  <2>7. FileGood(exportFile', exportFrom)
    BY <2>1, <2>2, <2>6, FileIsFile DEF FileGood
  <2>8. ExporterSound(e, exportParts, exportFrom, exportFile')
    BY <2>4, <2>7 DEF ExporterSound
  <2>9. TableTypeOK' /\ ExportRowSound'
    BY <1>t, <2>1, <2>7 DEF TableTypeOK, ExportRowSound
  <2> QED
    BY <1>u, <2>1, <2>2, <2>4, <2>7, <2>8, <2>9, ExporterMoves DEF w
<1>11. ASSUME NEW c \in Consumers, MarkCompleted(c)
       PROVE  ExportInv'
  <2> DEFINE w == exporter[c]
             e == [w EXCEPT !.step = "ack"]
  <2>1. /\ w.step = "complete"
        /\ exporter' = [exporter EXCEPT ![c] = e]
        /\ exportJob' = [exportJob EXCEPT !.status = "completed"]
        /\ UNCHANGED <<contacts, taken, exportRequest, exportFrom, exportQueue, exportParts,
                       exportFile, jobDead, jobFaults>>
    BY <1>11 DEF MarkCompleted
  <2>2. w \in Worker /\ w # IdleExporter /\ FileGood(exportFile, exportFrom)
    BY <1>t, <2>1, ExporterFields DEF IdleExporter, ExporterSound
  <2>3. e \in Worker /\ e.step = "ack"
    BY <2>2 DEF ExportSteps
  <2> HIDE DEF e
  <2>4. ExporterSound(e, exportParts, exportFrom, exportFile)
    BY <2>3 DEF ExporterSound
  <2>5. exportJob' \in [status : JobStatus, part : Nat, after : Nat, processed : Nat]
        /\ exportJob'.part = exportJob.part /\ exportJob'.after = exportJob.after
    BY <1>u, <2>1 DEF JobStatus, Open
  <2>6. TableTypeOK' /\ ExportRowSound'
    BY <1>t, <2>1, <2>2, <2>5 DEF TableTypeOK, ExportRowSound
  <2> QED
    BY <1>u, <2>1, <2>2, <2>3, <2>4, <2>5, <2>6, ExporterMoves
<1> QED
  BY <1>1, <1>2, <1>3, <1>4, <1>5, <1>6, <1>7, <1>8, <1>9, <1>10, <1>11
     DEF ExportNext, ExportRequest, ExportStep

-----------------------------------------------------------------------------
(* The two jobs share the table alone.                                     *)
LEMMA JobInvStep ==
  ASSUME ImportInv, ExportInv, [JobNext]_jobVars
  PROVE  ImportInv' /\ ExportInv'
<1>1. CASE ImportNext
  <2>1. ImportInv'
    BY <1>1, ImportStepKeeps
  <2>2. UNCHANGED exportVars
    BY <1>1 DEF ImportNext, ImportRequest, ImportRequestDies, ImportStep, ImportFails,
       ImportDuplicated, StorePart, CreateImport, SendFirstPart, ClaimImportJob, MarkProcessing,
       InsertContacts, PartMissing, RecordImportProgress, SendNextPart, AckImport
  <2>3. contacts <= contacts'
    <3>1. CASE \E c \in Consumers : InsertContacts(c)
      <4>1. PICK c \in Consumers : InsertContacts(c)
        BY <3>1
      <4>2. PICK K \in SUBSET DOMAIN PartRows[importer[c].part] : contacts' = contacts + Cardinality(K)
        BY <4>1 DEF InsertContacts
      <4>3. importer[c].part \in PartNumbers
        BY <4>1 DEF InsertContacts, ImportInv, ImporterSound
      <4>4. contacts \in Nat /\ Cardinality(K) \in Nat
        BY <4>3, PartRowsType DEF ImportInv, TableTypeOK
      <4> QED
        BY <4>2, <4>4
    <3>2. CASE UNCHANGED contacts
      BY <3>2 DEF ImportInv, TableTypeOK
    <3> QED
      BY <1>1, <3>1, <3>2 DEF ImportNext, ImportRequest, ImportRequestDies, ImportStep, ImportFails,
         ImportDuplicated, StorePart, CreateImport, SendFirstPart, ClaimImportJob, MarkProcessing,
         PartMissing, RecordImportProgress, SendNextPart, AckImport
  <2> QED
    BY <2>1, <2>2, <2>3, ExportUntouched DEF ImportInv
<1>2. CASE ExportNext
  <2>1. ExportInv'
    BY <1>2, ExportStepKeeps
  <2>2. UNCHANGED <<importVars, taken>>
    BY <1>2 DEF ExportNext, ExportRequest, ExportRequestDies, ExportStep, ExportFails,
       ExportDuplicated, CreateExport, SendExport, ClaimExportJob, ListContactsForExport,
       PutExportPart, RecordExportProgress, SendNextPage, ReadExportPart, ExportPartMissing,
       PutExportFile, MarkCompleted, AckExport
  <2> QED
    BY <2>1, <2>2, ImportUntouched DEF ExportInv
<1>3. ASSUME NEW ids \in SUBSET Identifiers, CreateContact(ids)
      PROVE  ImportInv' /\ ExportInv'
  <2>1. /\ TableTypeOK' /\ contacts <= contacts' /\ taken \subseteq taken'
        /\ UNCHANGED <<importVars, exportVars>>
    BY <1>3 DEF CreateContact, ImportInv, TableTypeOK
  <2> QED
    BY <2>1, ImportUntouched, ExportUntouched
<1>4. CASE UNCHANGED jobVars
  <2>1. /\ UNCHANGED <<importVars, exportVars, contacts, taken, jobDead, jobFaults>>
        /\ contacts \in Nat
    BY <1>4 DEF jobVars, ImportInv, TableTypeOK
  <2>2. TableTypeOK' /\ contacts <= contacts' /\ taken \subseteq taken'
    BY <2>1 DEF ImportInv, TableTypeOK
  <2> QED
    BY <2>1, <2>2, ImportUntouched, ExportUntouched
<1> QED
  BY <1>1, <1>2, <1>3, <1>4 DEF JobNext

(* The jobs, their queues, their workers and their files keep their types. *)
THEOREM JobTypeCorrect == JobSpec => []JobTypeOK
<1>1. ImportInv /\ ExportInv => JobTypeOK
  BY JobTypeParts DEF ImportInv, ExportInv
<1> QED
  BY <1>1, ImportInvInit, ExportInvInit, JobInvStep, PTL DEF JobSpec

(* An import that shows "completed" has applied every row of every part,   *)
(* and an export that does has a file with every contact of its request -  *)
(* for any number of parts, rows, contacts and consumers, any page size    *)
(* and any faults of the queue.  (contacts/worker.ts)                      *)
THEOREM CompletedJobsAreComplete == JobSpec => []JobsComplete
<1>1. ImportInv /\ ExportInv => JobsComplete
  BY DEF ImportInv, ExportInv, JobsComplete, ImportComplete, ExportComplete, AllApplied, Applied,
     ExportRowSound, FileGood
<1> QED
  BY <1>1, ImportInvInit, ExportInvInit, JobInvStep, PTL DEF JobSpec

-----------------------------------------------------------------------------
(* The least of a set of numbers, and the most of a finite one.            *)

LEMMA LeastNumber ==
  ASSUME NEW S \in SUBSET Nat, S # {}
  PROVE  \E x \in S : \A y \in S : x <= y
<1> DEFINE R == OpToRel(<, Nat)
<1>1. IsWellFoundedOn(R, Nat)
  BY NatLessThanWellFounded
<1>2. \A p, q \in Nat : p < q => <<p, q>> \in R
  BY DEF OpToRel
<1> HIDE DEF R
<1>3. PICK x \in S : \A y \in S : ~ (<<y, x>> \in R)
  BY <1>1, WFMin
<1>4. ASSUME NEW y \in S PROVE x <= y
  <2>1. x \in Nat /\ y \in Nat /\ ~(y < x)
    BY <1>2, <1>3
  <2>2. QED
    BY <2>1
<1>5. QED
  BY <1>4

\* By the size of a smallest set without a largest element.
LEMMA MostNumber ==
  ASSUME NEW S \in SUBSET Nat, IsFiniteSet(S), S # {}
  PROVE  \E x \in S : \A y \in S : y <= x
<1> DEFINE HasMost(T) == \E x \in T : \A y \in T : y <= x
           Odd == {T \in SUBSET S : T # {} /\ ~HasMost(T)}
           Sizes == {Cardinality(T) : T \in Odd}
<1> SUFFICES ASSUME ~HasMost(S) PROVE FALSE
  OBVIOUS
<1>1. \A T \in SUBSET S : IsFiniteSet(T) /\ Cardinality(T) \in Nat
  BY FS_Subset, FS_CardinalityType
<1>2. Sizes \in SUBSET Nat /\ Sizes # {}
  <2>1. S \in Odd
    OBVIOUS
  <2>2. QED
    BY <1>1, <2>1
<1>3. PICK n \in Sizes : \A m \in Sizes : n <= m
  BY <1>2, LeastNumber
<1>4. PICK T \in Odd : n = Cardinality(T)
  BY <1>3
<1>5. PICK e \in T : TRUE
  BY <1>4
<1>6. /\ T \in SUBSET Nat /\ T \in SUBSET S /\ e \in Nat
      /\ IsFiniteSet(T) /\ ~HasMost(T)
  BY <1>1, <1>4, <1>5
<1>7. /\ Cardinality(T \ {e}) = Cardinality(T) - 1 /\ Cardinality(T) \in Nat
      /\ T \ {e} \in SUBSET S
  BY <1>1, <1>5, <1>6, FS_RemoveElement
<1>8. T \ {e} # {} /\ HasMost(T \ {e})
  <2>1. T \ {e} # {}
    <3> SUFFICES ASSUME T \ {e} = {} PROVE FALSE
      OBVIOUS
    <3>1. \A y \in T : y <= e
      BY <1>6
    <3>2. QED
      BY <1>5, <1>6, <3>1
  <2>2. T \ {e} \notin Odd
    <3> SUFFICES ASSUME T \ {e} \in Odd PROVE FALSE
      OBVIOUS
    <3>1. Cardinality(T \ {e}) \in Sizes
      OBVIOUS
    <3> HIDE DEF Sizes, Odd
    <3>2. QED
      BY <1>3, <1>4, <1>7, <3>1
  <2>3. QED
    BY <1>7, <2>1, <2>2
<1>9. PICK x \in T \ {e} : \A y \in T \ {e} : y <= x
  BY <1>8
<1>10. HasMost(T)
  <2>1. x \in Nat /\ x \in T
    BY <1>6, <1>9
  <2>2. CASE e <= x
    <3>1. \A y \in T : y <= x
      BY <1>9, <2>2
    <3>2. QED
      BY <2>1, <3>1
  <2>3. CASE x < e
    <3>1. \A y \in T : y <= e
      BY <1>6, <1>9, <2>1, <2>3
    <3>2. QED
      BY <1>5, <3>1
  <2>4. QED
    BY <1>6, <2>1, <2>2, <2>3
<1>11. QED
  BY <1>6, <1>10

-----------------------------------------------------------------------------
(* The contact list.  The walk through its pages keeps pace: of the        *)
(* contacts nobody wrote it has shown those up to the place it goes on     *)
(* from, and no others.                                                    *)

Placed ==
  LET known == DOMAIN rows \cup {NoCursor}
  IN /\ answer.next \in known /\ pager.cursor \in known
     /\ \A i \in DOMAIN pager.history : pager.history[i] \in known
     /\ fetch.step \in {"cursor", "rows"} => fetch.cursor \in known

Passed(u) ==
  CASE fetch.step = "idle" -> answer.next = NoCursor \/ ~After(u, SortValue(answer.next), answer.next)
    [] fetch.step = "cursor" ->
         fetch.cursor # NoCursor /\ ~After(u, SortValue(fetch.cursor), fetch.cursor)
    [] fetch.step = "rows" -> fetch.cursor # NoCursor /\ ~After(u, fetch.sortValue, fetch.cursor)

KeepsPace ==
  walk.on => \A u \in Untouched : (u \in walk.seen <=> Passed(u)) /\ u \notin walk.twice

ViewInv == ViewTypeOK /\ Placed /\ KeepsPace

LEMMA ViewFields ==
  ASSUME ViewTypeOK
  PROVE  /\ \A c \in DOMAIN rows : c \in Nat \ {0} /\ SortValue(c) \in 0 .. MaxTime + MaxContact
         /\ IsFiniteSet(DOMAIN rows) /\ IsFiniteSet(Listed) /\ Listed \subseteq DOMAIN rows
         /\ fetch.step \in {"idle", "cursor", "rows"}
         /\ fetch.step = "idle" <=> fetch = Idle
         /\ fetch.step \in {"cursor", "rows"} => fetch.cursor \in Cursor
         /\ fetch.step = "rows" => fetch.sortValue \in Nat
         /\ fetch.step = "cursor" => fetch = [step |-> "cursor", cursor |-> fetch.cursor]
<1>1. MaxContact \in Nat /\ MaxTime \in Nat
  BY ContactsViewAssumption
<1>2. \A c \in DOMAIN rows : c \in Nat \ {0} /\ SortValue(c) \in 0 .. MaxTime + MaxContact
  <2> TAKE c \in DOMAIN rows
  <2>1. c \in 1 .. MaxContact
    BY DEF ViewTypeOK, ContactRange
  <2>2. rows[c] \in Row
    BY DEF ViewTypeOK
  <2>3. rows[c].updatedAt \in 0 .. MaxTime
    BY <2>2 DEF Row
  <2>4. QED
    BY <1>1, <2>1, <2>3 DEF SortValue
<1>3. IsFiniteSet(DOMAIN rows)
  <2>1. DOMAIN rows \in SUBSET (1 .. MaxContact)
    BY DEF ViewTypeOK, ContactRange
  <2>2. IsFiniteSet(1 .. MaxContact)
    BY <1>1, FS_Interval
  <2>3. QED
    BY <2>1, <2>2, FS_Subset
<1>4. Listed \in SUBSET DOMAIN rows
  BY DEF Listed
<1>5. IsFiniteSet(Listed)
  BY <1>3, <1>4, FS_Subset
<1>6. fetch \in Fetch
  BY DEF ViewTypeOK
<1>7. /\ fetch.step \in {"idle", "cursor", "rows"}
      /\ fetch.step = "idle" <=> fetch = Idle
      /\ fetch.step \in {"cursor", "rows"} => fetch.cursor \in Cursor
      /\ fetch.step = "rows" => fetch.sortValue \in Nat
      /\ fetch.step = "cursor" => fetch = [step |-> "cursor", cursor |-> fetch.cursor]
  BY <1>1, <1>6 DEF Fetch, Idle
<1>8. QED
  BY <1>2, <1>3, <1>4, <1>5, <1>7

(* The order the list is sorted in, among contacts there are.              *)
LEMMA Ordered ==
  ASSUME ViewTypeOK, NEW c \in DOMAIN rows, NEW d \in DOMAIN rows, NEW value \in Nat, NEW id \in Nat
  PROVE  /\ ~After(c, SortValue(c), c)
         /\ c # d => (After(c, SortValue(d), d) <=> ~After(d, SortValue(c), c))
         /\ After(c, SortValue(d), d) /\ After(d, value, id) => After(c, value, id)
<1>1. /\ c \in Nat /\ d \in Nat /\ SortValue(c) \in Nat /\ SortValue(d) \in Nat
  BY ViewFields, ContactsViewAssumption
<1>2. sort.ascending \in BOOLEAN
  BY DEF ViewTypeOK, Sort
<1>3. QED
  BY <1>1, <1>2 DEF After

LEMMA LeastPlace ==
  ASSUME ViewTypeOK, NEW S \in SUBSET DOMAIN rows, S # {}
  PROVE  \E c \in S : \A d \in S :
           c # d => SortValue(c) < SortValue(d) \/ (SortValue(c) = SortValue(d) /\ c < d)
<1>1. \A c \in S : c \in Nat /\ SortValue(c) \in Nat
  BY ViewFields, ContactsViewAssumption
<1> DEFINE V == {SortValue(c) : c \in S}
<1>2. PICK v \in V : \A w \in V : v <= w
  <2>1. V \in SUBSET Nat /\ V # {}
    BY <1>1
  <2> HIDE DEF V
  <2>2. QED
    BY <2>1, LeastNumber
<1> DEFINE C == {c \in S : SortValue(c) = v}
<1>3. PICK c \in C : \A d \in C : c <= d
  <2>1. C \in SUBSET Nat /\ C # {}
    BY <1>1, <1>2
  <2> HIDE DEF C
  <2>2. QED
    BY <2>1, LeastNumber
<1>4. ASSUME NEW d \in S, c # d
      PROVE  SortValue(c) < SortValue(d) \/ (SortValue(c) = SortValue(d) /\ c < d)
  <2>1. v <= SortValue(d) /\ SortValue(c) = v /\ (d \in C => c <= d)
    BY <1>2, <1>3, <1>4
  <2>2. QED
    BY <1>1, <1>3, <1>4, <2>1
<1>5. QED
  BY <1>3, <1>4

LEMMA MostPlace ==
  ASSUME ViewTypeOK, NEW S \in SUBSET DOMAIN rows, S # {}
  PROVE  \E c \in S : \A d \in S :
           c # d => SortValue(c) > SortValue(d) \/ (SortValue(c) = SortValue(d) /\ c > d)
<1>1. \A c \in S : c \in Nat /\ SortValue(c) \in Nat
  BY ViewFields, ContactsViewAssumption
<1>2. IsFiniteSet(S)
  BY ViewFields, FS_Subset
<1> DEFINE V == {SortValue(c) : c \in S}
<1>3. PICK v \in V : \A w \in V : w <= v
  <2>1. V \in SUBSET Nat /\ V # {}
    BY <1>1
  <2>2. IsFiniteSet(V)
    <3>1. MaxTime + MaxContact \in Nat
      BY ContactsViewAssumption
    <3>2. V \in SUBSET (0 .. MaxTime + MaxContact)
      BY ViewFields
    <3>3. IsFiniteSet(0 .. MaxTime + MaxContact)
      BY <3>1, FS_Interval
    <3> HIDE DEF V
    <3>4. QED
      BY <3>2, <3>3, FS_Subset
  <2> HIDE DEF V
  <2>3. QED
    BY <2>1, <2>2, MostNumber
<1> DEFINE C == {c \in S : SortValue(c) = v}
<1>4. PICK c \in C : \A d \in C : d <= c
  <2>1. C \in SUBSET Nat /\ C # {} /\ C \in SUBSET S
    BY <1>1, <1>3
  <2>2. IsFiniteSet(C)
    BY <1>2, <2>1, FS_Subset
  <2> HIDE DEF C
  <2>3. QED
    BY <2>1, <2>2, MostNumber
<1>5. ASSUME NEW d \in S, c # d
      PROVE  SortValue(c) > SortValue(d) \/ (SortValue(c) = SortValue(d) /\ c > d)
  <2>1. SortValue(d) <= v /\ SortValue(c) = v /\ (d \in C => d <= c)
    BY <1>3, <1>4, <1>5
  <2>2. QED
    BY <1>1, <1>4, <1>5, <2>1
<1>6. QED
  BY <1>4, <1>5

(* Contacts that are not none have a first and a last one in the order.    *)
LEMMA EndsExist ==
  ASSUME ViewTypeOK, NEW S \in SUBSET DOMAIN rows, S # {}
  PROVE  /\ \E c \in S : Before(c, S) = {}
         /\ \E c \in S : \A d \in S : ~After(d, SortValue(c), c)
<1>1. \A c \in S : c \in Nat /\ SortValue(c) \in Nat
  BY ViewFields, ContactsViewAssumption
<1>2. sort.ascending \in BOOLEAN
  BY DEF ViewTypeOK, Sort
<1>3. PICK least \in S : \A d \in S :
        least # d => SortValue(least) < SortValue(d) \/ (SortValue(least) = SortValue(d) /\ least < d)
  BY LeastPlace
<1>4. PICK most \in S : \A d \in S :
        most # d => SortValue(most) > SortValue(d) \/ (SortValue(most) = SortValue(d) /\ most > d)
  BY MostPlace
<1> DEFINE first == IF sort.ascending THEN least ELSE most
           last == IF sort.ascending THEN most ELSE least
<1>5. \A d \in S : ~After(first, SortValue(d), d)
  BY <1>1, <1>2, <1>3, <1>4 DEF After
<1>6. \A d \in S : ~After(d, SortValue(last), last)
  BY <1>1, <1>2, <1>3, <1>4 DEF After
<1>7. first \in S /\ last \in S
  BY <1>3, <1>4
<1> HIDE DEF first, last
<1>8. Before(first, S) = {}
  BY <1>5 DEF Before
<1>9. QED
  BY <1>6, <1>7, <1>8

(* A page: all of the contacts, if they are as many as it holds, or else   *)
(* some of them that come before all others.                               *)
LEMMA PageOfFirst ==
  ASSUME ViewTypeOK, NEW S \in SUBSET DOMAIN rows
  PROVE  /\ FirstOf(S) \subseteq S
         /\ ~(Cardinality(S) > PageLimit) => FirstOf(S) = S
         /\ Cardinality(S) > PageLimit => FirstOf(S) # {}
         /\ \A c \in FirstOf(S), d \in S \ FirstOf(S) : After(d, SortValue(c), c)
<1>1. PageLimit \in Nat \ {0}
  BY ContactsViewAssumption
<1>2. IsFiniteSet(S) /\ Cardinality(S) \in Nat
  BY ViewFields, FS_Subset, FS_CardinalityType
<1>3. \A c \in S : IsFiniteSet(Before(c, S)) /\ Cardinality(Before(c, S)) \in Nat
  BY <1>2, FS_Subset, FS_CardinalityType DEF Before
<1>4. FirstOf(S) \subseteq S
  BY DEF FirstOf
<1>5. ASSUME ~(Cardinality(S) > PageLimit) PROVE FirstOf(S) = S
  <2>1. ASSUME NEW c \in S PROVE Cardinality(Before(c, S)) < PageLimit
    <3>1. Before(c, S) \in SUBSET (S \ {c})
      BY Ordered, ViewFields DEF Before
    <3>2. IsFiniteSet(S \ {c}) /\ Cardinality(S \ {c}) = Cardinality(S) - 1
      BY <1>2, FS_RemoveElement
    <3>3. Cardinality(Before(c, S)) <= Cardinality(S \ {c})
      BY <3>1, <3>2, FS_Subset
    <3>4. QED
      BY <1>1, <1>2, <1>3, <1>5, <3>2, <3>3
  <2>2. QED
    BY <2>1 DEF FirstOf
<1>6. ASSUME Cardinality(S) > PageLimit PROVE FirstOf(S) # {}
  <2>1. S # {}
    BY <1>1, <1>6, FS_EmptySet
  <2>2. PICK c \in S : Before(c, S) = {}
    BY <2>1, EndsExist
  <2>3. Cardinality(Before(c, S)) = 0
    BY <2>2, FS_EmptySet
  <2>4. QED
    BY <1>1, <2>3 DEF FirstOf
<1>7. ASSUME NEW c \in FirstOf(S), NEW d \in S \ FirstOf(S) PROVE After(d, SortValue(c), c)
  <2> SUFFICES ASSUME ~After(d, SortValue(c), c) PROVE FALSE
    OBVIOUS
  <2>1. c \in S /\ d \in S /\ c # d /\ c \in DOMAIN rows /\ d \in DOMAIN rows
    BY <1>4, <1>7
  <2>2. After(c, SortValue(d), d)
    BY <2>1, Ordered
  <2>3. ASSUME NEW e \in Before(d, S) PROVE e \in Before(c, S)
    <3>1. e \in S /\ e \in DOMAIN rows /\ After(d, SortValue(e), e)
      BY <2>3 DEF Before
    <3>2. e \in Nat /\ SortValue(e) \in Nat
      BY <3>1, ViewFields, ContactsViewAssumption
    <3>3. After(c, SortValue(e), e)
      BY <2>1, <2>2, <3>1, <3>2, Ordered
    <3>4. QED
      BY <3>1, <3>3 DEF Before
  <2>4. Cardinality(Before(d, S)) <= Cardinality(Before(c, S))
    BY <1>3, <2>1, <2>3, FS_Subset
  <2>5. Cardinality(Before(c, S)) < PageLimit /\ ~(Cardinality(Before(d, S)) < PageLimit)
    BY <1>7, <2>1 DEF FirstOf
  <2>6. QED
    BY <1>1, <1>3, <2>1, <2>4, <2>5
<1>8. QED
  BY <1>4, <1>5, <1>6, <1>7

LEMMA LastOfPage ==
  ASSUME ViewTypeOK, NEW S \in SUBSET DOMAIN rows, S # {}
  PROVE  LastOf(S) \in S /\ \A d \in S : ~After(d, SortValue(LastOf(S)), LastOf(S))
BY EndsExist DEF LastOf


LEMMA ViewInitInv == ViewInit => ViewInv
<1> SUFFICES ASSUME ViewInit PROVE ViewInv
  OBVIOUS
<1>1. MaxContact \in Nat /\ MaxTime \in Nat
  BY ContactsViewAssumption
<1>2. ViewTypeOK
  <2>1. rows \in [DOMAIN rows -> Row] /\ DOMAIN rows \subseteq ContactRange /\ now \in 0 .. MaxTime
    BY <1>1 DEF ViewInit, Row
  <2>2. pager \in [cursor : Cursor, history : Seq(Cursor)]
    BY DEF ViewInit, Cursor
  <2>3. /\ answer \in [items : SUBSET ContactRange, next : Cursor] /\ fetch \in Fetch
        /\ checked \subseteq ContactRange
    BY DEF ViewInit, Cursor, Fetch
  <2>4. walk \in PageWalk
    BY DEF ViewInit, PageWalk, NewWalk, NoWalk
  <2>5. QED
    BY <2>1, <2>2, <2>3, <2>4 DEF ViewTypeOK, ViewInit
<1>3. Placed
  BY DEF ViewInit, Placed
<1>4. KeepsPace
  <2>1. fetch.step = "cursor" /\ fetch.cursor = NoCursor
    BY DEF ViewInit
  <2>2. walk.seen = {} /\ walk.twice = {}
    BY DEF ViewInit, NewWalk, NoWalk
  <2>3. QED
    BY <2>1, <2>2 DEF KeepsPace, Passed
<1>5. QED
  BY <1>2, <1>3, <1>4 DEF ViewInv

(* A write, whether it adds the contact or changes it.                     *)
LEMMA WriteKeeps ==
  ASSUME ViewInv, NEW c \in ContactRange, NEW status \in {"active", "archived"}, Write(c, status)
  PROVE  ViewInv'
<1> USE DEF ViewInv
<1>1. rows' = [i \in DOMAIN rows \cup {c} |->
                 IF i = c THEN [status |-> status, updatedAt |-> now'] ELSE rows[i]]
  BY DEF Write
<1>2. UNCHANGED <<sort, pager, answer, fetch, checked>>
  BY DEF Write
<1>3. MaxContact \in Nat /\ MaxTime \in Nat
  BY ContactsViewAssumption
<1>4. now' \in 0 .. MaxTime
  BY <1>3 DEF Write, ViewTypeOK
<1>5. walk' \in PageWalk
  <2>1. walk \in PageWalk
    BY DEF ViewTypeOK
  <2>2. QED
    BY <2>1 DEF Write, PageWalk, NoWalk
<1>6. ViewTypeOK'
  <2>1. DOMAIN rows' \subseteq ContactRange /\ rows' \in [DOMAIN rows' -> Row]
    BY <1>1, <1>4 DEF ViewTypeOK, Row
  <2>2. QED
    BY <1>2, <1>4, <1>5, <2>1 DEF ViewTypeOK
<1>7. Placed'
  BY <1>1, <1>2 DEF Placed
<1>8. KeepsPace'
  <2> SUFFICES ASSUME walk'.on, NEW u \in Untouched'
               PROVE  (u \in walk'.seen <=> Passed(u)') /\ u \notin walk'.twice
    BY DEF KeepsPace
  <2>1. /\ walk.on /\ ~(sort.column = "updatedAt" /\ GoesOnFrom(c))
        /\ walk' = [walk EXCEPT !.touched = @ \cup {c}]
    BY DEF Write, NoWalk
  <2>2. walk \in PageWalk
    BY DEF ViewTypeOK
  <2>3. /\ walk'.seen = walk.seen /\ walk'.twice = walk.twice
        /\ walk'.touched = walk.touched \cup {c}
    BY <2>1, <2>2 DEF PageWalk
  <2>4. u \in DOMAIN rows /\ u # c /\ rows'[u] = rows[u] /\ u \in Untouched
    BY <1>1, <2>3 DEF Untouched, Listed
  <2>5. (u \in walk.seen <=> Passed(u)) /\ u \notin walk.twice
    BY <2>1, <2>4 DEF KeepsPace
  <2>6. SortValue(u)' = SortValue(u)
    BY <1>2, <2>4 DEF SortValue
  <2>7. ASSUME NEW d \in DOMAIN rows, d # c \/ sort.column = "createdAt"
        PROVE  SortValue(d)' = SortValue(d)
    BY <1>1, <1>2, <2>7 DEF SortValue
  <2>8. \A value, id : After(u, value, id)' <=> After(u, value, id)
    BY <1>2, <2>6 DEF After
  <2>9. sort.column \in {"createdAt", "updatedAt"}
    BY DEF ViewTypeOK, Sort
  <2>10. Passed(u)' <=> Passed(u)
    <3>1. CASE fetch.step = "idle"
      <4>1. fetch = Idle
        BY <3>1, ViewFields
      <4>2. answer.next # NoCursor => SortValue(answer.next)' = SortValue(answer.next)
        <5>1. answer.next # NoCursor => answer.next \in DOMAIN rows
          BY <3>1 DEF Placed
        <5>2. answer.next = c => sort.column = "createdAt"
          BY <2>1, <2>9, <4>1 DEF GoesOnFrom
        <5>3. QED
          BY <1>2, <2>7, <5>1, <5>2 DEF SortValue
      <4>3. answer.next # NoCursor =>
              (After(u, SortValue(answer.next), answer.next)' <=>
                 After(u, SortValue(answer.next), answer.next))
        BY <1>2, <2>8, <4>2
      <4>4. QED
        BY <1>2, <3>1, <4>3 DEF Passed
    <3>2. CASE fetch.step = "cursor"
      <4>1. fetch = [step |-> "cursor", cursor |-> fetch.cursor]
        BY <3>2, ViewFields
      <4>2. fetch.cursor # NoCursor => SortValue(fetch.cursor)' = SortValue(fetch.cursor)
        <5>1. fetch.cursor # NoCursor => fetch.cursor \in DOMAIN rows
          BY <3>2 DEF Placed
        <5>2. fetch.cursor = c => sort.column = "createdAt"
          BY <2>1, <2>9, <4>1 DEF GoesOnFrom
        <5>3. QED
          BY <1>2, <2>7, <5>1, <5>2 DEF SortValue
      <4>3. fetch.cursor # NoCursor =>
              (After(u, SortValue(fetch.cursor), fetch.cursor)' <=>
                 After(u, SortValue(fetch.cursor), fetch.cursor))
        BY <1>2, <2>8, <4>2
      <4>4. QED
        BY <1>2, <3>2, <4>3 DEF Passed
    <3>3. CASE fetch.step = "rows"
      BY <1>2, <2>8, <3>3 DEF Passed
    <3>4. QED
      BY <3>1, <3>2, <3>3, ViewFields
  <2>11. QED
    BY <2>3, <2>5, <2>10
<1>9. QED
  BY <1>6, <1>7, <1>8

LEMMA FindCursorKeeps ==
  ASSUME ViewInv, FindCursor
  PROVE  ViewInv'
<1> USE DEF ViewInv
<1>1. /\ fetch' = [step |-> "rows", cursor |-> fetch.cursor,
                   sortValue |-> IF fetch.cursor = NoCursor THEN 0 ELSE SortValue(fetch.cursor)]
      /\ UNCHANGED <<rows, now, sort, pager, answer, checked, walk>> /\ fetch.step = "cursor"
  BY DEF FindCursor
<1>2. fetch.cursor \in DOMAIN rows \cup {NoCursor} /\ fetch.cursor \in Cursor
  BY <1>1, ViewFields DEF Placed
<1>3. fetch' \in Fetch
  <2>1. (IF fetch.cursor = NoCursor THEN 0 ELSE SortValue(fetch.cursor)) \in 0 .. MaxTime + MaxContact
    BY <1>2, ViewFields, ContactsViewAssumption
  <2>2. QED
    BY <1>1, <1>2, <2>1 DEF Fetch
<1>4. ViewTypeOK'
  BY <1>1, <1>3 DEF ViewTypeOK
<1>5. Placed'
  BY <1>1, <1>2 DEF Placed
<1>6. KeepsPace'
  <2>1. \A u : Passed(u)' <=> Passed(u)
    <3> TAKE u
    <3>1. /\ fetch'.step = "rows" /\ fetch'.cursor = fetch.cursor
          /\ fetch.cursor # NoCursor => fetch'.sortValue = SortValue(fetch.cursor)
      BY <1>1
    <3>2. \A value, id : After(u, value, id)' <=> After(u, value, id)
      BY <1>1 DEF After, SortValue
    <3>3. Passed(u)' <=> fetch'.cursor # NoCursor /\ ~After(u, fetch.sortValue, fetch.cursor)'
      BY <3>1 DEF Passed
    <3>4. Passed(u) <=> fetch.cursor # NoCursor /\ ~After(u, SortValue(fetch.cursor), fetch.cursor)
      BY <1>1 DEF Passed
    <3>5. QED
      BY <3>1, <3>2, <3>3, <3>4
  <2>2. Untouched' = Untouched /\ walk' = walk
    BY <1>1 DEF Untouched, Listed
  <2>3. QED
    BY <2>1, <2>2 DEF KeepsPace
<1>7. QED
  BY <1>4, <1>5, <1>6

(* What is asked for after the cursor is what the walk has not passed.     *)
LEMMA ListPageKeeps ==
  ASSUME ViewInv, ListPage
  PROVE  ViewInv'
<1> USE DEF ViewInv
<1> DEFINE after == IF fetch.cursor = NoCursor THEN Listed
                    ELSE {c \in Listed : After(c, fetch.sortValue, fetch.cursor)}
           items == FirstOf(after)
<1>1. /\ fetch.step = "rows" /\ fetch' = Idle
      /\ answer' = [items |-> items,
                    next |-> IF Cardinality(after) > PageLimit THEN LastOf(items) ELSE NoCursor]
      /\ walk' = IF ~walk.on THEN NoWalk
                 ELSE [walk EXCEPT !.seen = @ \cup items, !.twice = @ \cup (walk.seen \cap items)]
      /\ UNCHANGED <<rows, now, sort, pager, checked>>
  BY DEF ListPage
<1>2. after \in SUBSET Listed /\ after \in SUBSET DOMAIN rows
  BY DEF Listed
<1>3. \A u \in Listed : u \in after <=> ~Passed(u)
  BY <1>1 DEF Passed
<1>4. Listed \subseteq DOMAIN rows /\ DOMAIN rows \subseteq ContactRange
  BY DEF Listed, ViewTypeOK
<1> HIDE DEF after
<1>5. /\ items \subseteq after
      /\ ~(Cardinality(after) > PageLimit) => items = after
      /\ Cardinality(after) > PageLimit => items # {}
      /\ \A c \in items, d \in after \ items : After(d, SortValue(c), c)
  BY <1>2, PageOfFirst
<1> HIDE DEF items
<1>6. Cardinality(after) > PageLimit =>
        LastOf(items) \in items /\ \A d \in items : ~After(d, SortValue(LastOf(items)), LastOf(items))
  BY <1>2, <1>5, LastOfPage
<1>7. answer'.next \in items \cup {NoCursor} /\ answer'.items = items
  BY <1>1, <1>6
<1>8. ViewTypeOK'
  <2>1. walk \in PageWalk
    BY DEF ViewTypeOK
  <2>2. items \subseteq ContactRange
    BY <1>2, <1>4, <1>5
  <2>3. walk' \in PageWalk
    BY <1>1, <2>1, <2>2 DEF PageWalk, NoWalk
  <2>4. answer' \in [items : SUBSET ContactRange, next : Cursor]
    BY <1>1, <1>6, <2>2 DEF Cursor
  <2>5. fetch' \in Fetch
    BY <1>1 DEF Fetch
  <2>6. QED
    BY <1>1, <2>3, <2>4, <2>5 DEF ViewTypeOK
<1>9. Placed'
  <2>1. answer'.next \in DOMAIN rows \cup {NoCursor}
    BY <1>2, <1>5, <1>7
  <2>2. fetch'.step = "idle"
    BY <1>1 DEF Idle
  <2>3. QED
    BY <1>1, <2>1, <2>2 DEF Placed
<1>10. KeepsPace'
  <2> SUFFICES ASSUME walk'.on, NEW u \in Untouched'
               PROVE  (u \in walk'.seen <=> Passed(u)') /\ u \notin walk'.twice
    BY DEF KeepsPace
  <2>1. walk.on /\ walk \in PageWalk
    BY <1>1 DEF NoWalk, ViewTypeOK
  <2>2. /\ walk'.seen = walk.seen \cup items /\ walk'.touched = walk.touched
        /\ walk'.twice = walk.twice \cup (walk.seen \cap items)
    BY <1>1, <2>1 DEF PageWalk
  <2>3. u \in Untouched /\ u \in Listed /\ u \in DOMAIN rows
    BY <1>1, <1>4, <2>2 DEF Untouched, Listed
  <2>4. (u \in walk.seen <=> Passed(u)) /\ u \notin walk.twice
    BY <2>1, <2>3 DEF KeepsPace
  <2>5. u \in after <=> u \notin walk.seen
    BY <1>3, <2>3, <2>4
  <2>6. u \notin walk'.twice
    BY <1>5, <2>2, <2>4, <2>5
  <2>7. Passed(u)' <=> answer'.next = NoCursor \/ ~After(u, SortValue(answer'.next), answer'.next)
    <3>1. \A c : SortValue(c)' = SortValue(c)
      BY <1>1 DEF SortValue
    <3>2. \A value, id : After(u, value, id)' <=> After(u, value, id)
      BY <1>1, <3>1 DEF After
    <3>3. fetch'.step = "idle"
      BY <1>1 DEF Idle
    <3>4. After(u, SortValue(answer.next), answer.next)' <=> After(u, SortValue(answer'.next), answer'.next)
      BY <1>1 DEF After, SortValue
    <3>5. QED
      BY <3>3, <3>4 DEF Passed
  <2>8. CASE ~(Cardinality(after) > PageLimit)
    <3>1. answer'.next = NoCursor /\ items = after
      BY <1>1, <1>5, <2>8
    <3>2. u \in walk'.seen
      BY <2>2, <2>5, <3>1
    <3>3. QED
      BY <2>6, <2>7, <3>1, <3>2
  <2>9. CASE Cardinality(after) > PageLimit
    <3> DEFINE n == LastOf(items)
    <3>1. answer'.next = n /\ n \in items /\ \A d \in items : ~After(d, SortValue(n), n)
      BY <1>1, <1>6, <2>9
    <3> HIDE DEF n
    <3>2. n \in after /\ n \in DOMAIN rows /\ n \in Listed
      BY <1>2, <1>5, <3>1
    <3>3. n # NoCursor
      BY <3>2, ViewFields DEF NoCursor
    <3>4. CASE u \in items
      BY <2>2, <2>6, <2>7, <3>1, <3>4
    <3>5. CASE u \in after \ items
      <4>1. After(u, SortValue(n), n)
        BY <1>5, <3>1, <3>5
      <4>2. u \notin walk'.seen
        BY <2>2, <2>5, <3>5
      <4>3. QED
        BY <2>6, <2>7, <3>1, <3>3, <4>1, <4>2
    <3>6. CASE u \notin after
      <4>1. u \in walk'.seen /\ Passed(u) /\ ~Passed(n)
        BY <1>3, <2>2, <2>3, <2>5, <3>2, <3>6
      <4>2. /\ fetch.cursor # NoCursor /\ ~After(u, fetch.sortValue, fetch.cursor)
            /\ After(n, fetch.sortValue, fetch.cursor)
        BY <1>1, <4>1 DEF Passed
      <4>3. fetch.sortValue \in Nat /\ fetch.cursor \in Nat
        BY <1>1, <4>2, ViewFields DEF Placed
      <4>4. ~After(u, SortValue(n), n)
        BY <2>3, <3>2, <4>2, <4>3, Ordered
      <4>5. QED
        BY <2>6, <2>7, <3>1, <4>1, <4>4
    <3>7. QED
      BY <1>5, <3>4, <3>5, <3>6
  <2>10. QED
    BY <2>8, <2>9
<1>11. QED
  BY <1>8, <1>9, <1>10

(* A step that shows nothing and keeps the place, or ends the walk.        *)
LEMMA PageStepKeeps ==
  ASSUME ViewInv, ViewTypeOK', Placed',
         \/ ~walk'.on
         \/ UNCHANGED <<rows, sort, answer, fetch, walk>>
         \/ /\ fetch = Idle /\ answer.next # NoCursor /\ RequestPage(answer.next)
            /\ UNCHANGED <<rows, sort, answer, walk>>
         \/ walk' = NewWalk /\ RequestPage(NoCursor)
  PROVE  ViewInv'
<1>1. CASE ~walk'.on
  BY <1>1 DEF ViewInv, KeepsPace
<1>2. CASE UNCHANGED <<rows, sort, answer, fetch, walk>>
  <2>1. \A u : Passed(u)' <=> Passed(u)
    BY <1>2 DEF Passed, After, SortValue
  <2>2. Untouched' = Untouched
    BY <1>2 DEF Untouched, Listed
  <2>3. QED
    BY <1>2, <2>1, <2>2 DEF ViewInv, KeepsPace
<1>3. CASE /\ fetch = Idle /\ answer.next # NoCursor /\ RequestPage(answer.next)
           /\ UNCHANGED <<rows, sort, answer, walk>>
  <2>1. fetch'.step = "cursor" /\ fetch'.cursor = answer.next /\ fetch.step = "idle"
    BY <1>3 DEF RequestPage, Idle
  <2>2. \A u : Passed(u) <=> ~After(u, SortValue(answer.next), answer.next)
    BY <1>3, <2>1 DEF Passed
  <2>3. \A u : Passed(u)' <=> ~After(u, SortValue(fetch.cursor), fetch.cursor)'
    BY <1>3, <2>1 DEF Passed
  <2>4. \A u : After(u, SortValue(fetch.cursor), fetch.cursor)' <=> After(u, SortValue(answer.next), answer.next)
    BY <1>3, <2>1 DEF After, SortValue
  <2>5. Untouched' = Untouched
    BY <1>3 DEF Untouched, Listed
  <2>6. QED
    BY <1>3, <2>2, <2>3, <2>4, <2>5 DEF ViewInv, KeepsPace
<1>4. CASE walk' = NewWalk /\ RequestPage(NoCursor)
  <2>1. fetch'.step = "cursor" /\ fetch'.cursor = NoCursor
    BY <1>4 DEF RequestPage
  <2>2. walk'.seen = {} /\ walk'.twice = {}
    BY <1>4 DEF NewWalk, NoWalk
  <2>3. QED
    BY <2>1, <2>2 DEF ViewInv, KeepsPace, Passed
<1>5. QED
  BY <1>1, <1>2, <1>3, <1>4

LEMMA ViewStepInv ==
  ASSUME ViewInv, [ViewNext]_viewVars
  PROVE  ViewInv'
<1>1. CASE InsertContact
  <2>1. DOMAIN rows \subseteq ContactRange /\ IsFiniteSet(DOMAIN rows) /\ MaxContact \in Nat
    BY ViewFields, ContactsViewAssumption DEF ViewInv, ViewTypeOK
  <2>2. Cardinality(DOMAIN rows) + 1 \in ContactRange
    BY <1>1, <2>1, FS_CardinalityType DEF InsertContact, ContactRange
  <2>3. QED
    BY <1>1, <2>2, WriteKeeps DEF InsertContact
<1>2. CASE \E c \in DOMAIN rows : UpdateContact(c) \/ ArchiveContact(c) \/ RestoreContact(c)
  <2>1. DOMAIN rows \subseteq ContactRange
    BY DEF ViewInv, ViewTypeOK
  <2>2. PICK c \in ContactRange : Write(c, "active") \/ Write(c, "archived")
    BY <1>2, <2>1 DEF UpdateContact, ArchiveContact, RestoreContact
  <2>3. QED
    BY <2>2, WriteKeeps
<1>3. CASE FindCursor
  BY <1>3, FindCursorKeeps
<1>4. CASE ListPage
  BY <1>4, ListPageKeeps
<1>5. CASE GoToNextPage
  <2>1. /\ answer.next # NoCursor
        /\ pager' = [cursor |-> answer.next, history |-> Append(pager.history, pager.cursor)]
        /\ (UNCHANGED fetch \/ RequestPage(answer.next))
        /\ checked' = {} /\ walk' = IF fetch = Idle THEN walk ELSE NoWalk
        /\ UNCHANGED <<rows, now, sort, answer>>
    BY <1>5 DEF GoToNextPage
  <2>2. /\ pager \in [cursor : Cursor, history : Seq(Cursor)] /\ answer.next \in Cursor
        /\ fetch \in Fetch /\ walk \in PageWalk
    BY DEF ViewInv, ViewTypeOK
  <2>3. pager' \in [cursor : Cursor, history : Seq(Cursor)]
    BY <2>1, <2>2
  <2>4. fetch' \in Fetch /\ walk' \in PageWalk
    BY <2>1, <2>2 DEF RequestPage, Fetch, PageWalk, NoWalk
  <2>5. ViewTypeOK'
    BY <2>1, <2>3, <2>4 DEF ViewInv, ViewTypeOK
  <2>6. Placed'
    <3> DEFINE known == DOMAIN rows \cup {NoCursor}
    <3>1. answer.next \in known /\ pager.cursor \in known
          /\ \A i \in DOMAIN pager.history : pager.history[i] \in known
      BY DEF ViewInv, Placed
    <3>2. \A i \in DOMAIN pager'.history : pager'.history[i] \in known
      <4>1. pager.history \in Seq(known)
        BY <2>2, <3>1
      <4>2. pager'.history \in Seq(known)
        BY <2>1, <3>1, <4>1
      <4>3. QED
        BY <4>2
    <3>3. fetch'.step \in {"cursor", "rows"} => fetch'.cursor \in known
      BY <2>1, <3>1 DEF RequestPage, ViewInv, Placed
    <3>4. QED
      BY <2>1, <3>1, <3>2, <3>3 DEF Placed
  <2>7. QED
    BY <2>1, <2>5, <2>6, PageStepKeeps DEF NoWalk
<1>6. CASE GoToPreviousPage
  <2> DEFINE previous == Last(pager.history)
  <2>1. /\ pager.history # <<>>
        /\ pager' = [cursor |-> previous, history |-> Front(pager.history)]
        /\ (UNCHANGED fetch \/ RequestPage(previous))
        /\ checked' = {} /\ walk' = NoWalk
        /\ UNCHANGED <<rows, now, sort, answer>>
    BY <1>6 DEF GoToPreviousPage
  <2>2. pager \in [cursor : Cursor, history : Seq(Cursor)] /\ fetch \in Fetch
    BY DEF ViewInv, ViewTypeOK
  <2> DEFINE known == DOMAIN rows \cup {NoCursor}
  <2>3. pager.history \in Seq(known)
    BY <2>2 DEF ViewInv, Placed
  <2>4. previous \in known /\ previous \in Cursor
    BY <2>1, <2>2, <2>3 DEF Last
  <2>5. Front(pager.history) \in Seq(known) /\ Front(pager.history) \in Seq(Cursor)
    BY <2>1, <2>2, <2>3 DEF Front
  <2> HIDE DEF previous
  <2>6. ViewTypeOK'
    <3>1. pager' \in [cursor : Cursor, history : Seq(Cursor)]
      BY <2>1, <2>4, <2>5
    <3>2. fetch' \in Fetch /\ walk' \in PageWalk
      BY <2>1, <2>2, <2>4 DEF RequestPage, Fetch, PageWalk, NoWalk
    <3>3. QED
      BY <2>1, <3>1, <3>2 DEF ViewInv, ViewTypeOK
  <2>7. Placed'
    <3>1. pager'.cursor \in known /\ \A i \in DOMAIN pager'.history : pager'.history[i] \in known
      BY <2>1, <2>4, <2>5
    <3>2. fetch'.step \in {"cursor", "rows"} => fetch'.cursor \in known
      BY <2>1, <2>4 DEF RequestPage, ViewInv, Placed
    <3>3. QED
      BY <2>1, <3>1, <3>2 DEF ViewInv, Placed
  <2>8. QED
    BY <2>1, <2>6, <2>7, PageStepKeeps DEF NoWalk
<1>7. CASE \E to \in Sort : ChangeSort(to)
  <2>1. PICK to \in Sort : ChangeSort(to)
    BY <1>7
  <2>2. /\ sort' = to /\ pager' = [cursor |-> NoCursor, history |-> <<>>]
        /\ RequestPage(NoCursor) /\ walk' = NewWalk
        /\ UNCHANGED <<rows, now, answer, checked>>
    BY <2>1 DEF ChangeSort
  <2>3. ViewTypeOK'
    <3>1. pager' \in [cursor : Cursor, history : Seq(Cursor)]
      BY <2>2 DEF Cursor
    <3>2. fetch' \in Fetch /\ walk' \in PageWalk
      BY <2>2 DEF RequestPage, Fetch, PageWalk, NewWalk, NoWalk, Cursor
    <3>3. QED
      BY <2>2, <3>1, <3>2 DEF ViewInv, ViewTypeOK
  <2>4. Placed'
    BY <2>2 DEF ViewInv, Placed, RequestPage
  <2>5. QED
    BY <2>2, <2>3, <2>4, PageStepKeeps
<1>8. CASE \E C \in SUBSET ContactRange : CheckRows(C)
  <2>1. ViewTypeOK' /\ Placed' /\ UNCHANGED <<rows, sort, answer, fetch, walk>>
    BY <1>8 DEF CheckRows, ViewInv, ViewTypeOK, Placed
  <2>2. QED
    BY <2>1, PageStepKeeps
<1>9. CASE ApplyBulkAction
  <2>1. /\ rows' = [c \in DOMAIN rows |->
                      IF c \in checked
                      THEN [rows[c] EXCEPT !.status = "archived", !.updatedAt = now] ELSE rows[c]]
        /\ RequestPage(pager.cursor) /\ checked' = {} /\ walk' = NoWalk
        /\ UNCHANGED <<now, sort, pager, answer>>
    BY <1>9 DEF ApplyBulkAction
  <2>2. DOMAIN rows' = DOMAIN rows
    BY <2>1
  <2>3. ViewTypeOK'
    <3>1. rows' \in [DOMAIN rows' -> Row]
      BY <2>1, <2>2 DEF ViewInv, ViewTypeOK, Row
    <3>2. fetch' \in Fetch /\ walk' \in PageWalk
      BY <2>1 DEF RequestPage, Fetch, PageWalk, NoWalk, ViewInv, ViewTypeOK
    <3>3. QED
      BY <2>1, <2>2, <3>1, <3>2 DEF ViewInv, ViewTypeOK
  <2>4. Placed'
    BY <2>1, <2>2 DEF ViewInv, Placed, RequestPage
  <2>5. QED
    BY <2>1, <2>3, <2>4, PageStepKeeps DEF NoWalk
<1>10. CASE UNCHANGED viewVars
  BY <1>10, PageStepKeeps DEF viewVars, ViewInv, ViewTypeOK, Placed
<1>11. QED
  BY <1>1, <1>2, <1>3, <1>4, <1>5, <1>6, <1>7, <1>8, <1>9, <1>10 DEF ViewNext

LEMMA ViewAlwaysInv == ViewSpec => []ViewInv
<1>1. ViewInit => ViewInv
  BY ViewInitInv
<1>2. ViewInv /\ [ViewNext]_viewVars => ViewInv'
  BY ViewStepInv
<1>3. QED
  BY <1>1, <1>2, PTL DEF ViewSpec

LEMMA PaceCompletes == ViewInv => WalkComplete
<1> SUFFICES ASSUME ViewInv, walk.on
             PROVE  /\ Untouched \cap walk.twice = {}
                    /\ fetch = Idle /\ answer.next = NoCursor => Untouched \subseteq walk.seen
  BY DEF WalkComplete
<1>1. \A u \in Untouched : (u \in walk.seen <=> Passed(u)) /\ u \notin walk.twice
  BY DEF ViewInv, KeepsPace
<1>2. fetch = Idle /\ answer.next = NoCursor => \A u : Passed(u)
  BY DEF Passed, Idle
<1>3. QED
  BY <1>1, <1>2

-----------------------------------------------------------------------------
(* The filters.  A saved view is a search that named no segment, and the   *)
(* form of a condition offers no operator its field does not have.         *)

FilterInv ==
  /\ FilterTypeOK
  /\ FiltersSettle
  /\ savedView # Absent => ~savedView.segmentId
  /\ IsSegmentOperatorAllowed(segmentForm.field, segmentForm.operator)

LEMMA AbsentIsNothing ==
  /\ Absent \notin Scores /\ Absent \notin Texts /\ Absent \notin BOOLEAN
  /\ Absent \notin ContactSearch /\ Absent \notin SUBSET Words
  /\ ScoreBounds \subseteq Nat /\ KnownCompanies \subseteq DOMAIN CompanyNames
  /\ Unfiltered \notin DOMAIN CompanyNames
BY FiltersAssumption

LEMMA DefaultSearch ==
  \A flag \in BOOLEAN : [ContactSearchDefaults EXCEPT !.segmentId = flag] \in ContactSearch
BY DEF ContactSearchDefaults, ContactSearch

LEMMA FilterInitInv == FilterInit => FilterInv
<1> SUFFICES ASSUME FilterInit PROVE FilterInv
  OBVIOUS
<1>1. FilterTypeOK
  BY DEF FilterInit, FilterTypeOK, ContactSearch, ContactSearchDefaults, SegmentFields,
         SegmentFieldDefinitions, TextOperators
<1>2. IsSegmentOperatorAllowed(segmentForm.field, segmentForm.operator)
  BY DEF FilterInit, IsSegmentOperatorAllowed, SegmentFieldDefinitions, TextOperators
<1>3. QED
  BY <1>1, <1>2 DEF FilterInit, FilterInv, FiltersSettle

LEMMA FilterStepInv ==
  ASSUME FilterInv, [FilterNext]_filterVars
  PROVE  FilterInv'
<1> USE AbsentIsNothing DEF FilterInv
<1> DEFINE FormKept == UNCHANGED segmentForm
<1>1. CASE \E search \in ContactSearch : SetFilter(search)
  BY <1>1 DEF SetFilter, FilterTypeOK, FiltersSettle
<1>2. CASE ClearFilters
  <2>1. typed \in ContactSearch
    BY DEF FilterTypeOK
  <2>2. typed' \in ContactSearch
    BY <1>2, <2>1 DEF ClearFilters, ContactSearch, ContactSearchDefaults
  <2>3. QED
    BY <1>2, <2>2 DEF ClearFilters, FilterTypeOK, FiltersSettle
<1>3. CASE CommitSearch
  BY <1>3 DEF CommitSearch, FilterTypeOK, FiltersSettle
<1>4. CASE AdoptUrl
  BY <1>4 DEF AdoptUrl, FilterTypeOK, FiltersSettle
<1>5. CASE SaveSegment
  BY <1>5 DEF SaveSegment, FilterTypeOK, FiltersSettle, CanSaveSegment
<1>6. CASE \E flag \in BOOLEAN : FollowLink([ContactSearchDefaults EXCEPT !.segmentId = flag])
  <2>1. PICK search \in ContactSearch : FollowLink(search)
    BY <1>6, DefaultSearch
  <2>2. QED
    BY <2>1 DEF FollowLink, FilterTypeOK, FiltersSettle
<1>7. CASE \E field \in SegmentFields : SetField(field)
  <2>1. PICK field \in SegmentFields : SetField(field)
    BY <1>7
  <2> DEFINE operator == NormalizeSegmentOperator(field, segmentForm.operator)
  <2>2. /\ operator \in TextOperators \cup ComparableOperators
        /\ IsSegmentOperatorAllowed(field, operator)
    <3>1. IsSegmentOperatorAllowed(field, "eq")
      BY DEF IsSegmentOperatorAllowed, SegmentFields, SegmentFieldDefinitions, TextOperators,
             ComparableOperators, RelationOperators
    <3>2. segmentForm.operator \in TextOperators \cup ComparableOperators
      BY DEF FilterTypeOK
    <3>3. QED
      BY <3>1, <3>2 DEF NormalizeSegmentOperator, TextOperators
  <2>3. segmentForm' = [field |-> field, operator |-> operator]
    BY <2>1 DEF SetField
  <2> HIDE DEF operator
  <2>4. UNCHANGED <<typed, url, timer, navigating, savedView, overtaken>>
    BY <2>1 DEF SetField
  <2>5. QED
    BY <2>2, <2>3, <2>4 DEF FilterTypeOK, FiltersSettle
<1>8. CASE \E operator \in TextOperators \cup ComparableOperators : SetOperator(operator)
  <2>1. PICK operator \in TextOperators \cup ComparableOperators : SetOperator(operator)
    BY <1>8
  <2>2. segmentForm \in [field : SegmentFields, operator : TextOperators \cup ComparableOperators]
    BY DEF FilterTypeOK
  <2>3. /\ segmentForm' \in [field : SegmentFields, operator : TextOperators \cup ComparableOperators]
        /\ segmentForm'.field = segmentForm.field /\ segmentForm'.operator = operator
    BY <2>1, <2>2 DEF SetOperator
  <2>4. /\ IsSegmentOperatorAllowed(segmentForm.field, operator)
        /\ UNCHANGED <<typed, url, timer, navigating, savedView, overtaken>>
    BY <2>1 DEF SetOperator
  <2>5. QED
    BY <2>3, <2>4 DEF FilterTypeOK, FiltersSettle
<1>9. CASE UNCHANGED filterVars
  BY <1>9 DEF filterVars, FilterTypeOK, FiltersSettle
<1>10. QED
  BY <1>1, <1>2, <1>3, <1>4, <1>5, <1>6, <1>7, <1>8, <1>9 DEF FilterNext, SearchNext, SegmentFormNext

LEMMA FilterAlwaysInv == FilterSpec => []FilterInv
<1>1. FilterInit => FilterInv
  BY FilterInitInv
<1>2. FilterInv /\ [FilterNext]_filterVars => FilterInv'
  BY FilterStepInv
<1>3. QED
  BY <1>1, <1>2, PTL DEF FilterSpec

(* AND and OR in three-valued logic, when all that counts is TRUE.         *)
LEMMA OrIsTrue ==
  ASSUME NEW S
  PROVE  /\ CompileGroup("or", S) = "true" <=> "true" \in S
         /\ CompileGroup("or", S) \in {"true", "false", "null"}
BY DEF CompileGroup

LEMMA AndIsTrue ==
  ASSUME NEW S \in SUBSET {"true", "false", "null"}
  PROVE  CompileGroup("and", S) = "true" <=> \A x \in S : x = "true"
BY DEF CompileGroup

Satisfies(person, child) == \E c \in child : Meets(person, c) = "true"

LEMMA MatchesAll ==
  ASSUME NEW filter, NEW person
  PROVE  MatchesSegment(filter, person) <=>
           (\A child \in filter : Satisfies(person, child)) /\ person.status # "archived"
<1> DEFINE Or(child) == CompileGroup("or", {Meets(person, c) : c \in child})
           all == {Or(child) : child \in filter}
<1>1. \A child \in filter : Or(child) = "true" <=> Satisfies(person, child)
  <2> TAKE child \in filter
  <2>1. Or(child) = "true" <=> "true" \in {Meets(person, c) : c \in child}
    BY OrIsTrue
  <2>2. QED
    BY <2>1 DEF Satisfies
<1>2. all \in SUBSET {"true", "false", "null"}
  <2>1. \A child \in filter : Or(child) \in {"true", "false", "null"}
    BY OrIsTrue
  <2> HIDE DEF Or
  <2>2. QED
    BY <2>1
<1>3. MatchesSegment(filter, person) <=> CompileGroup("and", all) = "true" /\ person.status # "archived"
  BY DEF MatchesSegment
<1>4. CompileGroup("and", all) = "true" <=> \A x \in all : x = "true"
  <2> HIDE DEF all
  <2>1. QED
    BY <1>2, AndIsTrue
<1> HIDE DEF Or
<1>5. QED
  BY <1>1, <1>3, <1>4

(* What each child of the filter asks of a contact.                        *)
LEMMA TextChild ==
  ASSUME NEW person \in People
  PROVE  Satisfies(person, {Condition(f, "contains", TRUE) : f \in {"email", "first_name", "last_name"}})
           <=> person.hits \cap {"email", "first_name", "last_name"} # {}
<1>1. ASSUME NEW f \in {"email", "first_name", "last_name"}
      PROVE  Meets(person, Condition(f, "contains", TRUE)) = "true" <=> f \in person.hits
  <2>1. Condition(f, "contains", TRUE)[1] = f
    BY DEF Condition
  <2>2. QED
    BY <2>1 DEF Meets
<1>2. QED
  BY <1>1 DEF Satisfies

LEMMA StatusChild ==
  ASSUME NEW person \in People, NEW status
  PROVE  Satisfies(person, {Condition("status", "eq", status)}) <=> person.status = status
BY DEF Satisfies, Meets, Condition, SqlBoolean

LEMMA ScoreChild ==
  ASSUME NEW person \in People, NEW least \in ScoreBounds
  PROVE  Satisfies(person, {Condition("score", "gte", least)}) <=> person.score >= least
<1>1. person.score # Absent
  BY AbsentIsNothing DEF People
<1>2. ScalarExpression(person.score, "gte", least) = "true" <=> person.score >= least
  BY <1>1 DEF ScalarExpression, SqlCompared, Compares
<1>3. Meets(person, Condition("score", "gte", least)) = ScalarExpression(person.score, "gte", least)
  BY DEF Meets, Condition
<1>4. QED
  BY <1>2, <1>3 DEF Satisfies

LEMMA CompanyChild ==
  ASSUME NEW person \in People, NEW id \in DOMAIN CompanyNames,
         \A co \in DOMAIN CompanyNames : CompanyNames[co] = CompanyNames[id] => co = id
  PROVE  Satisfies(person, {Condition("company", "eq", CompanyNames[id])}) <=> id \in person.companies
<1> DEFINE names == {CompanyNames[co] : co \in person.companies}
<1>1. CompanyNames[id] \in names <=> id \in person.companies
  BY DEF People
<1>2. Meets(person, Condition("company", "eq", CompanyNames[id])) =
        CompileCondition("relation", "eq", names, CompanyNames[id])
  BY DEF Meets, Condition
<1> HIDE DEF names
<1>3. CompileCondition("relation", "eq", names, CompanyNames[id]) = "true" <=> CompanyNames[id] \in names
  BY DEF CompileCondition, ExistsPrefix, SqlBoolean
<1>4. QED
  BY <1>1, <1>2, <1>3 DEF Satisfies

LEMMA SegmentIsView ==
  ASSUME NEW search \in ContactSearch, ~search.segmentId, NamesItsCompany(search), NEW person \in People
  PROVE  MatchesSegment(CreateSegmentFilter(search), person) <=>
           /\ ListContacts(search, person, FALSE)
           /\ person.status # "archived"
           /\ search.q => person.hits \cap {"email", "first_name", "last_name"} # {}
<1> DEFINE inText == {Condition(f, "contains", TRUE) : f \in {"email", "first_name", "last_name"}}
           inStatus == {Condition("status", "eq", search.status)}
           inScore == {Condition("score", "gte", search.scoreMin)}
           inCompany == {Condition("company", "eq", CompanyNames[search.companyId])}
<1>1. search.q \in BOOLEAN /\ search.scoreMin \in {Unfiltered} \cup ScoreBounds
  BY DEF ContactSearch
<1>2. search.companyId # Unfiltered <=> search.companyId \in KnownCompanies
  BY AbsentIsNothing DEF NamesItsCompany
<1>3. CreateSegmentFilter(search) =
        (IF search.q THEN {inText} ELSE {})
          \cup (IF search.status # "all" THEN {inStatus} ELSE {})
          \cup (IF search.scoreMin # Unfiltered THEN {inScore} ELSE {})
          \cup (IF search.companyId \in KnownCompanies THEN {inCompany} ELSE {})
  BY DEF CreateSegmentFilter
<1>4. /\ Satisfies(person, inText) <=> person.hits \cap {"email", "first_name", "last_name"} # {}
      /\ Satisfies(person, inStatus) <=> person.status = search.status
  BY TextChild, StatusChild
<1>5. search.scoreMin # Unfiltered => (Satisfies(person, inScore) <=> person.score >= search.scoreMin)
  BY <1>1, ScoreChild
<1>6. search.companyId \in KnownCompanies =>
        (Satisfies(person, inCompany) <=> search.companyId \in person.companies)
  BY <1>2, AbsentIsNothing, CompanyChild DEF NamesItsCompany
<1> HIDE DEF inText, inStatus, inScore, inCompany
<1>7. MatchesSegment(CreateSegmentFilter(search), person) <=>
        (\A child \in CreateSegmentFilter(search) : Satisfies(person, child)) /\ person.status # "archived"
  BY MatchesAll
<1>8. (\A child \in CreateSegmentFilter(search) : Satisfies(person, child)) <=>
        /\ search.q => Satisfies(person, inText)
        /\ search.status # "all" => Satisfies(person, inStatus)
        /\ search.scoreMin # Unfiltered => Satisfies(person, inScore)
        /\ search.companyId \in KnownCompanies => Satisfies(person, inCompany)
  BY <1>1, <1>3
<1>9. person.hits \cap {"email", "first_name", "last_name"} # {} => person.hits # {}
  OBVIOUS
<1>10. QED
  BY <1>1, <1>2, <1>4, <1>5, <1>6, <1>7, <1>8, <1>9 DEF ListContacts

(* A condition in a segment and in a node, for each kind of field.         *)
Agrees(field, operator, left, right) ==
  LET sql == CompileCondition(field, operator, left, right) = "true"
      node == EvaluateCondition(field, operator, left, right)
  IN CASE operator = "neq" /\ left = Absent -> node /\ ~sql
       [] operator \in {"contains", "starts_with"} -> node => sql
       [] field = "relation" /\ operator \in {"exists", "not_exists"} -> node = (operator = "exists")
       [] OTHER -> node <=> sql

LEMMA TextAgrees ==
  ASSUME NEW operator \in TextOperators, NEW left \in Texts \cup {Absent},
         NEW right \in Operands("text", operator)
  PROVE  Agrees("text", operator, left, right)
<1>1. right \in IF operator = "in" THEN SUBSET Texts ELSE Texts
  BY DEF Operands, FieldValues
<1>2. CompileCondition("text", operator, left, right) = ScalarExpression(left, operator, right)
  BY DEF CompileCondition
<1>3. EvaluateCondition("text", operator, left, right) = NodeCompare(left, operator, right)
  BY DEF EvaluateCondition
<1> USE AbsentIsNothing
<1>4. CASE operator = "eq"
  BY <1>1, <1>2, <1>3, <1>4 DEF Agrees, ScalarExpression, NodeCompare, SqlCompared
<1>5. CASE operator = "neq"
  BY <1>1, <1>2, <1>3, <1>5 DEF Agrees, ScalarExpression, NodeCompare, SqlCompared
<1>6. CASE operator \in {"contains", "starts_with"}
  BY <1>1, <1>2, <1>3, <1>6 DEF Agrees, ScalarExpression, NodeCompare, SqlCompared
<1>7. CASE operator = "in"
  BY <1>1, <1>2, <1>3, <1>7 DEF Agrees, ScalarExpression, NodeCompare, SqlCompared
<1>8. CASE operator \in {"exists", "not_exists"}
  BY <1>1, <1>2, <1>3, <1>8 DEF Agrees, ScalarExpression, NodeCompare, SqlBoolean
<1>9. QED
  BY <1>4, <1>5, <1>6, <1>7, <1>8 DEF TextOperators

LEMMA NumberAgrees ==
  ASSUME NEW operator \in ComparableOperators, NEW left \in Scores,
         NEW right \in Operands("number", operator)
  PROVE  Agrees("number", operator, left, right)
<1>1. right \in IF operator = "in" THEN SUBSET ScoreBounds ELSE ScoreBounds
  BY DEF Operands, FieldValues
<1>2. CompileCondition("number", operator, left, right) = ScalarExpression(left, operator, right)
  BY DEF CompileCondition
<1>3. EvaluateCondition("number", operator, left, right) = NodeCompare(left, operator, right)
  BY DEF EvaluateCondition
<1>4. left # Absent
  BY AbsentIsNothing
<1>5. CASE operator \in {"eq", "neq", "in"}
  BY <1>2, <1>3, <1>4, <1>5 DEF Agrees, ScalarExpression, NodeCompare, SqlCompared
<1>6. CASE operator \in {"gt", "gte", "lt", "lte"}
  BY <1>2, <1>3, <1>4, <1>6 DEF Agrees, ScalarExpression, NodeCompare, SqlCompared, Compares
<1>7. CASE operator \in {"exists", "not_exists"}
  BY <1>2, <1>3, <1>4, <1>7 DEF Agrees, ScalarExpression, NodeCompare, SqlBoolean
<1>8. QED
  BY <1>5, <1>6, <1>7 DEF ComparableOperators

LEMMA RelationAgrees ==
  ASSUME NEW operator \in RelationOperators, NEW left \in SUBSET Words, NEW right \in Words
  PROVE  Agrees("relation", operator, left, right)
<1>1. left # Absent /\ TRUE # Absent /\ FALSE # Absent
  <2>1. TRUE \in BOOLEAN /\ FALSE \in BOOLEAN
    OBVIOUS
  <2>2. QED
    BY <2>1, AbsentIsNothing
<1>2. CASE operator = "eq"
  <2>1. CompileCondition("relation", "eq", left, right) = "true" <=> right \in left
    BY DEF CompileCondition, SqlBoolean, ExistsPrefix
  <2>2. EvaluateCondition("relation", "eq", left, right) <=> right \in left
    BY DEF EvaluateCondition, NodeCompare
  <2>3. QED
    BY <1>2, <2>1, <2>2 DEF Agrees
<1>3. CASE operator = "neq"
  <2>1. CompileCondition("relation", "neq", left, right) = "true" <=> ~(right \in left)
    BY DEF CompileCondition, SqlBoolean, ExistsPrefix
  <2>2. EvaluateCondition("relation", "neq", left, right) <=> ~(right \in left)
    BY DEF EvaluateCondition, NodeCompare
  <2>3. QED
    BY <1>1, <1>3, <2>1, <2>2 DEF Agrees
<1>4. CASE operator = "exists"
  <2>1. EvaluateCondition("relation", "exists", left, right) = TRUE
    <3>1. CASE right \in left
      BY <1>1, <3>1 DEF EvaluateCondition, NodeCompare
    <3>2. CASE right \notin left
      <4>1. (right \in left) = FALSE
        BY <3>2
      <4>2. NodeCompare(FALSE, "exists", TRUE) = TRUE
        BY <1>1 DEF NodeCompare
      <4>3. QED
        BY <4>1, <4>2, Zenon DEF EvaluateCondition
    <3>3. QED
      BY <3>1, <3>2
  <2>2. QED
    BY <1>4, <2>1 DEF Agrees
<1>5. CASE operator = "not_exists"
  <2>1. EvaluateCondition("relation", "not_exists", left, right) = FALSE
    <3>1. CASE right \in left
      BY <1>1, <3>1 DEF EvaluateCondition, NodeCompare
    <3>2. CASE right \notin left
      <4>1. (right \in left) = FALSE
        BY <3>2
      <4>2. NodeCompare(FALSE, "not_exists", TRUE) = FALSE
        BY <1>1 DEF NodeCompare
      <4>3. QED
        BY <4>1, <4>2, Zenon DEF EvaluateCondition
    <3>3. QED
      BY <3>1, <3>2
  <2>2. QED
    BY <1>5, <2>1 DEF Agrees
<1>6. QED
  BY <1>2, <1>3, <1>4, <1>5 DEF RelationOperators

LEMMA FiltersAlwaysAgree == FilterInv => FiltersAgree
<1> SUFFICES ASSUME FilterInv PROVE FiltersAgree
  OBVIOUS
<1>1. SavedIsView
  BY SegmentIsView DEF FilterInv, FilterTypeOK, SavedIsView
<1>2. NodeAgrees
  <2> DEFINE field == segmentForm.field
             operator == segmentForm.operator
  <2>1. field \in {"text", "number", "relation"} /\ operator \in SegmentFieldDefinitions[field]
    BY DEF FilterInv, FilterTypeOK, IsSegmentOperatorAllowed, SegmentFields, SegmentFieldDefinitions
  <2>2. \A left \in Lefts(field), right \in Operands(field, operator) : Agrees(field, operator, left, right)
    <3>1. CASE field = "text"
      BY <2>1, <3>1, TextAgrees DEF Lefts, SegmentFieldDefinitions
    <3>2. CASE field = "number"
      BY <2>1, <3>2, NumberAgrees DEF Lefts, SegmentFieldDefinitions
    <3>3. CASE field = "relation"
      <4>1. operator \in RelationOperators
        BY <2>1, <3>3 DEF SegmentFieldDefinitions
      <4>2. Operands(field, operator) = Words /\ Lefts(field) = SUBSET Words
        BY <3>3, <4>1 DEF Operands, FieldValues, Lefts, RelationOperators
      <4>3. QED
        BY <3>3, <4>1, <4>2, RelationAgrees
    <3>4. QED
      BY <2>1, <3>1, <3>2, <3>3
  <2> HIDE DEF field, operator
  <2>3. QED
    BY <2>2 DEF NodeAgrees, Agrees, field, operator
<1>3. QED
  BY <1>1, <1>2 DEF FilterInv, FiltersAgree

-----------------------------------------------------------------------------
(* The whole.                                                              *)

(* A walk through the pages of the list meets every contact that matches   *)
(* and nobody writes exactly once, a saved segment has the contacts the    *)
(* list showed, and a condition node agrees with a segment.                *)
(* (contacts/repository.ts listContacts, contact-filters.ts, segment.ts)   *)
THEOREM ListAlwaysFaithful == ContactsSpec => []ListFaithful
<1>1. ViewInv /\ FilterInv => ListFaithful
  BY PaceCompletes, FiltersAlwaysAgree DEF ListFaithful
<1>2. QED
  BY <1>1, ViewAlwaysInv, FilterAlwaysInv, PTL DEF ContactsSpec

(* Jobs, list, filters, records and cache keep their types, however their  *)
(* steps interleave.  (contacts/repository.ts and the pages over it)       *)
THEOREM ContactsTypeCorrect == ContactsSpec => []ContactTypesOK
<1>1. ViewInv => ViewTypeOK
  BY DEF ViewInv
<1>2. FilterInv => FilterTypeOK
  BY DEF FilterInv
<1>3. JobTypeOK /\ ViewTypeOK /\ FilterTypeOK /\ RecordTypeOK /\ ClientTypeOK => ContactTypesOK
  BY DEF ContactTypesOK
<1>4. QED
  BY <1>1, <1>2, <1>3, JobTypeCorrect, ViewAlwaysInv, FilterAlwaysInv, RecordTypeCorrect,
     ClientTypeCorrect, PTL DEF ContactsSpec

=============================================================================
