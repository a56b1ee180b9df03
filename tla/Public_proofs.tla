--------------------------- MODULE Public_proofs ---------------------------
(***************************************************************************)
(* Theorems about what the public sees of a workspace and sends it, for    *)
(* every number of forms, pages, messages, visitors, mails and requests:   *)
(*                                                                         *)
(*   Website        forms, landing pages and site messages                 *)
(*   SiteVisitor    the script in a visitor's browser                      *)
(*   MailTemplates  drafts, publications and the mails made of them        *)
(*   InboundMail    replies                                                *)
(*   Maintenance    what the daily run archives and rolls up               *)
(*                                                                         *)
(* and about the workspace as a whole, whose other components' theorems    *)
(* Requests_proofs and Reports_proofs hold.                                *)
(***************************************************************************)
EXTENDS Workspace, Requests_proofs, Reports_proofs

-----------------------------------------------------------------------------
(* Website: forms.  Who is about to write an event wrote its row, and      *)
(* nobody else did; so an event is written once.                           *)

SubmitsOnce ==
  \A r \in WebRequests :
    /\ At(r, "createContact") => webReq[r].email \in Emails
    /\ At(r, "contactEvent") =>
         /\ webReq[r].email \in known /\ joined[webReq[r].email] = 0
         /\ \A s \in WebRequests :
              At(s, "contactEvent") /\ webReq[s].email = webReq[r].email => s = r
    /\ At(r, "insertSubmission") => webReq[r].email \in known \cup {NoEmail}
    /\ At(r, "submittedEvent") =>
         /\ IsDuplicate(webReq[r]) /\ submitted[webReq[r].form][webReq[r].key] = 0
         /\ \A s \in WebRequests :
              /\ At(s, "submittedEvent")
              /\ webReq[s].form = webReq[r].form /\ webReq[s].key = webReq[r].key
              => s = r

(* Pages.  An edit that holds a number holds the next one or one that is   *)
(* taken.                                                                  *)
EditsNext ==
  \A r \in WebRequests : At(r, "insertVersion") =>
    /\ pageRow[webReq[r].page].status # "none"
    /\ webReq[r].version >= 2 /\ webReq[r].version <= pageRow[webReq[r].page].current + 1

(* Messages.  A view that is counted and not yet on the timeline is of a   *)
(* request that is about to put it there.                                  *)
Viewing(m) == {r \in WebRequests : At(r, "viewedEvent") /\ webReq[r].message = m}

ViewsUnderWay ==
  \A m \in Messages :
    /\ IsFiniteSet(Viewing(m))
    /\ viewed[m] + Cardinality(Viewing(m)) <= messageRow[m].impressions
    /\ messageRow[m].status = "none" => messageRow[m].impressions = 0

FormTypes ==
  /\ formRow \in [Forms -> FormRow]
  /\ submissions \subseteq SubmissionRow
  /\ known \subseteq Emails
  /\ joined \in [Emails -> Nat]
  /\ submitted \in [Forms -> [SubmissionKeys -> Nat]]
PageTypes ==
  /\ pageRow \in [Pages -> PageRow]
  /\ pageVersions = [p \in Pages |-> pageVersions[p]]
  /\ \A p \in Pages : IsVersions(pageVersions[p])
MessageTypes == messageRow \in [Messages -> MessageRow] /\ viewed \in [Messages -> Nat]
RequestTypes == webReq \in [WebRequests -> WebRequestState]

FormInv == FormTypes /\ SubmittedOnce /\ SubmitsOnce
PageInv == PageTypes /\ PagesConsistent /\ EditsNext
MessageInv == MessageTypes /\ ViewsUnderWay
WebInv == RequestTypes /\ FormInv /\ PageInv /\ MessageInv

LEMMA WebTypeParts == WebTypeOK <=> FormTypes /\ PageTypes /\ MessageTypes /\ RequestTypes
BY DEF WebTypeOK, FormTypes, PageTypes, MessageTypes, RequestTypes

LEMMA WebStates ==
  ASSUME NEW q \in WebRequestState
  PROVE  /\ q.step \in SubmissionSteps =>
              /\ q.form \in Forms /\ q.key \in SubmissionKeys /\ q.email \in Emails \cup {NoEmail}
              /\ q = [step |-> q.step, form |-> q.form, key |-> q.key, email |-> q.email]
         /\ q.step = "insertVersion" =>
              q.page \in Pages /\ q.version \in Nat /\ q.status \in Written
         /\ q.step = "viewedEvent" => q.message \in Messages
         /\ q.step = "idle" => q = IdleWeb
BY DEF WebRequestState, SubmissionSteps, IdleWeb

(* A form request that moves on stays a form request.                      *)
LEMMA FormStates ==
  ASSUME NEW q \in WebRequestState, q.step \in SubmissionSteps, NEW to \in SubmissionSteps
  PROVE  /\ [q EXCEPT !.step = to] \in WebRequestState
         /\ [q EXCEPT !.step = to].step = to
         /\ [q EXCEPT !.step = to].form = q.form
         /\ [q EXCEPT !.step = to].key = q.key
         /\ [q EXCEPT !.step = to].email = q.email
<1>1. /\ q.form \in Forms /\ q.key \in SubmissionKeys /\ q.email \in Emails \cup {NoEmail}
      /\ q = [step |-> q.step, form |-> q.form, key |-> q.key, email |-> q.email]
  BY WebStates
<1>2. [q EXCEPT !.step = to] = [step |-> to, form |-> q.form, key |-> q.key, email |-> q.email]
  BY <1>1
<1>3. QED
  BY <1>1, <1>2 DEF WebRequestState

LEMMA WebInvInit == WebInit => WebInv
<1> SUFFICES ASSUME WebInit PROVE WebInv
  OBVIOUS
<1>1. RequestTypes
  BY DEF WebInit, RequestTypes, WebRequestState
<1>2. FormInv
  <2>1. FormTypes
    BY DEF WebInit, FormTypes, FormRow, PublishStatus
  <2>2. SubmittedOnce /\ SubmitsOnce
    BY DEF WebInit, SubmittedOnce, SubmitsOnce, At, IdleWeb
  <2>3. QED
    BY <2>1, <2>2 DEF FormInv
<1>3. PageInv
  <2>1. pageRow \in [Pages -> PageRow]
    BY DEF WebInit, PageRow, PublishStatus
  <2>2. ASSUME NEW p \in Pages PROVE IsVersions(pageVersions[p])
    <3>1. pageVersions[p] = [v \in {} |-> FALSE]
      BY DEF WebInit
    <3>2. [v \in {} |-> FALSE] \in [DOMAIN [v \in {} |-> FALSE] -> BOOLEAN]
      OBVIOUS
    <3>3. QED
      BY <3>1, <3>2 DEF IsVersions
  <2>5. pageVersions = [p \in Pages |-> pageVersions[p]]
    BY DEF WebInit
  <2>3. PagesConsistent /\ EditsNext
    BY DEF WebInit, PagesConsistent, EditsNext, At, IdleWeb
  <2>4. QED
    BY <2>1, <2>2, <2>3, <2>5 DEF PageInv, PageTypes
<1>4. MessageInv
  <2>1. MessageTypes
    BY DEF WebInit, MessageTypes, MessageRow, PublishStatus
  <2>2. \A m \in Messages : Viewing(m) = {}
    BY DEF WebInit, Viewing, At, IdleWeb
  <2>3. IsFiniteSet({}) /\ Cardinality({}) = 0
    BY FS_EmptySet
  <2>4. \A m \in Messages : viewed[m] = 0 /\ messageRow[m].impressions = 0
    BY DEF WebInit
  <2>5. ViewsUnderWay
    BY <2>2, <2>3, <2>4 DEF ViewsUnderWay
  <2>6. QED
    BY <2>1, <2>5 DEF MessageInv
<1>5. QED
  BY <1>1, <1>2, <1>3, <1>4 DEF WebInv

(* What a request of another kind does leaves the forms alone; likewise    *)
(* pages and messages.                                                     *)
LEMMA FormsUntouched ==
  ASSUME FormInv, UNCHANGED formVars,
         \A r \in WebRequests : webReq'[r] = webReq[r] \/ webReq'[r].step \notin SubmissionSteps
  PROVE  FormInv'
<1>1. FormTypes' /\ SubmittedOnce'
  BY DEF FormInv, formVars, FormTypes, SubmittedOnce
<1>2. SubmitsOnce'
  BY DEF FormInv, formVars, SubmitsOnce, At, IsDuplicate, SubmissionSteps
<1>3. QED
  BY <1>1, <1>2 DEF FormInv

LEMMA PagesUntouched ==
  ASSUME PageInv, UNCHANGED pageVars,
         \A r \in WebRequests : webReq'[r] = webReq[r] \/ webReq'[r].step # "insertVersion"
  PROVE  PageInv'
<1>1. PageTypes' /\ PagesConsistent'
  BY DEF PageInv, pageVars, PageTypes, PagesConsistent, IsVersions
<1>2. EditsNext'
  BY DEF PageInv, pageVars, EditsNext, At
<1>3. QED
  BY <1>1, <1>2 DEF PageInv

LEMMA MessagesUntouched ==
  ASSUME MessageInv, UNCHANGED messageVars,
         \A r \in WebRequests : webReq'[r] = webReq[r] \/ webReq'[r].step # "viewedEvent"
  PROVE  MessageInv'
<1>1. MessageTypes'
  BY DEF MessageInv, messageVars, MessageTypes
<1>2. ASSUME NEW m \in Messages
      PROVE  /\ IsFiniteSet(Viewing(m)')
             /\ Cardinality(Viewing(m)') <= Cardinality(Viewing(m))
             /\ Cardinality(Viewing(m)') \in Nat /\ Cardinality(Viewing(m)) \in Nat
  <2>1. Viewing(m)' \subseteq Viewing(m)
    BY DEF Viewing, At
  <2>2. IsFiniteSet(Viewing(m))
    BY DEF MessageInv, ViewsUnderWay
  <2>3. QED
    BY <2>1, <2>2, FS_Subset, FS_CardinalityType
<1>3. ViewsUnderWay'
  BY <1>1, <1>2 DEF MessageInv, messageVars, ViewsUnderWay, MessageTypes, MessageRow
<1>4. QED
  BY <1>1, <1>3 DEF MessageInv

(* Where one request moves on, the others stay.                            *)
LEMMA WebMoves ==
  ASSUME RequestTypes, NEW r \in WebRequests, NEW state \in WebRequestState, Proceed(r, state)
  PROVE  /\ RequestTypes' /\ webReq'[r] = state
         /\ \A s \in WebRequests : s # r => webReq'[s] = webReq[s]
BY DEF RequestTypes, Proceed

LEMMA FormSteps ==
  ASSUME RequestTypes, FormInv, FormNext
  PROVE  /\ RequestTypes' /\ FormInv'
         /\ \A r \in WebRequests :
              webReq'[r] = webReq[r] \/ webReq'[r].step \in {"idle"} \cup SubmissionSteps
<1> USE DEF FormInv
<1>0. IdleWeb \in WebRequestState /\ IdleWeb.step = "idle"
  BY DEF WebRequestState, IdleWeb
<1>1. ASSUME NEW f \in Forms, NEW status \in Written,
             CreateSignupForm(f, status) \/ UpdateSignupForm(f, status) \/ ArchiveSignupForm(f)
      PROVE  /\ RequestTypes' /\ FormInv' /\ UNCHANGED webReq
  <2>1. UNCHANGED <<submissions, known, joined, submitted, webReq>>
    BY <1>1 DEF CreateSignupForm, UpdateSignupForm, ArchiveSignupForm
  <2>2. formRow' \in [Forms -> FormRow]
    <3>1. formRow \in [Forms -> FormRow] /\ status \in PublishStatus
      BY DEF FormTypes, Written, PublishStatus
    <3>2. /\ formRow[f].status \in PublishStatus /\ formRow[f].version \in Nat
      BY <3>1 DEF FormRow
    <3>3. /\ [status |-> status, version |-> 1] \in FormRow
          /\ [status |-> status, version |-> formRow[f].version + 1] \in FormRow
          /\ [formRow[f] EXCEPT !.status = "archived"] \in FormRow
      BY <3>1, <3>2 DEF FormRow, PublishStatus
    <3>4. QED
      BY <1>1, <3>1, <3>3 DEF CreateSignupForm, UpdateSignupForm, ArchiveSignupForm
  <2>3. QED
    BY <2>1, <2>2 DEF RequestTypes, FormTypes, SubmittedOnce, SubmitsOnce, At, IsDuplicate
<1>2. ASSUME NEW r \in WebRequests, NEW f \in Forms, NEW k \in SubmissionKeys,
             NEW email \in Emails \cup {NoEmail}, FindPublishedForm(r, f, k, email)
      PROVE  /\ RequestTypes' /\ FormInv' /\ webReq'[r].step \in SubmissionSteps
             /\ \A s \in WebRequests : s # r => webReq'[s] = webReq[s]
  <2> DEFINE to == IF email \in Emails \ known THEN "createContact" ELSE "insertSubmission"
             next == [step |-> to, form |-> f, key |-> k, email |-> email]
  <2>1. /\ next \in WebRequestState /\ next.email = email /\ next.step = to
        /\ to \in {"createContact", "insertSubmission"}
    BY DEF WebRequestState, SubmissionSteps
  <2> HIDE DEF next
  <2>2. Proceed(r, next) /\ UNCHANGED formVars
    BY <1>2 DEF FindPublishedForm, next
  <2>3. RequestTypes' /\ webReq'[r] = next /\ \A s \in WebRequests : s # r => webReq'[s] = webReq[s]
    BY <2>1, <2>2, WebMoves
  <2>4. FormTypes' /\ SubmittedOnce'
    BY <2>2 DEF formVars, FormTypes, SubmittedOnce
  <2>5. SubmitsOnce'
    BY <2>1, <2>2, <2>3 DEF formVars, SubmitsOnce, At, IsDuplicate
  <2>6. QED
    BY <2>1, <2>3, <2>4, <2>5 DEF SubmissionSteps
<1>3. ASSUME NEW r \in WebRequests, CreateContactFromFormSubmission(r)
      PROVE  /\ RequestTypes' /\ FormInv' /\ webReq'[r].step \in {"idle"} \cup SubmissionSteps
             /\ \A s \in WebRequests : s # r => webReq'[s] = webReq[s]
  <2> DEFINE q == webReq[r]
             next == IF q.email \in known THEN IdleWeb ELSE [q EXCEPT !.step = "contactEvent"]
  <2>1. /\ next \in WebRequestState /\ next.step \in {"idle", "contactEvent"}
        /\ next.step = "contactEvent" => next.email = q.email /\ q.email \notin known
        /\ q.email \in Emails
    <3>1. /\ q \in WebRequestState /\ q.step = "createContact" /\ q.email \in Emails
      BY <1>3 DEF CreateContactFromFormSubmission, At, RequestTypes, SubmitsOnce
    <3>2. QED
      BY <1>0, <3>1, FormStates DEF SubmissionSteps
  <2> HIDE DEF next
  <2>2. /\ Proceed(r, next) /\ known' = known \cup {q.email}
        /\ UNCHANGED <<formRow, submissions, joined, submitted>>
    BY <1>3 DEF CreateContactFromFormSubmission, Answer, next
  <2>3. RequestTypes' /\ webReq'[r] = next /\ \A s \in WebRequests : s # r => webReq'[s] = webReq[s]
    BY <2>1, <2>2, WebMoves
  <2>4. FormTypes' /\ SubmittedOnce'
    BY <2>1, <2>2 DEF FormTypes, SubmittedOnce
  <2>5. SubmitsOnce'
    <3>1. q.email \notin known => joined[q.email] = 0
      BY <2>1 DEF SubmittedOnce, FormTypes
    <3>2. QED
      BY <2>1, <2>2, <2>3, <3>1 DEF SubmitsOnce, At, IsDuplicate
  <2>6. QED
    BY <2>1, <2>3, <2>4, <2>5 DEF SubmissionSteps
<1>4. ASSUME NEW r \in WebRequests, RecordContactCreated(r)
      PROVE  /\ RequestTypes' /\ FormInv' /\ webReq'[r].step \in SubmissionSteps
             /\ \A s \in WebRequests : s # r => webReq'[s] = webReq[s]
  <2> DEFINE q == webReq[r]
             next == [q EXCEPT !.step = "insertSubmission"]
  <2>1. /\ next \in WebRequestState /\ next.step = "insertSubmission" /\ next.email = q.email
        /\ q.email \in known /\ joined[q.email] = 0
        /\ \A s \in WebRequests : At(s, "contactEvent") /\ webReq[s].email = q.email => s = r
    <3>1. /\ q \in WebRequestState /\ q.step = "contactEvent"
          /\ q.email \in known /\ joined[q.email] = 0
          /\ \A s \in WebRequests : At(s, "contactEvent") /\ webReq[s].email = q.email => s = r
      BY <1>4 DEF RecordContactCreated, At, RequestTypes, SubmitsOnce
    <3>2. QED
      BY <3>1, FormStates DEF SubmissionSteps
  <2> HIDE DEF next
  <2>2. /\ Proceed(r, next) /\ joined' = [joined EXCEPT ![q.email] = @ + 1]
        /\ UNCHANGED <<formRow, submissions, known, submitted>>
    BY <1>4 DEF RecordContactCreated, next
  <2>3. RequestTypes' /\ webReq'[r] = next /\ \A s \in WebRequests : s # r => webReq'[s] = webReq[s]
    BY <2>1, <2>2, WebMoves
  <2>4. /\ joined'[q.email] = 1 /\ \A e \in Emails : e # q.email => joined'[e] = joined[e]
        /\ joined' \in [Emails -> Nat]
    BY <2>1, <2>2 DEF FormTypes
  <2>5. FormTypes' /\ SubmittedOnce'
    BY <2>1, <2>2, <2>4 DEF FormTypes, SubmittedOnce
  <2>6. SubmitsOnce'
    BY <2>1, <2>2, <2>3, <2>4 DEF SubmitsOnce, FormTypes, At, IsDuplicate
  <2>7. QED
    BY <2>1, <2>3, <2>5, <2>6 DEF SubmissionSteps
<1>5. ASSUME NEW r \in WebRequests, InsertFormSubmission(r)
      PROVE  /\ RequestTypes' /\ FormInv' /\ webReq'[r].step \in {"idle"} \cup SubmissionSteps
             /\ \A s \in WebRequests : s # r => webReq'[s] = webReq[s]
  <2> DEFINE q == webReq[r]
             row == [form |-> q.form, key |-> q.key, email |-> q.email]
             next == IF IsDuplicate(q) THEN IdleWeb ELSE [q EXCEPT !.step = "submittedEvent"]
  <2>0. /\ q \in WebRequestState /\ q.step = "insertSubmission"
        /\ q.form \in Forms /\ q.key \in SubmissionKeys
        /\ q.email \in known \cup {NoEmail} /\ q.email \in Emails \cup {NoEmail}
    <3>1. q \in WebRequestState /\ q.step = "insertSubmission" /\ q.email \in known \cup {NoEmail}
      BY <1>5 DEF InsertFormSubmission, At, RequestTypes, SubmitsOnce
    <3>2. QED
      BY <3>1, WebStates DEF SubmissionSteps
  <2>1. /\ next \in WebRequestState
        /\ next.step = IF IsDuplicate(q) THEN "idle" ELSE "submittedEvent"
        /\ ~IsDuplicate(q) => next.form = q.form /\ next.key = q.key
    <3>1. CASE IsDuplicate(q)
      BY <1>0, <3>1
    <3>2. CASE ~IsDuplicate(q)
      <4>1. next = [q EXCEPT !.step = "submittedEvent"]
        BY <3>2
      <4>2. /\ [q EXCEPT !.step = "submittedEvent"] \in WebRequestState
            /\ [q EXCEPT !.step = "submittedEvent"].step = "submittedEvent"
            /\ [q EXCEPT !.step = "submittedEvent"].form = q.form
            /\ [q EXCEPT !.step = "submittedEvent"].key = q.key
        BY <2>0, FormStates DEF SubmissionSteps
      <4>3. QED
        BY <3>2, <4>1, <4>2
    <3>3. QED
      BY <3>1, <3>2
  <2>2. /\ row.form = q.form /\ row.key = q.key /\ row.email = q.email /\ row \in SubmissionRow
    BY <2>0 DEF SubmissionRow
  <2> HIDE DEF next, row
  <2>3. /\ Proceed(r, next)
        /\ submissions' = IF IsDuplicate(q) THEN submissions ELSE submissions \cup {row}
        /\ UNCHANGED <<formRow, known, joined, submitted>>
    BY <1>5 DEF InsertFormSubmission, Answer, next, row
  <2>4. RequestTypes' /\ webReq'[r] = next /\ \A s \in WebRequests : s # r => webReq'[s] = webReq[s]
    BY <2>1, <2>3, WebMoves
  <2>5. FormTypes'
    BY <2>2, <2>3 DEF FormTypes
  <2>6. SubmittedOnce'
    <3>1. CASE IsDuplicate(q)
      BY <2>3, <3>1 DEF SubmittedOnce
    <3>2. CASE ~IsDuplicate(q)
      <4>1. \A s \in submissions : ~(s.form = row.form /\ s.key = row.key)
        BY <2>2, <3>2 DEF IsDuplicate
      <4>2. /\ submissions' = submissions \cup {row}
            /\ UNCHANGED <<known, joined, submitted>>
        BY <2>3, <3>2
      <4>3. \A s, t \in submissions' : s.form = t.form /\ s.key = t.key => s = t
        BY <4>1, <4>2 DEF SubmittedOnce
      <4>4. \A s \in submissions' : s.email = NoEmail \/ s.email \in known
        BY <2>0, <2>2, <4>2 DEF SubmittedOnce
      <4>5. \A f \in Forms, k \in SubmissionKeys :
              /\ submitted[f][k] \in Nat
              /\ submitted[f][k] <=
                   IF \E s \in submissions : s.form = f /\ s.key = k THEN 1 ELSE 0
        BY DEF SubmittedOnce, FormTypes
      <4>6. \A f \in Forms, k \in SubmissionKeys :
              submitted[f][k] <=
                IF \E s \in submissions' : s.form = f /\ s.key = k THEN 1 ELSE 0
        BY <4>2, <4>5
      <4>7. QED
        BY <4>2, <4>3, <4>4, <4>6 DEF SubmittedOnce
    <3>3. QED
      BY <3>1, <3>2
  <2>7. SubmitsOnce'
    <3>1. submissions \subseteq submissions'
      BY <2>3
    <3>2. ~IsDuplicate(q) => submitted[q.form][q.key] = 0
      BY <2>0 DEF SubmittedOnce, IsDuplicate, FormTypes
    <3>3. ~IsDuplicate(q) => \E s \in submissions' : s.form = q.form /\ s.key = q.key
      BY <2>2, <2>3
    <3>4. \A s \in WebRequests :
            At(s, "submittedEvent") => \E t \in submissions : t.form = webReq[s].form /\ t.key = webReq[s].key
      BY DEF SubmitsOnce, IsDuplicate
    <3>5. ~IsDuplicate(q) => \A s \in WebRequests : At(s, "submittedEvent") =>
                               ~(webReq[s].form = q.form /\ webReq[s].key = q.key)
      BY <3>4 DEF IsDuplicate
    <3>6. QED
      BY <2>1, <2>3, <2>4, <3>1, <3>2, <3>3, <3>5 DEF SubmitsOnce, At, IsDuplicate
  <2>8. QED
    BY <2>1, <2>4, <2>5, <2>6, <2>7 DEF SubmissionSteps
<1>6. ASSUME NEW r \in WebRequests, RecordFormSubmitted(r)
      PROVE  /\ RequestTypes' /\ FormInv' /\ webReq'[r].step = "idle"
             /\ \A s \in WebRequests : s # r => webReq'[s] = webReq[s]
  <2> DEFINE q == webReq[r]
  <2>1. /\ q \in WebRequestState /\ q.step = "submittedEvent"
        /\ IsDuplicate(q) /\ submitted[q.form][q.key] = 0
        /\ \A s \in WebRequests :
             At(s, "submittedEvent") /\ webReq[s].form = q.form /\ webReq[s].key = q.key => s = r
    BY <1>6 DEF RecordFormSubmitted, At, RequestTypes, SubmitsOnce
  <2>2. q.form \in Forms /\ q.key \in SubmissionKeys
    BY <2>1, WebStates DEF SubmissionSteps
  <2>3. /\ Proceed(r, IdleWeb) /\ submitted' = [submitted EXCEPT ![q.form][q.key] = @ + 1]
        /\ UNCHANGED <<formRow, submissions, known, joined>>
    BY <1>6 DEF RecordFormSubmitted, Answer
  <2>4. RequestTypes' /\ webReq'[r] = IdleWeb /\ \A s \in WebRequests : s # r => webReq'[s] = webReq[s]
    BY <1>0, <2>3, WebMoves
  <2>5. /\ submitted' \in [Forms -> [SubmissionKeys -> Nat]] /\ submitted'[q.form][q.key] = 1
        /\ \A f \in Forms, k \in SubmissionKeys :
             ~(f = q.form /\ k = q.key) => submitted'[f][k] = submitted[f][k]
    BY <2>1, <2>2, <2>3 DEF FormTypes
  <2>6. FormTypes' /\ SubmittedOnce'
    BY <2>1, <2>3, <2>5 DEF FormTypes, SubmittedOnce, IsDuplicate
  <2>7. SubmitsOnce'
    <3>1. \A s \in WebRequests : At(s, "submittedEvent") =>
            webReq[s].form \in Forms /\ webReq[s].key \in SubmissionKeys
      BY WebStates DEF RequestTypes, At, SubmissionSteps
    <3>2. QED
      BY <1>0, <2>1, <2>3, <2>4, <2>5, <3>1 DEF SubmitsOnce, At, IsDuplicate
  <2>8. QED
    BY <1>0, <2>4, <2>6, <2>7
<1>7. CASE \E f \in Forms, status \in Written :
             CreateSignupForm(f, status) \/ UpdateSignupForm(f, status) \/ ArchiveSignupForm(f)
  BY <1>1, <1>7
<1>8. CASE \E r \in WebRequests :
             \/ \E f \in Forms, k \in SubmissionKeys, email \in Emails \cup {NoEmail} :
                  FindPublishedForm(r, f, k, email)
             \/ CreateContactFromFormSubmission(r)
             \/ RecordContactCreated(r)
             \/ InsertFormSubmission(r)
             \/ RecordFormSubmitted(r)
  BY <1>2, <1>3, <1>4, <1>5, <1>6, <1>8
<1>9. QED
  <2>1. \E status : status \in Written
    BY DEF Written
  <2>2. QED
    BY <1>7, <1>8, <2>1 DEF FormNext

(* An edit that finds its number free leads the page to the next version.  *)
LEMMA PageSteps ==
  ASSUME RequestTypes, PageInv, PageNext
  PROVE  /\ RequestTypes' /\ PageInv'
         /\ \A r \in WebRequests :
              webReq'[r] = webReq[r] \/ webReq'[r].step \in {"idle", "insertVersion"}
<1> USE DEF PageInv
<1>0. IdleWeb \in WebRequestState /\ IdleWeb.step = "idle"
  BY DEF WebRequestState, IdleWeb
<1>1. \A p \in Pages :
        /\ pageRow[p].status \in PublishStatus /\ pageRow[p].current \in Nat
        /\ pageRow[p] = [status |-> pageRow[p].status, current |-> pageRow[p].current]
  BY DEF PageTypes, PageRow
<1>2. \A status \in PublishStatus, n \in Nat :
        /\ [status |-> status, current |-> n] \in PageRow
        /\ [status |-> status, current |-> n].status = status
        /\ [status |-> status, current |-> n].current = n
  BY DEF PageRow
<1>3. Written \subseteq PublishStatus \ {"none"} /\ "archived" \in PublishStatus
  BY DEF Written, PublishStatus
<1>4. ASSUME NEW p \in Pages, NEW status \in Written, CreateLandingPage(p, status)
      PROVE  RequestTypes' /\ PageInv' /\ UNCHANGED webReq
  <2>1. /\ pageRow[p].status = "none" /\ UNCHANGED webReq
        /\ pageRow' = [pageRow EXCEPT ![p] = [status |-> status, current |-> 1]]
        /\ pageVersions' = [pageVersions EXCEPT ![p] = [v \in {1} |-> status = "published"]]
    BY <1>4 DEF CreateLandingPage
  <2>2. /\ pageRow' \in [Pages -> PageRow]
        /\ pageRow'[p].status = status /\ pageRow'[p].current = 1
        /\ \A o \in Pages : o # p => pageRow'[o] = pageRow[o]
    BY <1>2, <1>3, <2>1 DEF PageTypes
  <2>3. /\ pageVersions' = [o \in Pages |-> pageVersions'[o]]
        /\ pageVersions'[p] = [v \in {1} |-> status = "published"]
        /\ \A o \in Pages : o # p => pageVersions'[o] = pageVersions[o]
    BY <2>1 DEF PageTypes
  <2>4. /\ IsVersions(pageVersions'[p]) /\ DOMAIN pageVersions'[p] = 1 .. 1
        /\ status = "published" => pageVersions'[p][1]
    <3>1. {1} = 1 .. 1 /\ (status = "published") \in BOOLEAN
      OBVIOUS
    <3>2. /\ DOMAIN pageVersions'[p] = 1 .. 1 /\ pageVersions'[p][1] = (status = "published")
          /\ pageVersions'[p] \in [1 .. 1 -> BOOLEAN]
      BY <2>3, <3>1
    <3>3. QED
      BY <3>2 DEF IsVersions
  <2>5. PageTypes'
    BY <2>2, <2>3, <2>4 DEF PageTypes, IsVersions
  <2>6. PagesConsistent'
    <3>1. \A o \in Pages : o # p => pageRow'[o] = pageRow[o] /\ pageVersions'[o] = pageVersions[o]
      BY <2>2, <2>3
    <3>2. /\ DOMAIN pageVersions'[p] = 1 .. pageRow'[p].current /\ pageRow'[p].current >= 1
          /\ pageRow'[p].status = "published" => pageVersions'[p][pageRow'[p].current]
      BY <2>2, <2>4
    <3>3. QED
      BY <3>1, <3>2 DEF PagesConsistent
  <2>7. EditsNext'
    BY <2>1, <2>2 DEF EditsNext, At
  <2>8. QED
    BY <2>1, <2>5, <2>6, <2>7 DEF RequestTypes
<1>5. ASSUME NEW p \in Pages, ArchiveLandingPage(p)
      PROVE  RequestTypes' /\ PageInv' /\ UNCHANGED webReq
  <2>1. /\ pageRow[p].status \in Written /\ UNCHANGED <<pageVersions, webReq>>
        /\ pageRow' = [pageRow EXCEPT ![p].status = "archived"]
    BY <1>5 DEF ArchiveLandingPage
  <2>2. /\ pageRow' \in [Pages -> PageRow]
        /\ pageRow'[p].status = "archived" /\ pageRow'[p].current = pageRow[p].current
        /\ \A o \in Pages : o # p => pageRow'[o] = pageRow[o]
    BY <1>1, <1>2, <1>3, <2>1 DEF PageTypes
  <2>3. PageTypes'
    BY <2>1, <2>2 DEF PageTypes, IsVersions
  <2>4. PagesConsistent'
    BY <1>3, <2>1, <2>2 DEF PagesConsistent
  <2>5. EditsNext'
    BY <2>1, <2>2 DEF EditsNext, At
  <2>6. QED
    BY <2>1, <2>3, <2>4, <2>5 DEF RequestTypes
<1>6. ASSUME NEW r \in WebRequests, NEW p \in Pages, NEW status \in Written,
             ReadMaxVersion(r, p, status)
      PROVE  /\ RequestTypes' /\ PageInv' /\ webReq'[r].step = "insertVersion"
             /\ \A s \in WebRequests : s # r => webReq'[s] = webReq[s]
  <2>1. PICK max \in DOMAIN pageVersions[p] :
          /\ \A v \in DOMAIN pageVersions[p] : v <= max
          /\ Proceed(r, [step |-> "insertVersion", page |-> p, version |-> max + 1, status |-> status])
    BY <1>6 DEF ReadMaxVersion
  <2> DEFINE next == [step |-> "insertVersion", page |-> p, version |-> max + 1, status |-> status]
  <2>2. pageRow[p].status # "none" /\ UNCHANGED pageVars
    BY <1>3, <1>6 DEF ReadMaxVersion
  <2>3. DOMAIN pageVersions[p] = 1 .. pageRow[p].current /\ pageRow[p].current >= 1
    BY <2>2 DEF PagesConsistent
  <2>4. max \in Nat /\ max = pageRow[p].current
    <3> DEFINE current == pageRow[p].current
    <3>1. current \in Nat /\ current >= 1 /\ DOMAIN pageVersions[p] = 1 .. current
      BY <1>1, <2>3
    <3> HIDE DEF current
    <3>2. max \in 1 .. current /\ current \in DOMAIN pageVersions[p]
      BY <3>1
    <3>3. current <= max
      BY <2>1, <3>2
    <3>4. QED
      BY <3>1, <3>2, <3>3 DEF current
  <2>5. /\ next \in WebRequestState /\ next.step = "insertVersion"
        /\ next.page = p /\ next.version = max + 1
    BY <2>4 DEF WebRequestState
  <2> HIDE DEF next
  <2>6. RequestTypes' /\ webReq'[r] = next /\ \A s \in WebRequests : s # r => webReq'[s] = webReq[s]
    BY <2>1, <2>5, WebMoves DEF next
  <2>7. PageTypes' /\ PagesConsistent'
    BY <2>2 DEF pageVars, PageTypes, PagesConsistent, IsVersions
  <2>8. EditsNext'
    BY <1>1, <2>2, <2>3, <2>4, <2>5, <2>6 DEF pageVars, EditsNext, At
  <2>9. QED
    BY <2>5, <2>6, <2>7, <2>8
<1>7. ASSUME NEW r \in WebRequests, UpdateLandingPage(r)
      PROVE  /\ RequestTypes' /\ PageInv' /\ webReq'[r].step = "idle"
             /\ \A s \in WebRequests : s # r => webReq'[s] = webReq[s]
  <2> DEFINE q == webReq[r]
             p == q.page
  <2>1. /\ p \in Pages /\ q.version \in Nat /\ q.status \in Written
        /\ pageRow[p].status # "none"
        /\ q.version >= 2 /\ q.version <= pageRow[p].current + 1
    <3>1. q \in WebRequestState /\ q.step = "insertVersion"
      BY <1>7 DEF UpdateLandingPage, At, RequestTypes
    <3>2. QED
      BY <3>1, WebStates DEF EditsNext, At
  <2>2. Proceed(r, IdleWeb)
    BY <1>7 DEF UpdateLandingPage, Answer
  <2>3. RequestTypes' /\ webReq'[r] = IdleWeb /\ \A s \in WebRequests : s # r => webReq'[s] = webReq[s]
    BY <1>0, <2>2, WebMoves
  <2>4. CASE q.version \in DOMAIN pageVersions[p]
    <3>1. UNCHANGED pageVars
      BY <1>7, <2>4 DEF UpdateLandingPage
    <3>2. PageTypes' /\ PagesConsistent'
      BY <3>1 DEF pageVars, PageTypes, PagesConsistent, IsVersions
    <3>3. EditsNext'
      BY <1>0, <2>3, <3>1 DEF pageVars, EditsNext, At
    <3>4. QED
      BY <1>0, <2>3, <3>2, <3>3
  <2>5. CASE q.version \notin DOMAIN pageVersions[p]
    <3>1. DOMAIN pageVersions[p] = 1 .. pageRow[p].current
      BY <2>1 DEF PagesConsistent
    <3>2. q.version = pageRow[p].current + 1
      <4> DEFINE current == pageRow[p].current
                 n == q.version
      <4>1. current \in Nat /\ n \in Nat /\ n >= 2 /\ n <= current + 1 /\ n \notin 1 .. current
        BY <1>1, <2>1, <2>5, <3>1
      <4> HIDE DEF current, n
      <4>2. n = current + 1
        BY <4>1
      <4>3. QED
        BY <4>2 DEF current, n
    <3>3. /\ pageRow' = [pageRow EXCEPT ![p] = [status |-> q.status, current |-> q.version]]
          /\ pageVersions' = [pageVersions EXCEPT ![p] =
                WithVersion(pageVersions[p], q.version, q.status = "published")]
      BY <1>7, <2>1, <2>5 DEF UpdateLandingPage, PageTypes
    <3>4. /\ pageRow' \in [Pages -> PageRow]
          /\ pageRow'[p].status = q.status /\ pageRow'[p].current = q.version
          /\ \A o \in Pages : o # p => pageRow'[o] = pageRow[o]
      BY <1>2, <1>3, <2>1, <3>3 DEF PageTypes
    <3>5. /\ pageVersions' = [o \in Pages |-> pageVersions'[o]]
          /\ pageVersions'[p] = WithVersion(pageVersions[p], q.version, q.status = "published")
          /\ \A o \in Pages : o # p => pageVersions'[o] = pageVersions[o]
      BY <2>1, <3>3 DEF PageTypes
    <3>6. /\ IsVersions(pageVersions'[p])
          /\ DOMAIN pageVersions'[p] = 1 .. q.version
          /\ q.status = "published" => pageVersions'[p][q.version]
      <4>1. pageVersions[p] \in [1 .. pageRow[p].current -> BOOLEAN]
        BY <2>1, <3>1 DEF PageTypes, IsVersions
      <4>2. 1 .. q.version = DOMAIN pageVersions[p] \cup {q.version}
        <5> DEFINE current == pageRow[p].current
        <5>1. current \in Nat /\ DOMAIN pageVersions[p] = 1 .. current /\ q.version = current + 1
          BY <1>1, <2>1, <3>1, <3>2
        <5> HIDE DEF current
        <5>2. 1 .. (current + 1) = (1 .. current) \cup {current + 1}
          BY <5>1
        <5>3. QED
          BY <5>1, <5>2
      <4>3. pageVersions'[p] = [v \in 1 .. q.version |->
              IF v = q.version THEN q.status = "published" ELSE pageVersions[p][v]]
        BY <3>5, <4>2 DEF WithVersion
      <4>4. \A v \in 1 .. q.version : v # q.version => pageVersions[p][v] \in BOOLEAN
        BY <3>1, <4>1, <4>2
      <4>5. q.version \in 1 .. q.version
        BY <2>1
      <4>6. /\ DOMAIN pageVersions'[p] = 1 .. q.version
            /\ pageVersions'[p][q.version] = (q.status = "published")
        BY <4>3, <4>5
      <4>7. pageVersions'[p] \in [1 .. q.version -> BOOLEAN]
        BY <4>3, <4>4
      <4>8. QED
        BY <4>6, <4>7 DEF IsVersions
    <3>7. PageTypes'
      BY <3>4, <3>5, <3>6 DEF PageTypes, IsVersions
    <3>8. PagesConsistent'
      BY <2>1, <3>4, <3>5, <3>6 DEF PagesConsistent
    <3>9. EditsNext'
      <4>1. \A s \in WebRequests : At(s, "insertVersion") => webReq[s].page \in Pages /\ webReq[s].version \in Nat
        BY WebStates DEF RequestTypes, At
      <4>2. QED
        BY <1>0, <1>1, <1>3, <2>1, <2>3, <3>2, <3>4, <4>1 DEF EditsNext, At
    <3>10. QED
      BY <1>0, <2>3, <3>7, <3>8, <3>9
  <2>6. QED
    BY <2>4, <2>5
<1>8. QED
  BY <1>4, <1>5, <1>6, <1>7 DEF PageNext

(* A view is counted before it is put on the timeline.                     *)
LEMMA MessageSteps ==
  ASSUME RequestTypes, MessageInv, MessageNext
  PROVE  /\ RequestTypes' /\ MessageInv'
         /\ \A r \in WebRequests :
              webReq'[r] = webReq[r] \/ webReq'[r].step \in {"idle", "viewedEvent"}
<1> USE DEF MessageInv
<1>0. IdleWeb \in WebRequestState /\ IdleWeb.step = "idle"
  BY DEF WebRequestState, IdleWeb
<1>1. \A m \in Messages :
        /\ messageRow[m].status \in PublishStatus /\ messageRow[m].impressions \in Nat
        /\ viewed[m] \in Nat
        /\ IsFiniteSet(Viewing(m)) /\ Cardinality(Viewing(m)) \in Nat
        /\ viewed[m] + Cardinality(Viewing(m)) <= messageRow[m].impressions
        /\ messageRow[m].status = "none" => messageRow[m].impressions = 0
  BY FS_CardinalityType DEF MessageTypes, MessageRow, ViewsUnderWay
<1>2. \A status \in PublishStatus, n \in Nat :
        /\ [status |-> status, impressions |-> n] \in MessageRow
        /\ [status |-> status, impressions |-> n].status = status
        /\ [status |-> status, impressions |-> n].impressions = n
  BY DEF MessageRow
<1>3. Written \subseteq PublishStatus \ {"none"} /\ "archived" \in PublishStatus
  BY DEF Written, PublishStatus
<1>4. ASSUME NEW m \in Messages, NEW status \in Written,
             \/ CreateSiteMessage(m, status)
             \/ UpdateSiteMessage(m, status)
             \/ ArchiveSiteMessage(m)
      PROVE  RequestTypes' /\ MessageInv' /\ UNCHANGED webReq
  <2>1. UNCHANGED <<viewed, webReq>>
    BY <1>4 DEF CreateSiteMessage, UpdateSiteMessage, ArchiveSiteMessage
  <2>2. messageRow[m] = [status |-> messageRow[m].status, impressions |-> messageRow[m].impressions]
    BY DEF MessageTypes, MessageRow
  <2>3. PICK to \in PublishStatus \ {"none"} :
          messageRow' = [messageRow EXCEPT ![m] = [status |-> to, impressions |-> messageRow[m].impressions]]
    <3>1. CASE CreateSiteMessage(m, status)
      BY <1>1, <1>3, <3>1 DEF CreateSiteMessage, MessageTypes
    <3>0. \A to : [messageRow[m] EXCEPT !.status = to] =
                     [status |-> to, impressions |-> messageRow[m].impressions]
      BY <2>2
    <3>2. CASE UpdateSiteMessage(m, status)
      <4>1. messageRow' = [messageRow EXCEPT ![m] = [messageRow[m] EXCEPT !.status = status]]
        BY <3>2 DEF UpdateSiteMessage, MessageTypes
      <4>2. QED
        BY <1>3, <3>0, <4>1
    <3>3. CASE ArchiveSiteMessage(m)
      <4>1. messageRow' = [messageRow EXCEPT ![m] = [messageRow[m] EXCEPT !.status = "archived"]]
        BY <3>3 DEF ArchiveSiteMessage, MessageTypes
      <4>2. "archived" \in PublishStatus \ {"none"}
        BY DEF PublishStatus
      <4>3. QED
        BY <3>0, <4>1, <4>2
    <3>4. QED
      BY <1>4, <3>1, <3>2, <3>3
  <2>4. /\ messageRow' \in [Messages -> MessageRow]
        /\ messageRow'[m].status = to /\ messageRow'[m].impressions = messageRow[m].impressions
        /\ \A o \in Messages : o # m => messageRow'[o] = messageRow[o]
    BY <1>1, <1>2, <2>3 DEF MessageTypes
  <2>5. \A o \in Messages : Viewing(o)' = Viewing(o)
    BY <2>1 DEF Viewing, At
  <2>6. ViewsUnderWay'
    BY <1>1, <2>1, <2>4, <2>5 DEF ViewsUnderWay
  <2>7. QED
    BY <2>1, <2>4, <2>6 DEF RequestTypes, MessageTypes
<1>5. ASSUME NEW r \in WebRequests, NEW m \in Messages, IncrementSiteMessageCounter(r, m)
      PROVE  /\ RequestTypes' /\ MessageInv' /\ webReq'[r].step = "viewedEvent"
             /\ \A s \in WebRequests : s # r => webReq'[s] = webReq[s]
  <2> DEFINE next == [step |-> "viewedEvent", message |-> m]
  <2>1. next \in WebRequestState /\ next.step = "viewedEvent" /\ next.message = m
    BY DEF WebRequestState
  <2> HIDE DEF next
  <2>2. /\ At(r, "idle") /\ messageRow[m].status = "published"
        /\ messageRow' = [messageRow EXCEPT ![m].impressions = @ + 1]
        /\ Proceed(r, next) /\ UNCHANGED viewed
    BY <1>5 DEF IncrementSiteMessageCounter, next
  <2>3. RequestTypes' /\ webReq'[r] = next /\ \A s \in WebRequests : s # r => webReq'[s] = webReq[s]
    BY <2>1, <2>2, WebMoves
  <2>4. /\ messageRow' \in [Messages -> MessageRow]
        /\ messageRow'[m].status = "published"
        /\ messageRow'[m].impressions = messageRow[m].impressions + 1
        /\ \A o \in Messages : o # m => messageRow'[o] = messageRow[o]
    BY <1>1, <2>2 DEF MessageTypes, MessageRow
  <2>5. Viewing(m)' = Viewing(m) \cup {r} /\ r \notin Viewing(m)
    BY <2>1, <2>2, <2>3 DEF Viewing, At
  <2>6. \A o \in Messages : o # m => Viewing(o)' = Viewing(o)
    BY <2>1, <2>2, <2>3 DEF Viewing, At
  <2>7. IsFiniteSet(Viewing(m)') /\ Cardinality(Viewing(m)') = Cardinality(Viewing(m)) + 1
    BY <1>1, <2>5, FS_AddElement
  <2>8. ViewsUnderWay'
    BY <1>1, <2>2, <2>4, <2>6, <2>7 DEF ViewsUnderWay
  <2>9. QED
    BY <2>1, <2>2, <2>3, <2>4, <2>8 DEF MessageTypes
<1>6. ASSUME NEW r \in WebRequests, RecordSiteMessageEvent(r)
      PROVE  /\ RequestTypes' /\ MessageInv' /\ webReq'[r].step = "idle"
             /\ \A s \in WebRequests : s # r => webReq'[s] = webReq[s]
  <2>0. webReq[r] \in WebRequestState /\ webReq[r].step = "viewedEvent"
    BY <1>6 DEF RecordSiteMessageEvent, At, RequestTypes
  <2>1. PICK m \in Messages : m = webReq[r].message
    BY <2>0, WebStates
  <2>2. /\ viewed' = [viewed EXCEPT ![m] = @ + 1] /\ Proceed(r, IdleWeb) /\ UNCHANGED messageRow
    BY <1>6, <2>1 DEF RecordSiteMessageEvent, Answer
  <2>3. RequestTypes' /\ webReq'[r] = IdleWeb /\ \A s \in WebRequests : s # r => webReq'[s] = webReq[s]
    BY <1>0, <2>2, WebMoves
  <2>4. /\ viewed' \in [Messages -> Nat] /\ viewed'[m] = viewed[m] + 1
        /\ \A o \in Messages : o # m => viewed'[o] = viewed[o]
    BY <1>1, <2>1, <2>2 DEF MessageTypes
  <2>5. Viewing(m)' = Viewing(m) \ {r}
    BY <1>0, <2>3 DEF Viewing, At
  <2>6. \A o \in Messages : o # m => Viewing(o)' = Viewing(o)
    BY <1>0, <2>1, <2>3 DEF Viewing, At
  <2>7. IsFiniteSet(Viewing(m)') /\ Cardinality(Viewing(m)') = Cardinality(Viewing(m)) - 1
    <3>1. r \in Viewing(m)
      BY <2>0, <2>1 DEF Viewing, At
    <3>2. QED
      BY <1>1, <2>5, <3>1, FS_RemoveElement
  <2>8. ViewsUnderWay'
    BY <1>1, <2>1, <2>2, <2>4, <2>6, <2>7 DEF ViewsUnderWay
  <2>9. QED
    BY <1>0, <2>2, <2>3, <2>4, <2>8 DEF MessageTypes
<1>7. CASE \E m \in Messages, status \in Written :
             \/ CreateSiteMessage(m, status)
             \/ UpdateSiteMessage(m, status)
             \/ ArchiveSiteMessage(m)
  BY <1>4, <1>7
<1>8. CASE \E r \in WebRequests :
             \/ \E m \in Messages : IncrementSiteMessageCounter(r, m)
             \/ RecordSiteMessageEvent(r)
  BY <1>5, <1>6, <1>8
<1>9. QED
  <2>1. \E status : status \in Written
    BY DEF Written
  <2>2. QED
    BY <1>7, <1>8, <2>1 DEF MessageNext

LEMMA WebInvStep ==
  ASSUME WebInv, [WebNext]_webVars
  PROVE  WebInv'
<1> USE DEF WebInv
<1>0. IdleWeb \in WebRequestState /\ IdleWeb.step = "idle"
  BY DEF WebRequestState, IdleWeb
<1>1. CASE FormNext
  <2>1. UNCHANGED <<pageVars, messageVars>>
    BY <1>1 DEF FormNext, CreateSignupForm, UpdateSignupForm, ArchiveSignupForm,
                FindPublishedForm, CreateContactFromFormSubmission, RecordContactCreated,
                InsertFormSubmission, RecordFormSubmitted
  <2>2. QED
    BY <1>1, <2>1, FormSteps, PagesUntouched, MessagesUntouched DEF SubmissionSteps
<1>2. CASE PageNext
  <2>1. UNCHANGED <<formVars, messageVars>>
    BY <1>2 DEF PageNext, CreateLandingPage, ArchiveLandingPage, ReadMaxVersion, UpdateLandingPage
  <2>2. QED
    BY <1>2, <2>1, PageSteps, FormsUntouched, MessagesUntouched DEF SubmissionSteps
<1>3. CASE MessageNext
  <2>1. UNCHANGED <<formVars, pageVars>>
    BY <1>3 DEF MessageNext, CreateSiteMessage, UpdateSiteMessage, ArchiveSiteMessage,
                IncrementSiteMessageCounter, RecordSiteMessageEvent
  <2>2. QED
    BY <1>3, <2>1, MessageSteps, FormsUntouched, PagesUntouched DEF SubmissionSteps
<1>4. CASE \E r \in WebRequests : WebRequestDies(r)
  <2>1. PICK r \in WebRequests : WebRequestDies(r)
    BY <1>4
  <2>2. Proceed(r, IdleWeb) /\ UNCHANGED <<formVars, pageVars, messageVars>>
    BY <2>1 DEF WebRequestDies, Answer
  <2>3. RequestTypes' /\ webReq'[r] = IdleWeb /\ \A s \in WebRequests : s # r => webReq'[s] = webReq[s]
    BY <1>0, <2>2, WebMoves
  <2>4. QED
    BY <1>0, <2>2, <2>3, FormsUntouched, PagesUntouched, MessagesUntouched DEF SubmissionSteps
<1>5. CASE UNCHANGED webVars
  BY <1>5, FormsUntouched, PagesUntouched, MessagesUntouched DEF webVars, RequestTypes
<1>6. QED
  BY <1>1, <1>2, <1>3, <1>4, <1>5 DEF WebNext

LEMMA WebInvConsistent == WebInv => WebsiteConsistent
<1> SUFFICES ASSUME WebInv PROVE WebsiteConsistent
  OBVIOUS
<1>1. \A m \in Messages : /\ viewed[m] \in Nat /\ messageRow[m].impressions \in Nat
                          /\ Cardinality(Viewing(m)) \in Nat
                          /\ viewed[m] + Cardinality(Viewing(m)) <= messageRow[m].impressions
  BY FS_CardinalityType DEF WebInv, MessageInv, MessageTypes, MessageRow, ViewsUnderWay
<1>2. QED
  BY <1>1 DEF WebInv, FormInv, PageInv, WebsiteConsistent, ViewsCounted

(* Forms, pages, messages and the requests on them keep their types.       *)
(* (web/repository.ts, public/form-routes.ts)                              *)
THEOREM WebTypeCorrect == WebSpec => []WebTypeOK
<1>1. WebInv => WebTypeOK
  BY WebTypeParts DEF WebInv, FormInv, PageInv, MessageInv
<1>2. QED
  BY <1>1, WebInvInit, WebInvStep, PTL DEF WebSpec

-----------------------------------------------------------------------------
(* SiteVisitor.  A fetch that names a page belongs to one that is loaded,  *)
(* and one that asks for messages to a page with an id; every id the       *)
(* browser holds was issued, and every id that was issued, or will be for  *)
(* a record under way, goes back to a record of a page that could not know *)
(* one; and an impression, counted or under way, to a tab that showed it.  *)

Asking == {c \in Calls : Is(c, "record") /\ call[c].visitor = Nil}
Showing(m) == {t \in Tabs : m \in shown[t]}
Reporting(m) == {c \in Calls : Is(c, "impression") /\ call[c].message = m}

PagesWait ==
  /\ \A t \in Tabs : page[t].knows <=> page[t].visitor # Nil
  /\ \A c \in Calls :
       /\ call[c].tab # Nil => page[call[c].tab].loaded
       /\ call[c].step \in {"recorded", "messages", "listed"} =>
            call[c].tab # Nil /\ call[c].visitor # Nil
       /\ call[c].step \in {"messages", "listed"} => page[call[c].tab].visitor # Nil
       /\ call[c].step = "impression" => call[c].visitor # Nil /\ call[c].message # Nil

IdsIssued ==
  /\ stored # Nil => stored <= issued
  /\ \A t \in Tabs : page[t].visitor # Nil => page[t].visitor <= issued
  /\ \A c \in Calls : call[c].visitor # Nil => call[c].visitor <= issued

IdsAsked == IsFiniteSet(Asking) /\ issued + Cardinality(Asking) <= blind

ShownCounted ==
  \A m \in SiteMessages :
    /\ IsFiniteSet(Showing(m)) /\ IsFiniteSet(Reporting(m))
    /\ counted[m] + Cardinality(Reporting(m)) <= Cardinality(Showing(m))

VisitorInv == VisitorTypeOK /\ PagesWait /\ IdsIssued /\ IdsAsked /\ ShownCounted

LEMMA CallFields ==
  ASSUME NEW q \in CallState
  PROVE  /\ q.step \in CallSteps /\ q.tab \in Tabs \cup {Nil} /\ q.viewing \in BOOLEAN
         /\ q.visitor \in Visitor \cup {Nil} /\ q.email \in Someone
         /\ q.identified \in BOOLEAN /\ q.message \in SiteMessages \cup {Nil}
BY DEF CallState

LEMMA FreeCall ==
  /\ Free \in CallState /\ Free.step = "free" /\ Free.tab = Nil
  /\ Free.visitor = Nil /\ Free.message = Nil
BY DEF Free, CallState, CallSteps, Someone

LEMMA PageFields ==
  ASSUME NEW q \in PageState
  PROVE  /\ q.loaded \in BOOLEAN /\ q.consent \in BOOLEAN /\ q.email \in Someone
         /\ q.visitor \in Visitor \cup {Nil} /\ q.knows \in BOOLEAN
BY DEF PageState

LEMMA VisitorNumbers ==
  /\ MaxVisitors \in Nat /\ Visitor \subseteq Nat /\ Nil \notin Visitor
  /\ Nil \notin Tabs /\ Nil \notin SiteMessages /\ Nil \notin KnownPeople
BY VisitorAssumption DEF Visitor

LEMMA CallMoves ==
  ASSUME VisitorTypeOK, NEW c \in Calls, NEW state \in CallState, SetCall(c, state)
  PROVE  /\ call' \in [Calls -> CallState] /\ call'[c] = state
         /\ \A d \in Calls : d # c => call'[d] = call[d]
BY DEF VisitorTypeOK, SetCall

(* A step that puts up no message and begins no impression.                *)
LEMMA ShownKept ==
  ASSUME VisitorTypeOK, ShownCounted, UNCHANGED <<shown, counted>>,
         \A m \in SiteMessages : Reporting(m)' \subseteq Reporting(m)
  PROVE  ShownCounted'
<1> SUFFICES ASSUME NEW m \in SiteMessages
             PROVE  /\ IsFiniteSet(Showing(m)') /\ IsFiniteSet(Reporting(m)')
                    /\ counted'[m] + Cardinality(Reporting(m)') <= Cardinality(Showing(m)')
  BY DEF ShownCounted
<1>1. Showing(m)' = Showing(m)
  BY DEF Showing
<1>2. /\ IsFiniteSet(Showing(m)) /\ IsFiniteSet(Reporting(m)) /\ counted[m] \in Nat
      /\ counted[m] + Cardinality(Reporting(m)) <= Cardinality(Showing(m))
  BY DEF ShownCounted, VisitorTypeOK
<1>3. /\ IsFiniteSet(Reporting(m)') /\ Cardinality(Reporting(m)') <= Cardinality(Reporting(m))
      /\ Cardinality(Reporting(m)') \in Nat /\ Cardinality(Reporting(m)) \in Nat
      /\ Cardinality(Showing(m)) \in Nat
  BY <1>2, FS_Subset, FS_CardinalityType
<1>4. QED
  BY <1>1, <1>2, <1>3

(* A step that asks for no id and issues none.                             *)
LEMMA AskedKept ==
  ASSUME VisitorTypeOK, IdsAsked, UNCHANGED <<issued, blind>>, Asking' \subseteq Asking
  PROVE  IdsAsked'
<1>1. /\ IsFiniteSet(Asking') /\ Cardinality(Asking') <= Cardinality(Asking)
      /\ Cardinality(Asking') \in Nat /\ Cardinality(Asking) \in Nat
  BY FS_Subset, FS_CardinalityType DEF IdsAsked
<1>2. issued \in Nat /\ blind \in Nat
  BY VisitorNumbers DEF VisitorTypeOK
<1>3. QED
  BY <1>1, <1>2 DEF IdsAsked

LEMMA VisitorInvInit == VisitorInit => VisitorInv
<1> SUFFICES ASSUME VisitorInit PROVE VisitorInv
  OBVIOUS
<1>1. Unloaded \in PageState /\ Unloaded.knows = FALSE /\ Unloaded.visitor = Nil
  BY DEF Unloaded, PageState, Someone
<1>2. /\ \A t \in Tabs : page[t] = Unloaded /\ shown[t] = {}
      /\ \A c \in Calls : call[c] = Free
      /\ stored = Nil /\ issued = 0 /\ blind = 0 /\ sent = 0
      /\ \A m \in SiteMessages : counted[m] = 0
  BY DEF VisitorInit
<1>3. VisitorTypeOK
  BY <1>1, <1>2, FreeCall, VisitorAssumption DEF VisitorInit, VisitorTypeOK, Someone
<1>4. PagesWait /\ IdsIssued
  BY <1>1, <1>2, FreeCall DEF PagesWait, IdsIssued
<1>5. Asking = {} /\ \A m \in SiteMessages : Showing(m) = {} /\ Reporting(m) = {}
  BY <1>2, FreeCall DEF Asking, Showing, Reporting, Is
<1>6. IsFiniteSet({}) /\ Cardinality({}) = 0
  BY FS_EmptySet
<1>7. IdsAsked /\ ShownCounted
  BY <1>2, <1>5, <1>6 DEF IdsAsked, ShownCounted
<1>8. QED
  BY <1>3, <1>4, <1>7 DEF VisitorInv

(* A record that is sent carries the id of its page; the history counts it *)
(* if the page has none.                                                   *)
LEMMA RecordKeeps ==
  ASSUME VisitorInv, NEW t \in Tabs, NEW viewing \in BOOLEAN, NEW now_ \in PageState,
         now_.loaded, now_.knows <=> now_.visitor # Nil,
         now_.visitor # Nil => now_.visitor <= issued,
         page[t].loaded => now_.visitor = page[t].visitor,
         Record(t, viewing, now_)
  PROVE  VisitorInv'
<1> USE VisitorNumbers DEF VisitorInv
<1>1. /\ page' \in [Tabs -> PageState] /\ page'[t] = now_
      /\ \A u \in Tabs : u # t => page'[u] = page[u]
      /\ UNCHANGED <<stored, shown, issued, identity, reachable, offered, counted>>
  BY DEF Record, siteVars, VisitorTypeOK
<1>2. \A c \in Calls : call[c] \in CallState
  BY DEF VisitorTypeOK
<1>3. \A c \in Calls : call[c].tab # Nil =>
        /\ call[c].tab \in Tabs /\ page'[call[c].tab].loaded
        /\ page[call[c].tab].visitor # Nil => page'[call[c].tab].visitor # Nil
  BY <1>1, <1>2, CallFields DEF PagesWait
<1>4. CASE ~now_.consent
  <2>1. UNCHANGED <<call, sent, blind>>
    BY <1>4 DEF Record
  <2>2. VisitorTypeOK'
    BY <1>1, <2>1 DEF VisitorTypeOK
  <2>3. PagesWait'
    BY <1>1, <1>3, <2>1 DEF PagesWait
  <2>4. IdsIssued'
    BY <1>1, <2>1 DEF IdsIssued
  <2>5. Asking' = Asking /\ \A m \in SiteMessages : Reporting(m)' = Reporting(m)
    BY <2>1 DEF Asking, Reporting, Is
  <2>6. QED
    BY <1>1, <2>1, <2>2, <2>3, <2>4, <2>5, ShownKept, AskedKept
<1>5. CASE now_.consent
  <2> DEFINE state == [Free EXCEPT !.step = "record", !.tab = t, !.viewing = viewing,
                                   !.visitor = now_.visitor, !.email = now_.email]
  <2>1. PICK c \in FreeCalls : /\ SetCall(c, state) /\ sent < MaxRecords /\ sent' = sent + 1
                               /\ blind' = blind + (IF now_.knows THEN 0 ELSE 1)
    BY <1>5 DEF Record
  <2>2. c \in Calls /\ call[c].step = "free"
    BY DEF FreeCalls, Is
  <2>3. /\ state \in CallState /\ state.step = "record" /\ state.tab = t
        /\ state.visitor = now_.visitor
    <3>1. now_.visitor \in Visitor \cup {Nil} /\ now_.email \in Someone
      BY PageFields
    <3>2. state.step = "record" /\ state.tab = t /\ state.visitor = now_.visitor
      BY FreeCall DEF CallState
    <3>3. state \in CallState
      BY <3>1, FreeCall DEF CallState, CallSteps
    <3>4. QED
      BY <3>2, <3>3
  <2> HIDE DEF state
  <2>4. /\ call' \in [Calls -> CallState] /\ call'[c] = state
        /\ \A d \in Calls : d # c => call'[d] = call[d]
    BY <2>1, <2>2, <2>3, CallMoves
  <2>5. VisitorTypeOK'
    BY <1>1, <2>1, <2>4, VisitorAssumption, PageFields DEF VisitorTypeOK
  <2>6. PagesWait'
    BY <1>1, <1>3, <2>3, <2>4 DEF PagesWait
  <2>7. IdsIssued'
    BY <1>1, <2>3, <2>4 DEF IdsIssued
  <2>8. \A m \in SiteMessages : Reporting(m)' \subseteq Reporting(m)
    BY <2>3, <2>4 DEF Reporting, Is
  <2>9. IdsAsked'
    <3>1. /\ IsFiniteSet(Asking) /\ Cardinality(Asking) \in Nat /\ issued \in Nat /\ blind \in Nat
          /\ issued + Cardinality(Asking) <= blind
      BY FS_CardinalityType DEF IdsAsked, VisitorTypeOK
    <3>2. CASE now_.knows
      <4>1. Asking' \subseteq Asking /\ blind' = blind
        BY <2>1, <2>3, <2>4, <3>1, <3>2 DEF Asking, Is
      <4>2. QED
        BY <1>1, <4>1, AskedKept
    <3>3. CASE ~now_.knows
      <4>1. Asking' = Asking \cup {c} /\ c \notin Asking
        BY <2>2, <2>3, <2>4, <3>3 DEF Asking, Is
      <4>2. IsFiniteSet(Asking') /\ Cardinality(Asking') = Cardinality(Asking) + 1
        BY <3>1, <4>1, FS_AddElement
      <4>3. blind' = blind + 1
        BY <2>1, <3>3
      <4>4. QED
        BY <1>1, <3>1, <4>2, <4>3 DEF IdsAsked
    <3>4. QED
      BY <3>2, <3>3
  <2>10. QED
    BY <1>1, <2>5, <2>6, <2>7, <2>8, <2>9, ShownKept
<1>6. QED
  BY <1>4, <1>5

(* Every page records with what it holds.                                  *)
LEMMA PageOpens ==
  ASSUME VisitorInv, NEW t \in Tabs,
         LoadPage(t) \/ GiveConsent(t) \/ Identify(t) \/ TrackEvent(t)
  PROVE  VisitorInv'
<1> USE VisitorNumbers
<1>1. /\ page[t] \in PageState /\ stored \in Visitor \cup {Nil}
      /\ page[t].knows <=> page[t].visitor # Nil
      /\ page[t].visitor # Nil => page[t].visitor <= issued
      /\ stored # Nil => stored <= issued
  BY DEF VisitorInv, VisitorTypeOK, PagesWait, IdsIssued
<1>2. CASE LoadPage(t)
  <2>1. PICK consent \in BOOLEAN, email \in Someone :
          Record(t, TRUE, [loaded |-> TRUE, consent |-> consent, email |-> email,
                           visitor |-> stored, knows |-> stored # Nil])
    BY <1>2 DEF LoadPage
  <2> DEFINE q == [loaded |-> TRUE, consent |-> consent, email |-> email,
                   visitor |-> stored, knows |-> stored # Nil]
  <2>2. (stored # Nil) \in BOOLEAN
    OBVIOUS
  <2>3. q \in PageState
    BY <1>1, <2>2 DEF PageState
  <2>4. q.loaded /\ q.visitor = stored /\ (q.knows <=> q.visitor # Nil)
    OBVIOUS
  <2>5. ~page[t].loaded /\ Record(t, TRUE, q)
    BY <1>2, <2>1 DEF LoadPage
  <2> HIDE DEF q
  <2>6. QED
    BY <1>1, <2>3, <2>4, <2>5, RecordKeeps
<1>3. CASE GiveConsent(t)
  <2> DEFINE q == [page[t] EXCEPT !.consent = TRUE]
  <2>1. /\ q \in PageState /\ q.loaded = page[t].loaded /\ q.visitor = page[t].visitor
        /\ q.knows = page[t].knows
    BY <1>1 DEF PageState
  <2>2. page[t].loaded /\ Record(t, TRUE, q)
    BY <1>3 DEF GiveConsent
  <2> HIDE DEF q
  <2>3. QED
    BY <1>1, <2>1, <2>2, RecordKeeps
<1>4. CASE Identify(t)
  <2>1. PICK p \in KnownPeople : Record(t, TRUE, [page[t] EXCEPT !.email = p])
    BY <1>4 DEF Identify
  <2> DEFINE q == [page[t] EXCEPT !.email = p]
  <2>2. p \in Someone
    BY DEF Someone
  <2>3. /\ q \in PageState /\ q.loaded = page[t].loaded /\ q.visitor = page[t].visitor
        /\ q.knows = page[t].knows
    BY <1>1, <2>2 DEF PageState
  <2>4. page[t].loaded /\ Record(t, TRUE, q)
    BY <1>4, <2>1 DEF Identify
  <2> HIDE DEF q
  <2>5. QED
    BY <1>1, <2>3, <2>4, RecordKeeps
<1>5. CASE TrackEvent(t)
  BY <1>1, <1>5, RecordKeeps DEF TrackEvent
<1>6. QED
  BY <1>2, <1>3, <1>4, <1>5

(* A visitor who leaves takes the fetches of the page along, but for those *)
(* that reach the server all the same.                                     *)
LEMMA PageLeft ==
  ASSUME VisitorInv, NEW t \in Tabs, LeavePage(t)
  PROVE  VisitorInv'
<1> USE VisitorNumbers DEF VisitorInv
<1>1. /\ UNCHANGED <<stored, shown, issued, identity, reachable, offered, counted, sent, blind>>
      /\ page' = [page EXCEPT ![t] = Unloaded]
  BY DEF LeavePage, siteVars
<1>2. /\ Unloaded \in PageState /\ Unloaded.knows = FALSE /\ Unloaded.visitor = Nil
  BY DEF Unloaded, PageState, Someone
<1>3. /\ page' \in [Tabs -> PageState] /\ page'[t] = Unloaded
      /\ \A u \in Tabs : u # t => page'[u] = page[u]
  BY <1>1, <1>2 DEF VisitorTypeOK
<1>4. ASSUME NEW c \in Calls
      PROVE  /\ call[c] \in CallState
             /\ \/ call[c].tab # t /\ call'[c] = call[c]
                \/ /\ call[c].step \in {"record", "impression"}
                   /\ call'[c] = [call[c] EXCEPT !.tab = Nil]
                \/ call'[c] = Free
  BY DEF LeavePage, VisitorTypeOK
<1>5. ASSUME NEW c \in Calls
      PROVE  /\ call'[c] \in CallState
             /\ \/ call[c].tab # t /\ call'[c] = call[c]
                \/ /\ call[c].step \in {"record", "impression"}
                   /\ call'[c].tab = Nil /\ call'[c].step = call[c].step
                   /\ call'[c].visitor = call[c].visitor /\ call'[c].message = call[c].message
                \/ call'[c] = Free
  <2>1. CASE call'[c] = [call[c] EXCEPT !.tab = Nil] /\ call[c].step \in {"record", "impression"}
    <3>1. call[c] \in CallState
      BY <1>4
    <3>2. /\ [call[c] EXCEPT !.tab = Nil] \in CallState
          /\ [call[c] EXCEPT !.tab = Nil].tab = Nil
          /\ [call[c] EXCEPT !.tab = Nil].step = call[c].step
          /\ [call[c] EXCEPT !.tab = Nil].visitor = call[c].visitor
          /\ [call[c] EXCEPT !.tab = Nil].message = call[c].message
      BY <3>1 DEF CallState
    <3>3. QED
      BY <2>1, <3>2
  <2>2. QED
    BY <1>4, <2>1, FreeCall
<1>6. call' \in [Calls -> CallState]
  <2>1. call' = [c \in Calls |-> call'[c]]
    BY DEF LeavePage
  <2>2. QED
    BY <1>5, <2>1
<1>7. VisitorTypeOK'
  BY <1>1, <1>3, <1>6 DEF VisitorTypeOK
<1>8. PagesWait'
  <2>1. \A c \in Calls : call[c].tab \in Tabs \cup {Nil}
    BY <1>4, CallFields
  <2>2. QED
    BY <1>2, <1>3, <1>5, <2>1, FreeCall DEF PagesWait
<1>9. IdsIssued'
  BY <1>1, <1>2, <1>3, <1>5, FreeCall DEF IdsIssued
<1>10. Asking' \subseteq Asking /\ \A m \in SiteMessages : Reporting(m)' \subseteq Reporting(m)
  BY <1>5, FreeCall DEF Asking, Reporting, Is
<1>11. QED
  BY <1>1, <1>7, <1>8, <1>9, <1>10, ShownKept, AskedKept

(* The server gives an id to a visitor without one.                        *)
LEMMA VisitKeeps ==
  ASSUME VisitorInv, NEW c \in Calls, RecordVisit(c)
  PROVE  VisitorInv'
<1> USE VisitorNumbers DEF VisitorInv
<1> DEFINE visitor == IF call[c].visitor = Nil THEN issued + 1 ELSE call[c].visitor
           contact == IF call[c].email \in reachable THEN call[c].email ELSE Nil
           state == IF call[c].tab = Nil THEN Free
                    ELSE [call[c] EXCEPT !.step = "recorded", !.visitor = visitor,
                                         !.identified = contact # Nil]
<1>1. /\ call[c] \in CallState /\ call[c].step = "record" /\ visitor \in Visitor
      /\ issued' = IF call[c].visitor = Nil THEN issued + 1 ELSE issued
      /\ identity' = IF contact = Nil THEN identity ELSE [identity EXCEPT ![visitor] = contact]
      /\ SetCall(c, state)
      /\ UNCHANGED <<page, stored, shown, reachable, offered, counted, sent, blind>>
  BY DEF RecordVisit, Is, VisitorTypeOK
<1>2. /\ issued \in Nat /\ issued' \in 0 .. MaxVisitors /\ issued <= issued' /\ visitor <= issued'
  <2>1. issued \in 0 .. MaxVisitors /\ call[c].visitor \in Visitor \cup {Nil}
    BY <1>1, CallFields DEF VisitorTypeOK
  <2>2. CASE call[c].visitor = Nil
    BY <1>1, <2>1, <2>2 DEF Visitor
  <2>3. CASE call[c].visitor # Nil
    BY <1>1, <2>1, <2>3 DEF Visitor, IdsIssued
  <2>4. QED
    BY <2>2, <2>3
<1>3. identity' \in [Visitor -> Someone]
  <2>1. contact \in Someone
    BY DEF VisitorTypeOK, Someone
  <2>2. QED
    BY <1>1, <2>1 DEF VisitorTypeOK
<1>4. /\ state \in CallState
      /\ \/ state = Free
         \/ /\ state.step = "recorded" /\ state.tab = call[c].tab /\ call[c].tab # Nil
            /\ state.visitor = visitor
  <2>1. (contact # Nil) \in BOOLEAN
    OBVIOUS
  <2> HIDE DEF contact, visitor
  <2>2. CASE call[c].tab = Nil
    BY <2>2, FreeCall
  <2>3. CASE call[c].tab # Nil
    <3>1. state = [call[c] EXCEPT !.step = "recorded", !.visitor = visitor,
                                  !.identified = contact # Nil]
      BY <2>3
    <3>2. /\ [call[c] EXCEPT !.step = "recorded", !.visitor = visitor,
                             !.identified = contact # Nil] \in CallState
      BY <1>1, <2>1 DEF CallState, CallSteps
    <3>3. state.step = "recorded" /\ state.tab = call[c].tab /\ state.visitor = visitor
      BY <1>1, <3>1 DEF CallState
    <3>4. QED
      BY <2>3, <3>1, <3>2, <3>3
  <2>4. QED
    BY <2>2, <2>3
<1> HIDE DEF state, contact
<1>5. /\ call' \in [Calls -> CallState] /\ call'[c] = state
      /\ \A d \in Calls : d # c => call'[d] = call[d]
  BY <1>1, <1>4, CallMoves
<1>6. VisitorTypeOK'
  BY <1>1, <1>2, <1>3, <1>5 DEF VisitorTypeOK
<1>7. PagesWait'
  BY <1>1, <1>4, <1>5, FreeCall DEF PagesWait
<1>8. IdsIssued'
  <2>1. /\ stored \in Visitor \cup {Nil} /\ \A t \in Tabs : page[t].visitor \in Visitor \cup {Nil}
        /\ \A d \in Calls : call[d].visitor \in Visitor \cup {Nil}
    BY CallFields, PageFields DEF VisitorTypeOK
  <2> HIDE DEF visitor
  <2>2. \A v \in Visitor : v <= issued => v <= issued'
    BY <1>2 DEF Visitor
  <2>3. call'[c].visitor # Nil => call'[c].visitor <= issued'
    BY <1>2, <1>4, <1>5, FreeCall
  <2>4. \A d \in Calls : call'[d].visitor # Nil => call'[d].visitor <= issued'
    BY <1>5, <2>1, <2>2, <2>3 DEF IdsIssued
  <2>5. \A t \in Tabs : page'[t].visitor # Nil => page'[t].visitor <= issued'
    BY <1>1, <2>1, <2>2 DEF IdsIssued
  <2>6. stored' # Nil => stored' <= issued'
    BY <1>1, <2>1, <2>2 DEF IdsIssued
  <2>7. QED
    BY <2>4, <2>5, <2>6 DEF IdsIssued
<1>9. \A m \in SiteMessages : Reporting(m)' \subseteq Reporting(m)
  BY <1>4, <1>5, FreeCall DEF Reporting, Is
<1>10. IdsAsked'
  <2>1. /\ IsFiniteSet(Asking) /\ Cardinality(Asking) \in Nat /\ blind \in Nat
        /\ issued + Cardinality(Asking) <= blind
    BY FS_CardinalityType DEF IdsAsked, VisitorTypeOK
  <2>2. CASE call[c].visitor = Nil
    <3>1. Asking' = Asking \ {c} /\ c \in Asking
      BY <1>1, <1>4, <1>5, <2>2, FreeCall DEF Asking, Is
    <3>2. IsFiniteSet(Asking') /\ Cardinality(Asking') = Cardinality(Asking) - 1
      BY <2>1, <3>1, FS_RemoveElement
    <3>3. issued' = issued + 1
      BY <1>1, <2>2
    <3>4. QED
      BY <1>1, <1>2, <2>1, <3>2, <3>3 DEF IdsAsked
  <2>3. CASE call[c].visitor # Nil
    <3>1. Asking' \subseteq Asking /\ issued' = issued
      BY <1>1, <1>4, <1>5, <2>3, FreeCall DEF Asking, Is
    <3>2. QED
      BY <1>1, <3>1, AskedKept
  <2>4. QED
    BY <2>2, <2>3
<1>11. QED
  BY <1>1, <1>6, <1>7, <1>8, <1>9, <1>10, ShownKept

(* The page keeps the id it is answered.                                   *)
LEMMA AnswerKeeps ==
  ASSUME VisitorInv, NEW c \in Calls, VisitRecorded(c)
  PROVE  VisitorInv'
<1> USE VisitorNumbers DEF VisitorInv
<1>1. call[c] \in CallState /\ call[c].step = "recorded"
  BY DEF VisitRecorded, Is, VisitorTypeOK
<1>2. call[c].tab \in Tabs /\ call[c].visitor \in Visitor /\ call[c].visitor <= issued
      /\ page[call[c].tab].loaded
  BY <1>1, CallFields DEF PagesWait, IdsIssued
<1>3. PICK t \in Tabs, visitor \in Visitor : t = call[c].tab /\ visitor = call[c].visitor
  BY <1>2
<1> DEFINE asked == [Free EXCEPT !.step = "messages", !.tab = t, !.visitor = visitor]
           state == IF call[c].viewing /\ call[c].identified THEN asked ELSE Free
<1>4. /\ page' = [page EXCEPT ![t].visitor = visitor, ![t].knows = TRUE]
      /\ stored' = visitor /\ SetCall(c, state)
      /\ UNCHANGED <<shown, issued, identity, reachable, offered, counted, sent, blind>>
  BY <1>3 DEF VisitRecorded, siteVars
<1>5. /\ page' \in [Tabs -> PageState] /\ page'[t].visitor = visitor /\ page'[t].knows
      /\ page'[t].loaded = page[t].loaded
      /\ \A u \in Tabs : u # t => page'[u] = page[u]
  <2>1. page[t] \in PageState
    BY DEF VisitorTypeOK
  <2>2. page'[t] = [[page[t] EXCEPT !.visitor = visitor] EXCEPT !.knows = TRUE]
    BY <1>4 DEF VisitorTypeOK
  <2>3. /\ page'[t] \in PageState /\ page'[t].visitor = visitor /\ page'[t].knows = TRUE
        /\ page'[t].loaded = page[t].loaded
    BY <2>1, <2>2 DEF PageState
  <2>4. \A u \in Tabs : u # t => page'[u] = page[u]
    BY <1>4 DEF VisitorTypeOK
  <2>5. page' = [u \in Tabs |-> page'[u]]
    BY <1>4 DEF VisitorTypeOK
  <2>6. QED
    BY <2>3, <2>4, <2>5 DEF VisitorTypeOK
<1>6. /\ state \in CallState
      /\ \/ state = Free
         \/ state.step = "messages" /\ state.tab = t /\ state.visitor = visitor
  <2>1. asked \in CallState /\ asked.step = "messages" /\ asked.tab = t /\ asked.visitor = visitor
    BY FreeCall DEF CallState, CallSteps
  <2> HIDE DEF asked
  <2>2. QED
    BY <2>1, FreeCall
<1> HIDE DEF state, asked
<1>7. /\ call' \in [Calls -> CallState] /\ call'[c] = state
      /\ \A d \in Calls : d # c => call'[d] = call[d]
  BY <1>4, <1>6, CallMoves
<1>8. VisitorTypeOK'
  BY <1>4, <1>5, <1>7 DEF VisitorTypeOK
<1>9. PagesWait'
  <2>1. \A d \in Calls : call[d].tab \in Tabs \cup {Nil}
    BY CallFields DEF VisitorTypeOK
  <2>2. QED
    BY <1>2, <1>3, <1>5, <1>6, <1>7, <2>1, FreeCall DEF PagesWait
<1>10. IdsIssued'
  BY <1>2, <1>3, <1>4, <1>5, <1>6, <1>7, FreeCall DEF IdsIssued
<1>11. Asking' \subseteq Asking /\ \A m \in SiteMessages : Reporting(m)' \subseteq Reporting(m)
  BY <1>6, <1>7, FreeCall DEF Asking, Reporting, Is
<1>12. QED
  BY <1>4, <1>8, <1>9, <1>10, <1>11, ShownKept, AskedKept

(* The server lists a message, or a fetch is lost: it goes on or is free.  *)
LEMMA ListingKeeps ==
  ASSUME VisitorInv, NEW c \in Calls, ListSiteMessages(c) \/ CallLost(c)
  PROVE  VisitorInv'
<1> USE VisitorNumbers DEF VisitorInv
<1>1. /\ call[c] \in CallState
      /\ UNCHANGED <<page, stored, shown, issued, identity, reachable, offered, counted, sent, blind>>
  BY DEF ListSiteMessages, CallLost, siteVars, VisitorTypeOK
<1>2. PICK state \in CallState :
        /\ SetCall(c, state)
        /\ \/ state = Free
           \/ /\ call[c].step = "messages" /\ state.step = "listed"
              /\ state.tab = call[c].tab /\ state.visitor = call[c].visitor
  <2>1. CASE CallLost(c)
    BY <2>1, FreeCall DEF CallLost
  <2>2. CASE ListSiteMessages(c)
    <3>1. PICK m \in ActiveSiteMessages(call[c].visitor) :
            call[c].step = "messages" /\ SetCall(c, [call[c] EXCEPT !.step = "listed", !.message = m])
      BY <2>2 DEF ListSiteMessages, Is
    <3>2. m \in SiteMessages \cup {Nil}
      BY DEF ActiveSiteMessages, VisitorTypeOK
    <3> DEFINE state == [call[c] EXCEPT !.step = "listed", !.message = m]
    <3>3. /\ state \in CallState /\ state.step = "listed"
          /\ state.tab = call[c].tab /\ state.visitor = call[c].visitor
      BY <1>1, <3>2 DEF CallState, CallSteps
    <3> HIDE DEF state
    <3>4. QED
      BY <3>1, <3>3 DEF state
  <2>3. QED
    BY <2>1, <2>2
<1>3. /\ call' \in [Calls -> CallState] /\ call'[c] = state
      /\ \A d \in Calls : d # c => call'[d] = call[d]
  BY <1>2, CallMoves
<1>4. VisitorTypeOK'
  BY <1>1, <1>3 DEF VisitorTypeOK
<1>5. PagesWait'
  BY <1>1, <1>2, <1>3, FreeCall DEF PagesWait
<1>6. IdsIssued'
  BY <1>1, <1>2, <1>3, FreeCall DEF IdsIssued
<1>7. Asking' \subseteq Asking /\ \A m \in SiteMessages : Reporting(m)' \subseteq Reporting(m)
  BY <1>2, <1>3, FreeCall DEF Asking, Reporting, Is
<1>8. QED
  BY <1>1, <1>4, <1>5, <1>6, <1>7, ShownKept, AskedKept

(* A tab begins an impression of a message it had not shown.               *)
LEMMA ShowKeeps ==
  ASSUME VisitorInv, NEW c \in Calls, ShowMessage(c)
  PROVE  VisitorInv'
<1> USE VisitorNumbers DEF VisitorInv
<1>1. /\ call[c] \in CallState /\ call[c].step = "listed"
      /\ UNCHANGED <<page, stored, issued, identity, reachable, offered, counted, sent, blind>>
  BY DEF ShowMessage, siteVars, Is, VisitorTypeOK
<1>2. /\ call[c].tab \in Tabs /\ page[call[c].tab].loaded
      /\ page[call[c].tab].visitor \in Visitor
      /\ page[call[c].tab].visitor <= issued
  <2>1. call[c].tab \in Tabs /\ page[call[c].tab].loaded /\ page[call[c].tab].visitor # Nil
    BY <1>1, CallFields DEF PagesWait
  <2>2. page[call[c].tab].visitor \in Visitor \cup {Nil}
    BY <2>1, PageFields DEF VisitorTypeOK
  <2>3. QED
    BY <2>1, <2>2 DEF IdsIssued
<1>3. PICK t \in Tabs, m \in SiteMessages \cup {Nil} : t = call[c].tab /\ m = call[c].message
  BY <1>1, <1>2, CallFields
<1>4. CASE m = Nil \/ m \in shown[t]
  <2>1. SetCall(c, Free) /\ UNCHANGED shown
    BY <1>3, <1>4 DEF ShowMessage
  <2>2. /\ call' \in [Calls -> CallState] /\ call'[c] = Free
        /\ \A d \in Calls : d # c => call'[d] = call[d]
    BY <2>1, FreeCall, CallMoves
  <2>3. VisitorTypeOK'
    BY <1>1, <2>1, <2>2 DEF VisitorTypeOK
  <2>4. PagesWait' /\ IdsIssued'
    BY <1>1, <2>2, FreeCall DEF PagesWait, IdsIssued
  <2>5. Asking' \subseteq Asking /\ \A o \in SiteMessages : Reporting(o)' \subseteq Reporting(o)
    BY <2>2, FreeCall DEF Asking, Reporting, Is
  <2>6. QED
    BY <1>1, <2>1, <2>3, <2>4, <2>5, ShownKept, AskedKept
<1>5. CASE m # Nil /\ m \notin shown[t]
  <2> DEFINE state == [call[c] EXCEPT !.step = "impression", !.visitor = page[t].visitor]
  <2>1. SetCall(c, state) /\ shown' = [shown EXCEPT ![t] = @ \cup {m}]
    BY <1>3, <1>5 DEF ShowMessage
  <2>2. /\ state \in CallState /\ state.step = "impression" /\ state.tab = t
        /\ state.visitor = page[t].visitor /\ state.message = m
    BY <1>1, <1>2, <1>3 DEF CallState, CallSteps
  <2> HIDE DEF state
  <2>3. /\ call' \in [Calls -> CallState] /\ call'[c] = state
        /\ \A d \in Calls : d # c => call'[d] = call[d]
    BY <2>1, <2>2, CallMoves
  <2>4. /\ shown' \in [Tabs -> SUBSET SiteMessages] /\ shown'[t] = shown[t] \cup {m}
        /\ \A u \in Tabs : u # t => shown'[u] = shown[u]
    BY <1>5, <2>1 DEF VisitorTypeOK
  <2>5. VisitorTypeOK'
    BY <1>1, <2>3, <2>4 DEF VisitorTypeOK
  <2>6. PagesWait'
    BY <1>1, <1>2, <1>3, <1>5, <2>2, <2>3 DEF PagesWait
  <2>7. IdsIssued'
    BY <1>1, <1>2, <1>3, <2>2, <2>3 DEF IdsIssued
  <2>8. Asking' \subseteq Asking
    BY <2>2, <2>3 DEF Asking, Is
  <2>9. ShownCounted'
    <3>1. ASSUME NEW o \in SiteMessages
          PROVE  /\ IsFiniteSet(Showing(o)) /\ IsFiniteSet(Reporting(o)) /\ counted[o] \in Nat
                 /\ Cardinality(Showing(o)) \in Nat /\ Cardinality(Reporting(o)) \in Nat
                 /\ counted[o] + Cardinality(Reporting(o)) <= Cardinality(Showing(o))
      BY FS_CardinalityType DEF ShownCounted, VisitorTypeOK
    <3>2. \A o \in SiteMessages : o # m => Showing(o)' = Showing(o) /\ Reporting(o)' = Reporting(o)
      BY <1>1, <2>2, <2>3, <2>4 DEF Showing, Reporting, Is
    <3>3. Showing(m)' = Showing(m) \cup {t} /\ t \notin Showing(m)
      BY <1>5, <2>4 DEF Showing
    <3>4. Reporting(m)' = Reporting(m) \cup {c} /\ c \notin Reporting(m)
      BY <1>1, <2>2, <2>3 DEF Reporting, Is
    <3>5. /\ IsFiniteSet(Showing(m)') /\ Cardinality(Showing(m)') = Cardinality(Showing(m)) + 1
          /\ IsFiniteSet(Reporting(m)') /\ Cardinality(Reporting(m)') = Cardinality(Reporting(m)) + 1
      BY <1>5, <3>1, <3>3, <3>4, FS_AddElement
    <3>6. QED
      BY <1>1, <1>5, <3>1, <3>2, <3>5 DEF ShownCounted
  <2>10. QED
    BY <1>1, <2>5, <2>6, <2>7, <2>8, <2>9, AskedKept
<1>6. QED
  BY <1>4, <1>5

(* An impression under way becomes one that is counted, or nothing.        *)
LEMMA ImpressionKeeps ==
  ASSUME VisitorInv, NEW c \in Calls, RecordImpression(c)
  PROVE  VisitorInv'
<1> USE VisitorNumbers DEF VisitorInv
<1>1. /\ call[c] \in CallState /\ call[c].step = "impression" /\ SetCall(c, Free)
      /\ UNCHANGED <<page, stored, shown, issued, identity, reachable, offered, sent, blind>>
  BY DEF RecordImpression, siteVars, Is, VisitorTypeOK
<1>2. PICK m \in SiteMessages : m = call[c].message
  BY <1>1, CallFields DEF PagesWait
<1>3. counted' = counted \/ counted' = [counted EXCEPT ![m] = @ + 1]
  BY <1>2 DEF RecordImpression
<1>4. /\ counted' \in [SiteMessages -> Nat] /\ counted'[m] <= counted[m] + 1
      /\ \A o \in SiteMessages : o # m => counted'[o] = counted[o]
  BY <1>3 DEF VisitorTypeOK
<1>5. /\ call' \in [Calls -> CallState] /\ call'[c] = Free
      /\ \A d \in Calls : d # c => call'[d] = call[d]
  BY <1>1, FreeCall, CallMoves
<1>6. VisitorTypeOK'
  BY <1>1, <1>4, <1>5 DEF VisitorTypeOK
<1>7. PagesWait' /\ IdsIssued'
  BY <1>1, <1>5, FreeCall DEF PagesWait, IdsIssued
<1>8. Asking' \subseteq Asking
  BY <1>5, FreeCall DEF Asking, Is
<1>9. ShownCounted'
  <2>1. ASSUME NEW o \in SiteMessages
        PROVE  /\ IsFiniteSet(Showing(o)) /\ IsFiniteSet(Reporting(o)) /\ counted[o] \in Nat
               /\ Cardinality(Showing(o)) \in Nat /\ Cardinality(Reporting(o)) \in Nat
               /\ counted[o] + Cardinality(Reporting(o)) <= Cardinality(Showing(o))
    BY FS_CardinalityType DEF ShownCounted, VisitorTypeOK
  <2>2. \A o \in SiteMessages : Showing(o)' = Showing(o)
    BY <1>1 DEF Showing
  <2>3. \A o \in SiteMessages : o # m => Reporting(o)' = Reporting(o)
    BY <1>1, <1>2, <1>5, FreeCall DEF Reporting, Is
  <2>4. Reporting(m)' = Reporting(m) \ {c} /\ c \in Reporting(m)
    BY <1>1, <1>2, <1>5, FreeCall DEF Reporting, Is
  <2>5. IsFiniteSet(Reporting(m)') /\ Cardinality(Reporting(m)') = Cardinality(Reporting(m)) - 1
    BY <2>1, <2>4, FS_RemoveElement
  <2>6. counted'[m] \in Nat
    BY <1>4
  <2>7. QED
    BY <1>4, <2>1, <2>2, <2>3, <2>5, <2>6 DEF ShownCounted
<1>10. QED
  BY <1>1, <1>6, <1>7, <1>8, <1>9, AskedKept

LEMMA VisitorInvStep ==
  ASSUME VisitorInv, [VisitorNext]_visitorVars
  PROVE  VisitorInv'
<1>1. CASE \E t \in Tabs :
             LoadPage(t) \/ GiveConsent(t) \/ Identify(t) \/ TrackEvent(t) \/ LeavePage(t)
  BY <1>1, PageOpens, PageLeft
<1>2. CASE \E c \in Calls :
             \/ RecordVisit(c) \/ VisitRecorded(c) \/ ListSiteMessages(c)
             \/ ShowMessage(c) \/ RecordImpression(c) \/ CallLost(c)
  BY <1>2, VisitKeeps, AnswerKeeps, ListingKeeps, ShowKeeps, ImpressionKeeps
<1>3. CASE ArchiveBehindVisitor \/ UNCHANGED visitorVars
  <2>1. /\ UNCHANGED <<page, stored, shown, call, issued, identity, counted, sent, blind>>
        /\ reachable' \subseteq reachable /\ offered' \subseteq offered
    BY <1>3 DEF ArchiveBehindVisitor, visitorVars
  <2>2. VisitorTypeOK'
    BY <2>1 DEF VisitorInv, VisitorTypeOK
  <2>3. PagesWait' /\ IdsIssued'
    BY <2>1 DEF VisitorInv, PagesWait, IdsIssued
  <2>4. Asking' = Asking /\ \A m \in SiteMessages : Reporting(m)' = Reporting(m)
    BY <2>1 DEF Asking, Reporting, Is
  <2>5. QED
    BY <2>1, <2>2, <2>3, <2>4, ShownKept, AskedKept DEF VisitorInv
<1>4. QED
  BY <1>1, <1>2, <1>3 DEF VisitorNext

LEMMA VisitorInvSound == VisitorInv => VisitorSound
<1> SUFFICES ASSUME VisitorInv PROVE VisitorSound
  OBVIOUS
<1>1. SeenOncePerTab
  BY DEF VisitorInv, ShownCounted, SeenOncePerTab, Showing, Reporting
<1>2. issued <= blind
  <2>1. /\ issued + Cardinality(Asking) <= blind /\ Cardinality(Asking) \in Nat
        /\ issued \in Nat /\ blind \in Nat
    BY FS_CardinalityType DEF VisitorInv, IdsAsked, VisitorTypeOK
  <2>2. QED
    BY <2>1
<1>3. \A c \in Calls : Is(c, "impression") => call[c].visitor \in 1 .. issued
  <2>1. ASSUME NEW c \in Calls, Is(c, "impression") PROVE call[c].visitor \in 1 .. issued
    <3>1. call[c].visitor \in Visitor /\ call[c].visitor <= issued /\ issued \in Nat
      BY <2>1, CallFields DEF VisitorInv, VisitorTypeOK, PagesWait, IdsIssued, Is
    <3>2. QED
      BY <3>1 DEF Visitor
  <2>2. QED
    BY <2>1
<1>4. stored # Nil => stored <= issued
  BY DEF VisitorInv, IdsIssued
<1>5. QED
  BY <1>1, <1>2, <1>3, <1>4 DEF VisitorSound, OneVisitorPerBrowser

(* The pages, fetches and ids of a browser keep their types.               *)
(* (public/templates.ts, tracking-routes.ts)                               *)
THEOREM VisitorTypeCorrect == VisitorSpec => []VisitorTypeOK
<1>1. VisitorInv => VisitorTypeOK
  BY DEF VisitorInv
<1>2. QED
  BY <1>1, VisitorInvInit, VisitorInvStep, PTL DEF VisitorSpec

(* However often a form is sent, pages are edited and beacons are lost, on *)
(* a website of any size: a submission is recorded once under its key, a   *)
(* contact and a view once, a page is at its newest version, a browser is  *)
(* one visitor for the records it could know that of, and a tab counts for *)
(* a message once.                                                         *)
(* (web/repository.ts, public/form-routes.ts, public/templates.ts)         *)
THEOREM WebsiteAlwaysSound == WorkspaceSpec => []WebsiteSound
<1>1. WebSpec => []WebsiteConsistent
  BY WebInvInit, WebInvStep, WebInvConsistent, PTL DEF WebSpec
<1>2. VisitorSpec => []VisitorSound
  BY VisitorInvInit, VisitorInvStep, VisitorInvSound, PTL DEF VisitorSpec
<1>3. WebsiteConsistent /\ VisitorSound => WebsiteSound
  BY DEF WebsiteSound
<1>4. QED
  BY <1>1, <1>2, <1>3, PTL DEF WorkspaceSpec

-----------------------------------------------------------------------------
(* MailTemplates.  A published copy was put together by a publication, and *)
(* a closed form that carries nothing is a blank one.                      *)

CopyReleased ==
  \A id \in MailTemplateIds :
    mailTemplate[id].publishedRevision # 0 =>
      [subject |-> mailTemplate[id].publishedSubject,
       content |-> mailTemplate[id].publishedContent] \in releases

ClosedFormBlank == ~mailForm.open /\ ~carried => mailForm = ClosedForm(Blank)

MailInv ==
  /\ MailTypeOK /\ RevisionsTellDrafts /\ CopyReleased
  /\ MailsWerePublished /\ FormShowsRow /\ ClosedFormBlank

LEMMA MailRowFields ==
  ASSUME NEW row \in MailTemplate
  PROVE  /\ row.status \in {"none", "live", "archived"}
         /\ row.subject \in Texts /\ row.content \in Texts
         /\ row.publishedSubject \in Texts /\ row.publishedContent \in Texts
         /\ row.draftRevision \in Nat /\ row.publishedRevision \in Nat
         /\ LetterOf(row) \in Letter
         /\ [subject |-> row.publishedSubject, content |-> row.publishedContent] \in Letter
BY DEF MailTemplate, LetterOf, Letter

LEMMA MailDefaults ==
  /\ NoMailTemplate \in MailTemplate
  /\ NoMailTemplate.subject = Blank /\ NoMailTemplate.content = Blank
  /\ NoMailTemplate.draftRevision = 0 /\ NoMailTemplate.publishedRevision = 0
  /\ \A content \in Texts :
       /\ ClosedForm(content) \in MailForm /\ ~ClosedForm(content).open
       /\ ClosedForm(content).editing = NoTemplate
       /\ ClosedForm(content).content = content
BY MailAssumption DEF NoMailTemplate, MailTemplate, ClosedForm, MailForm

\* A statement that writes one row keeps the table right.
RowRight(row) ==
  /\ row \in MailTemplate
  /\ row.publishedRevision <= row.draftRevision
  /\ row.publishedRevision # 0 /\ row.publishedRevision = row.draftRevision =>
       row.publishedSubject = row.subject /\ row.publishedContent = row.content

TableRight == MailTypeOK /\ RevisionsTellDrafts /\ CopyReleased

LEMMA RowsRight ==
  ASSUME TableRight, NEW id \in MailTemplateIds
  PROVE  RowRight(mailTemplate[id])
BY DEF TableRight, MailTypeOK, RevisionsTellDrafts, RowRight

LEMMA RowWritten ==
  ASSUME TableRight, NEW id \in MailTemplateIds, NEW row, RowRight(row),
         SetTemplate(id, row), releases \subseteq releases', releases' \subseteq Letter,
         row.publishedRevision # 0 =>
           [subject |-> row.publishedSubject, content |-> row.publishedContent] \in releases'
  PROVE  /\ mailTemplate' \in [MailTemplateIds -> MailTemplate]
         /\ RevisionsTellDrafts' /\ CopyReleased'
<1>1. mailTemplate' = [mailTemplate EXCEPT ![id] = row] /\ row \in MailTemplate
  BY DEF SetTemplate, RowRight
<1>2. mailTemplate \in [MailTemplateIds -> MailTemplate]
  BY DEF TableRight, MailTypeOK
<1>3. /\ mailTemplate' \in [MailTemplateIds -> MailTemplate] /\ mailTemplate'[id] = row
      /\ \A x \in MailTemplateIds : x # id => mailTemplate'[x] = mailTemplate[x]
  BY <1>1, <1>2
<1>4. RevisionsTellDrafts'
  BY <1>3 DEF TableRight, RevisionsTellDrafts, RowRight
<1>5. CopyReleased'
  BY <1>3 DEF TableRight, CopyReleased
<1>6. QED
  BY <1>3, <1>4, <1>5

LEMMA UpdateWrites ==
  ASSUME TableRight, NEW id \in MailTemplateIds, NEW letter \in Letter,
         UpdateEmailTemplate(id, letter), UNCHANGED releases
  PROVE  /\ mailTemplate' \in [MailTemplateIds -> MailTemplate]
         /\ RevisionsTellDrafts' /\ CopyReleased'
<1> DEFINE old == mailTemplate[id]
           row == [old EXCEPT !.subject = letter.subject, !.content = letter.content,
                              !.draftRevision = @ + 1]
<1>1. RowRight(old) /\ SetTemplate(id, row) /\ releases \subseteq Letter
  BY RowsRight DEF UpdateEmailTemplate, TableRight, MailTypeOK
<1>2. letter.subject \in Texts /\ letter.content \in Texts
  BY DEF Letter
<1>3. old.publishedRevision # 0 =>
        [subject |-> old.publishedSubject, content |-> old.publishedContent] \in releases
  BY DEF TableRight, CopyReleased
<1> HIDE DEF old
<1>4. /\ row \in MailTemplate /\ row.publishedRevision = old.publishedRevision
      /\ row.publishedSubject = old.publishedSubject
      /\ row.publishedContent = old.publishedContent
      /\ row.draftRevision = old.draftRevision + 1
  <2>1. old \in MailTemplate /\ old.draftRevision + 1 \in Nat
    <3>1. old \in MailTemplate
      BY <1>1 DEF RowRight
    <3>2. old.draftRevision \in Nat
      BY <3>1, MailRowFields
    <3>3. QED
      BY <3>1, <3>2
  <2>2. QED
    BY <1>2, <2>1 DEF MailTemplate
<1> HIDE DEF row
<1>5. RowRight(row)
  <2>1. /\ old.publishedRevision \in Nat /\ old.draftRevision \in Nat
        /\ old.publishedRevision <= old.draftRevision
    BY <1>1, MailRowFields DEF RowRight
  <2>2. /\ row.publishedRevision <= row.draftRevision
        /\ row.publishedRevision # row.draftRevision
    BY <1>4, <2>1
  <2>3. QED
    BY <1>4, <2>2 DEF RowRight
<1>6. QED
  BY <1>1, <1>3, <1>4, <1>5, RowWritten

LEMMA CreateWrites ==
  ASSUME TableRight, NEW id \in MailTemplateIds, NEW letter \in Letter,
         CreateEmailTemplate(id, letter), UNCHANGED releases
  PROVE  /\ mailTemplate' \in [MailTemplateIds -> MailTemplate]
         /\ RevisionsTellDrafts' /\ CopyReleased'
<1> DEFINE row == [NoMailTemplate EXCEPT !.status = "live", !.subject = letter.subject,
                                         !.content = letter.content, !.draftRevision = 1]
<1>1. SetTemplate(id, row) /\ releases \subseteq Letter
  BY DEF CreateEmailTemplate, TableRight, MailTypeOK
<1>2. letter.subject \in Texts /\ letter.content \in Texts
  BY DEF Letter
<1>3. row \in MailTemplate /\ row.publishedRevision = 0 /\ row.draftRevision = 1
  BY <1>2, MailDefaults DEF MailTemplate
<1> HIDE DEF row
<1>4. RowRight(row)
  BY <1>3 DEF RowRight
<1>5. QED
  BY <1>1, <1>3, <1>4, RowWritten

LEMMA PublishWrites ==
  ASSUME TableRight, NEW id \in MailTemplateIds, PublishEmailTemplate(id)
  PROVE  /\ mailTemplate' \in [MailTemplateIds -> MailTemplate]
         /\ RevisionsTellDrafts' /\ CopyReleased'
         /\ releases \subseteq releases' /\ releases' \subseteq Letter
<1> DEFINE old == mailTemplate[id]
           row == [old EXCEPT !.publishedSubject = old.subject,
                              !.publishedContent = old.content,
                              !.publishedRevision = old.draftRevision]
<1>1. /\ RowRight(old) /\ SetTemplate(id, row) /\ releases \subseteq Letter
      /\ releases' = releases \cup {LetterOf(old)}
  BY RowsRight DEF PublishEmailTemplate, TableRight, MailTypeOK
<1> HIDE DEF old
<1>2. /\ row \in MailTemplate /\ row.subject = old.subject /\ row.content = old.content
      /\ row.publishedSubject = old.subject /\ row.publishedContent = old.content
      /\ row.publishedRevision = old.draftRevision /\ row.draftRevision = old.draftRevision
  <2>1. /\ old \in MailTemplate /\ old.draftRevision \in Nat
        /\ old.subject \in Texts /\ old.content \in Texts
    BY <1>1, MailRowFields DEF RowRight
  <2>2. QED
    BY <2>1 DEF MailTemplate
<1> HIDE DEF row
<1>3. RowRight(row) /\ LetterOf(old) \in Letter
  <2>1. /\ old.draftRevision \in Nat /\ LetterOf(old) \in Letter
    BY <1>1, MailRowFields DEF RowRight
  <2>2. QED
    BY <1>2, <2>1 DEF RowRight
<1>4. [subject |-> row.publishedSubject, content |-> row.publishedContent] \in releases'
  BY <1>1, <1>2 DEF LetterOf
<1>5. QED
  BY <1>1, <1>3, <1>4, RowWritten

LEMMA ArchiveWrites ==
  ASSUME TableRight, NEW id \in MailTemplateIds, ArchiveEmailTemplate(id), UNCHANGED releases
  PROVE  /\ mailTemplate' \in [MailTemplateIds -> MailTemplate]
         /\ RevisionsTellDrafts' /\ CopyReleased'
<1> DEFINE old == mailTemplate[id]
           row == [old EXCEPT !.status = "archived"]
<1>1. RowRight(old) /\ SetTemplate(id, row) /\ releases \subseteq Letter
  BY RowsRight DEF ArchiveEmailTemplate, TableRight, MailTypeOK
<1>2. old.publishedRevision # 0 =>
        [subject |-> old.publishedSubject, content |-> old.publishedContent] \in releases
  BY DEF TableRight, CopyReleased
<1> HIDE DEF old
<1>3. /\ row \in MailTemplate /\ row.subject = old.subject /\ row.content = old.content
      /\ row.publishedSubject = old.publishedSubject
      /\ row.publishedContent = old.publishedContent
      /\ row.publishedRevision = old.publishedRevision
      /\ row.draftRevision = old.draftRevision
  BY <1>1 DEF RowRight, MailTemplate
<1> HIDE DEF row
<1>4. RowRight(row)
  BY <1>1, <1>3 DEF RowRight
<1>5. QED
  BY <1>1, <1>2, <1>3, <1>4, RowWritten

LEMMA FormOpens ==
  ASSUME MailInv, NEW id \in MailTemplateIds \cup {NoTemplate}, NEW row \in MailTemplate,
         id = NoTemplate => row = NoMailTemplate, OpenForm(id, row)
  PROVE  MailInv'
<1>1. /\ mailForm \in MailForm /\ carried \in BOOLEAN
      /\ mailForm' = [open |-> TRUE, editing |-> id, shown |-> row, subject |-> row.subject,
                      content |-> IF id = mailForm.editing THEN mailForm.content
                                  ELSE row.content,
                      touched |-> FALSE]
      /\ carried' = (id = mailForm.editing /\ carried)
      /\ ~mailForm.open
      /\ UNCHANGED <<mailTemplate, sentMails, releases, listedMail>>
  BY DEF OpenForm, MailInv, MailTypeOK, mailRows
<1>2. /\ mailForm.content \in Texts /\ row.subject \in Texts /\ row.content \in Texts
  BY <1>1, MailRowFields DEF MailForm
<1>3. mailForm' \in MailForm /\ mailForm'.open /\ carried' \in BOOLEAN
  BY <1>1, <1>2 DEF MailForm
<1>4. FormShowsRow'
  <2> SUFFICES ASSUME ~carried' PROVE LetterOf(mailForm') = LetterOf(mailForm'.shown)
    BY DEF FormShowsRow
  <2>1. CASE id # mailForm.editing
    BY <1>1, <2>1 DEF LetterOf
  <2>2. CASE id = mailForm.editing
    <3>1. mailForm = ClosedForm(Blank)
      BY <1>1, <2>2 DEF MailInv, ClosedFormBlank
    <3>2. id = NoTemplate /\ mailForm.content = Blank /\ row = NoMailTemplate
      BY <2>2, <3>1, MailDefaults, MailAssumption
    <3>3. mailForm'.content = Blank /\ mailForm'.subject = Blank /\ mailForm'.shown = row
      BY <1>1, <2>2, <3>2, MailDefaults
    <3>4. QED
      BY <3>2, <3>3, MailDefaults DEF LetterOf
  <2>3. QED
    BY <2>1, <2>2
<1>5. QED
  BY <1>1, <1>3, <1>4
     DEF MailInv, MailTypeOK, RevisionsTellDrafts, CopyReleased, MailsWerePublished,
         ClosedFormBlank

\* What is left to show for a step that leaves the form alone.
LEMMA FormKept ==
  ASSUME MailInv, UNCHANGED <<mailForm, carried>>,
         mailTemplate' \in [MailTemplateIds -> MailTemplate],
         listedMail' \in [MailTemplateIds -> MailTemplate],
         sentMails' \subseteq Letter, releases' \subseteq Letter,
         RevisionsTellDrafts', CopyReleased', MailsWerePublished'
  PROVE  MailInv'
BY DEF MailInv, MailTypeOK, FormShowsRow, ClosedFormBlank

LEMMA MailInvInit == MailInit => MailInv
<1> SUFFICES ASSUME MailInit PROVE MailInv
  OBVIOUS
<1>1. /\ mailTemplate = [id \in MailTemplateIds |-> NoMailTemplate]
      /\ listedMail = mailTemplate /\ mailForm = ClosedForm(Blank)
      /\ sentMails = {} /\ releases = {} /\ carried = FALSE
  BY DEF MailInit
<1>2. ClosedForm(Blank) \in MailForm /\ ~ClosedForm(Blank).open
  BY MailDefaults, MailAssumption
<1>3. MailTypeOK
  BY <1>1, <1>2, MailDefaults DEF MailTypeOK
<1>4. RevisionsTellDrafts /\ CopyReleased
  BY <1>1, MailDefaults DEF RevisionsTellDrafts, CopyReleased
<1>5. QED
  BY <1>1, <1>2, <1>3, <1>4 DEF MailInv, MailsWerePublished, FormShowsRow, ClosedFormBlank

LEMMA MailInvStep == MailInv /\ [MailNext]_mailVars => MailInv'
<1> SUFFICES ASSUME MailInv, [MailNext]_mailVars PROVE MailInv'
  OBVIOUS
<1>1. /\ TableRight /\ MailTypeOK /\ MailsWerePublished
      /\ releases \subseteq Letter /\ sentMails \subseteq Letter
      /\ mailTemplate \in [MailTemplateIds -> MailTemplate]
      /\ listedMail \in [MailTemplateIds -> MailTemplate]
      /\ mailForm \in MailForm
  BY DEF MailInv, TableRight, MailTypeOK
<1>2. CASE OthersWrite
  <2>1. UNCHANGED <<listedMail, mailForm, sentMails, carried>>
    BY <1>2 DEF OthersWrite
  <2>2. PICK id \in MailTemplateIds :
          \/ \E letter \in Letter : UpdateEmailTemplate(id, letter) /\ UNCHANGED releases
          \/ PublishEmailTemplate(id)
          \/ ArchiveEmailTemplate(id) /\ UNCHANGED releases
    BY <1>2 DEF OthersWrite
  <2>3. /\ mailTemplate' \in [MailTemplateIds -> MailTemplate]
        /\ RevisionsTellDrafts' /\ CopyReleased'
        /\ releases \subseteq releases' /\ releases' \subseteq Letter
    BY <1>1, <2>2, UpdateWrites, PublishWrites, ArchiveWrites
  <2>4. MailsWerePublished'
    BY <1>1, <2>1, <2>3 DEF MailsWerePublished
  <2>5. QED
    BY <1>1, <2>1, <2>3, <2>4, FormKept
<1>3. ASSUME NEW id \in MailTemplateIds, CreateEmailDelivery(id) PROVE MailInv'
  <2> DEFINE letter == [subject |-> mailTemplate[id].publishedSubject,
                        content |-> mailTemplate[id].publishedContent]
  <2>1. /\ mailTemplate[id].publishedRevision # 0 /\ sentMails' = sentMails \cup {letter}
        /\ UNCHANGED <<mailTemplate, releases, listedMail, mailForm, carried>>
    BY <1>3 DEF CreateEmailDelivery
  <2>2. letter \in releases
    BY <1>1, <2>1 DEF TableRight, CopyReleased
  <2> HIDE DEF letter
  <2>3. RevisionsTellDrafts' /\ CopyReleased'
    BY <1>1, <2>1 DEF TableRight, RevisionsTellDrafts, CopyReleased
  <2>4. MailsWerePublished' /\ sentMails' \subseteq Letter
    BY <1>1, <2>1, <2>2 DEF MailsWerePublished
  <2>5. QED
    BY <1>1, <2>1, <2>3, <2>4, FormKept
<1>4. ASSUME NEW id \in MailTemplateIds, PublishFromTable(id) PROVE MailInv'
  <2>1. PublishEmailTemplate(id) /\ UNCHANGED <<listedMail, mailForm, sentMails, carried>>
    BY <1>4 DEF PublishFromTable
  <2>2. /\ mailTemplate' \in [MailTemplateIds -> MailTemplate]
        /\ RevisionsTellDrafts' /\ CopyReleased'
        /\ releases \subseteq releases' /\ releases' \subseteq Letter
    BY <1>1, <2>1, PublishWrites
  <2>3. MailsWerePublished'
    BY <1>1, <2>1, <2>2 DEF MailsWerePublished
  <2>4. QED
    BY <1>1, <2>1, <2>2, <2>3, FormKept
<1>5. ASSUME NEW id \in MailTemplateIds, OpenTemplateForm(id) PROVE MailInv'
  <2>1. OpenForm(id, listedMail[id]) /\ listedMail[id] \in MailTemplate /\ id # NoTemplate
    BY <1>1, <1>5, MailAssumption DEF OpenTemplateForm
  <2>2. QED
    BY <2>1, FormOpens
<1>6. CASE OpenNewTemplateForm
  BY <1>6, FormOpens, MailDefaults DEF OpenNewTemplateForm
<1>7. CASE ListTemplates
  <2>1. listedMail' = mailTemplate
        /\ UNCHANGED <<mailTemplate, sentMails, releases, mailForm, carried>>
    BY <1>7 DEF ListTemplates, mailRows
  <2>2. RevisionsTellDrafts' /\ CopyReleased' /\ MailsWerePublished'
    BY <1>1, <2>1 DEF TableRight, RevisionsTellDrafts, CopyReleased, MailsWerePublished
  <2>3. QED
    BY <1>1, <2>1, <2>2, FormKept
<1>8. ASSUME TypeInForm \/ DismissForm PROVE MailInv'
  <2>1. /\ UNCHANGED <<mailTemplate, sentMails, releases, listedMail>>
    BY <1>8 DEF TypeInForm, DismissForm, mailRows
  <2>2. /\ mailForm' \in MailForm /\ carried' \in BOOLEAN
        /\ FormShowsRow' /\ ClosedFormBlank'
    <3>1. CASE TypeInForm
      <4>1. PICK letter \in Letter :
              mailForm' = [mailForm EXCEPT !.subject = letter.subject,
                                           !.content = letter.content, !.touched = TRUE]
        BY <3>1 DEF TypeInForm
      <4>2. letter.subject \in Texts /\ letter.content \in Texts
        BY DEF Letter
      <4>3. mailForm' \in MailForm /\ mailForm'.touched /\ mailForm'.open = mailForm.open
        BY <1>1, <4>1, <4>2 DEF MailForm
      <4>4. mailForm.open /\ carried' = carried
        BY <3>1 DEF TypeInForm
      <4>5. QED
        BY <1>1, <4>3, <4>4 DEF FormShowsRow, ClosedFormBlank, MailTypeOK
    <3>2. CASE DismissForm
      <4>1. mailForm' = [mailForm EXCEPT !.open = FALSE, !.touched = FALSE] /\ carried' = TRUE
        BY <3>2 DEF DismissForm
      <4>2. mailForm' \in MailForm /\ ~mailForm'.open
        BY <1>1, <4>1 DEF MailForm
      <4>3. QED
        BY <4>1, <4>2 DEF FormShowsRow, ClosedFormBlank
    <3>3. QED
      BY <1>8, <3>1, <3>2
  <2>3. RevisionsTellDrafts' /\ CopyReleased' /\ MailsWerePublished'
    BY <1>1, <2>1 DEF TableRight, RevisionsTellDrafts, CopyReleased, MailsWerePublished
  <2>4. QED
    BY <1>1, <2>1, <2>2, <2>3 DEF MailInv, MailTypeOK
<1>9. CASE SaveTemplateForm
  <2>1. UNCHANGED <<listedMail, sentMails, releases>> /\ LetterOf(mailForm) \in Letter
    BY <1>1, <1>9 DEF SaveTemplateForm, LetterOf, Letter, MailForm
  <2>2. /\ mailTemplate' \in [MailTemplateIds -> MailTemplate]
        /\ RevisionsTellDrafts' /\ CopyReleased'
    <3>1. CASE mailForm.editing = NoTemplate
      <4>1. PICK id \in MailTemplateIds : CreateEmailTemplate(id, LetterOf(mailForm))
        BY <1>9, <3>1 DEF SaveTemplateForm
      <4>2. QED
        BY <1>1, <2>1, <4>1, CreateWrites
    <3>2. CASE mailForm.editing # NoTemplate
      <4>1. /\ UpdateEmailTemplate(mailForm.editing, LetterOf(mailForm))
            /\ mailForm.editing \in MailTemplateIds
        BY <1>1, <1>9, <3>2 DEF SaveTemplateForm, MailForm
      <4>2. QED
        BY <1>1, <2>1, <4>1, UpdateWrites
    <3>3. QED
      BY <3>1, <3>2
  <2>3. /\ mailForm.content \in Texts
        /\ \/ mailForm' = ClosedForm(mailForm.content) /\ carried' = TRUE
           \/ mailForm' = ClosedForm(Blank) /\ carried' = FALSE
    BY <1>1, <1>9 DEF SaveTemplateForm, MailForm
  <2>4. /\ mailForm' \in MailForm /\ carried' \in BOOLEAN /\ ~mailForm'.open
        /\ ~carried' => mailForm' = ClosedForm(Blank)
    BY <2>3, MailDefaults, MailAssumption
  <2>5. QED
    BY <1>1, <2>1, <2>2, <2>4
       DEF MailInv, MailTypeOK, MailsWerePublished, FormShowsRow, ClosedFormBlank
<1>10. CASE UNCHANGED mailVars
  BY <1>10 DEF mailVars, mailRows, MailInv, MailTypeOK, RevisionsTellDrafts, CopyReleased,
               MailsWerePublished, FormShowsRow, ClosedFormBlank
<1>11. QED
  BY <1>2, <1>3, <1>4, <1>5, <1>6, <1>7, <1>8, <1>9, <1>10 DEF MailNext

(* Templates, the list, the form and the mails keep their types.           *)
(* (messaging/repository.ts; email-pages.tsx)                              *)
THEOREM MailTypeCorrect == MailSpec => []MailTypeOK
<1>1. MailInv => MailTypeOK
  BY DEF MailInv
<1>2. QED
  BY <1>1, MailInvInit, MailInvStep, PTL DEF MailSpec

-----------------------------------------------------------------------------
(* InboundMail.  What a receipt has written, by the step it is at.         *)

ReceiptSound ==
  \A r \in Receipts :
    /\ receipt[r] \in {"recording", "enrolling", "answered"} =>
         {r} \X Attachments \subseteq attached
    /\ receipt[r] \in {"enrolling", "answered"} => r \in timeline
    /\ receipt[r] = "answered" => r \in replyEnrolled

InboundInv == InboundTypeOK /\ ReplyRecorded /\ ReceiptSound

LEMMA InboundInvInit == InboundInit => InboundInv
BY DEF InboundInit, InboundInv, InboundTypeOK, ReplyRecorded, ReceiptSound, ReceiptSteps

LEMMA ReceiptMoves ==
  ASSUME InboundTypeOK, NEW r \in Receipts, NEW from, NEW to \in ReceiptSteps,
         ReceiptStep(r, from, to)
  PROVE  /\ receipt[r] = from /\ receipt' \in [Receipts -> ReceiptSteps] /\ receipt'[r] = to
         /\ \A s \in Receipts : s # r => receipt'[s] = receipt[s]
BY DEF InboundTypeOK, ReceiptStep

LEMMA InboundInvStep == InboundInv /\ [InboundNext]_inboundVars => InboundInv'
<1> SUFFICES ASSUME InboundInv, [InboundNext]_inboundVars PROVE InboundInv'
  OBVIOUS
<1> USE DEF InboundInv
<1>1. ASSUME NEW r \in Receipts, ReceiveReply(r) \/ AllPut(r) \/ ReceiptFails(r)
      PROVE  InboundInv'
  <2>1. /\ UNCHANGED <<attached, replies, repliedEvents, timeline, replyEnrolled,
                       identified, replyable>>
    BY <1>1 DEF ReceiveReply, AllPut, ReceiptFails
  <2>2. /\ receipt' \in [Receipts -> ReceiptSteps]
        /\ \A s \in Receipts : s # r => receipt'[s] = receipt[s]
        /\ \/ receipt'[r] \in {"storing", "rejected", "failed"}
           \/ receipt'[r] = "recording" /\ {r} \X Attachments \subseteq attached
    <3>1. CASE ReceiveReply(r)
      BY <3>1, ReceiptMoves DEF ReceiveReply, ReceiptSteps
    <3>2. CASE AllPut(r)
      BY <3>2, ReceiptMoves DEF AllPut, ReceiptSteps
    <3>3. CASE ReceiptFails(r)
      BY <3>3, ReceiptMoves DEF ReceiptFails, ReceiptSteps
    <3>4. QED
      BY <1>1, <3>1, <3>2, <3>3
  <2>3. InboundTypeOK'
    BY <2>1, <2>2 DEF InboundTypeOK
  <2>4. ReplyRecorded'
    BY <2>1, <2>2 DEF ReplyRecorded
  <2>5. ReceiptSound'
    BY <2>1, <2>2 DEF ReceiptSound
  <2>6. QED
    BY <2>3, <2>4, <2>5
<1>2. ASSUME NEW r \in Receipts, NEW a \in Attachments, Put(r, a)
      PROVE  InboundInv'
  <2>1. /\ attached' = attached \cup {<<r, a>>}
        /\ UNCHANGED <<receipt, replies, repliedEvents, timeline, replyEnrolled,
                       identified, replyable>>
    BY <1>2 DEF Put
  <2>2. InboundTypeOK'
    BY <2>1 DEF InboundTypeOK
  <2>3. ReplyRecorded' /\ ReceiptSound'
    BY <2>1 DEF ReplyRecorded, ReceiptSound
  <2>4. QED
    BY <2>2, <2>3
<1>3. ASSUME NEW r \in Receipts, RecordInboundReply(r)
      PROVE  InboundInv'
  <2>1. /\ receipt[r] = "recording" /\ receipt' \in [Receipts -> ReceiptSteps]
        /\ receipt'[r] = "enrolling"
        /\ \A s \in Receipts : s # r => receipt'[s] = receipt[s]
    BY <1>3, ReceiptMoves DEF RecordInboundReply, ReceiptSteps
  <2>2. /\ replies' = replies \cup {r} /\ timeline' = timeline \cup {r}
        /\ repliedEvents' = repliedEvents \cup {IF identified THEN ReplyId ELSE r}
        /\ UNCHANGED <<attached, replyEnrolled, identified, replyable>>
    BY <1>3 DEF RecordInboundReply
  <2>3. {r} \X Attachments \subseteq attached
    BY <2>1 DEF ReceiptSound
  <2>4. InboundTypeOK'
    BY <2>1, <2>2 DEF InboundTypeOK
  <2>5. replies' \X Attachments \subseteq attached'
    BY <2>2, <2>3 DEF ReplyRecorded
  <2>6. ReplyRecorded'
    BY <2>1, <2>2, <2>5 DEF ReplyRecorded
  <2>7. ReceiptSound'
    BY <2>1, <2>2, <2>3 DEF ReceiptSound
  <2>8. QED
    BY <2>4, <2>6, <2>7
<1>4. ASSUME NEW r \in Receipts, EnrollReplied(r)
      PROVE  InboundInv'
  <2>1. /\ receipt[r] = "enrolling" /\ receipt' \in [Receipts -> ReceiptSteps]
        /\ receipt'[r] = "answered"
        /\ \A s \in Receipts : s # r => receipt'[s] = receipt[s]
    BY <1>4, ReceiptMoves DEF EnrollReplied, ReceiptSteps
  <2>2. /\ replyEnrolled' = replyEnrolled \cup {r}
        /\ UNCHANGED <<attached, replies, repliedEvents, timeline, identified, replyable>>
    BY <1>4 DEF EnrollReplied
  <2>3. r \in timeline
    BY <2>1 DEF ReceiptSound
  <2>4. InboundTypeOK'
    BY <2>1, <2>2 DEF InboundTypeOK
  <2>5. ReplyRecorded' /\ ReceiptSound'
    BY <2>1, <2>2, <2>3 DEF ReplyRecorded, ReceiptSound
  <2>6. QED
    BY <2>4, <2>5
<1>5. CASE DeliveryForgotten \/ UNCHANGED inboundVars
  BY <1>5 DEF DeliveryForgotten, inboundVars, InboundTypeOK, ReplyRecorded, ReceiptSound
<1>6. QED
  BY <1>1, <1>2, <1>3, <1>4, <1>5 DEF InboundNext

(* However often and however far a reply is handed over, for any number of *)
(* attachments, it is recorded whole; and a mail that goes out was         *)
(* published as it is, however drafts are edited and forms reopened.       *)
(* (messaging/repository.ts, inbound-worker.ts, email-forms.tsx)           *)
THEOREM MailAlwaysKept == WorkspaceSpec => []MailKept
<1>1. MailInv => MailSound
  BY DEF MailInv, MailSound
<1>2. MailSpec => []MailSound
  BY <1>1, MailInvInit, MailInvStep, PTL DEF MailSpec
<1>3. InboundInv => ReplyRecorded
  BY DEF InboundInv
<1>4. InboundSpec => []ReplyRecorded
  BY <1>3, InboundInvInit, InboundInvStep, PTL DEF InboundSpec
<1>5. MailSound /\ ReplyRecorded => MailKept
  BY DEF MailKept
<1>6. QED
  BY <1>2, <1>4, <1>5, PTL DEF WorkspaceSpec

-----------------------------------------------------------------------------
(* Maintenance.  The size of a selection of the oldest.                    *)

LEMMA OldestBounded ==
  ASSUME NEW S \in SUBSET Nat, IsFiniteSet(S), NEW Size \in Nat
  PROVE  /\ OldestOf(S, Size) \subseteq S
         /\ IsFiniteSet(OldestOf(S, Size))
         /\ Cardinality(OldestOf(S, Size)) <= Size
<1> DEFINE O == OldestOf(S, Size)
<1>1. O \subseteq S /\ IsFiniteSet(O)
  BY FS_Subset DEF OldestOf
<1>2. Cardinality(O) <= Size
  <2>1. CASE O = {}
    BY <2>1, FS_EmptySet
  <2>2. CASE O # {}
    <3>1. O \in SUBSET Nat
      BY <1>1
    <3> HIDE DEF O
    <3>2. PICK x \in O : \A y \in O : y <= x
      BY <1>1, <2>2, <3>1, MostNumber
    <3> DEFINE upTo == {f \in S : f <= x}
    <3>3. /\ Cardinality(upTo) <= Size
      BY <3>2 DEF O, OldestOf
    <3>4. O \subseteq upTo /\ IsFiniteSet(upTo)
      BY <1>1, <3>2, FS_Subset
    <3> HIDE DEF upTo
    <3>5. /\ Cardinality(O) <= Cardinality(upTo)
          /\ Cardinality(O) \in Nat /\ Cardinality(upTo) \in Nat
      BY <3>4, <1>1, FS_Subset, FS_CardinalityType
    <3>6. QED
      BY <3>3, <3>5
  <2>3. QED
    BY <2>1, <2>2
<1>3. QED
  BY <1>1, <1>2

\* A selection is of expired events and fits an object; what is being marked
\* is in one.  A day with a metric is over, and no run is ahead of the calendar.
DailyRows ==
  /\ daily.rows \subseteq expired
  /\ DailyAt("put") => IsFiniteSet(daily.rows) /\ Cardinality(daily.rows) <= ArchiveLimit
  /\ DailyAt("mark") => daily.rows \subseteq UNION archives
DaysOver ==
  /\ ~DailyAt("idle") => calendar >= 1
  /\ ranOn <= calendar
  /\ \A day \in MetricDays : metric[day] # NoMetric => day < calendar

MaintenanceInv ==
  /\ MaintenanceTypeOK /\ DailySound /\ DailyRows /\ DaysOver

LEMMA MaintenanceInvInit == MaintenanceInit => MaintenanceInv
<1> SUFFICES ASSUME MaintenanceInit PROVE MaintenanceInv
  OBVIOUS
<1>1. 0 \in MetricDays /\ 0 \in 0 .. MaxOnDay /\ NoMetric \in 0 .. NoMetric
  BY MaintenanceAssumption DEF MetricDays, NoMetric
<1>2. MaintenanceTypeOK
  BY <1>1 DEF MaintenanceInit, MaintenanceTypeOK, DailySteps
<1>3. QED
  BY <1>2
     DEF MaintenanceInit, MaintenanceInv, DailySound, ArchivedIsKept, MetricsAddUp,
         DailyRows, DaysOver, DailyAt

LEMMA MaintenanceInvStep ==
  MaintenanceInv /\ [MaintenanceNext]_maintenanceVars => MaintenanceInv'
<1> SUFFICES ASSUME MaintenanceInv, [MaintenanceNext]_maintenanceVars PROVE MaintenanceInv'
  OBVIOUS
<1>0. /\ expired \subseteq OldEvents /\ OldEvents \subseteq Nat /\ IsFiniteSet(expired)
      /\ daily.step \in DailySteps /\ daily.rows \subseteq OldEvents
      /\ calendar \in Nat /\ calendar <= LastMetricDay /\ LastMetricDay \in Nat
      /\ marked \subseteq expired
  <2>1. /\ expired \subseteq OldEvents /\ marked \subseteq expired
        /\ daily.step \in DailySteps /\ daily.rows \subseteq OldEvents
    BY DEF MaintenanceInv, MaintenanceTypeOK
  <2>2. calendar \in Nat /\ calendar <= LastMetricDay /\ LastMetricDay \in Nat
    BY MaintenanceAssumption DEF MaintenanceInv, MaintenanceTypeOK, MetricDays
  <2>3. OldEvents \subseteq Nat /\ IsFiniteSet(expired)
    BY <2>1, MaintenanceAssumption, FS_Subset
  <2>4. QED
    BY <2>1, <2>2, <2>3
<1> USE DEF MaintenanceInv
<1>1. CASE NextDay
  <2>1. /\ calendar' = calendar + 1 /\ calendar' \in MetricDays
        /\ incomplete' = IF ranOn = calendar /\ DailyAt("idle") THEN incomplete
                         ELSE incomplete \cup {calendar}
        /\ UNCHANGED <<expired, marked, archives, daily, ranOn, delivered, metric, late>>
    BY <1>0, <1>1 DEF NextDay, MetricDays
  <2>2. MaintenanceTypeOK'
    BY <2>1 DEF MaintenanceTypeOK
  <2>3. ASSUME NEW day \in MetricDays, RunCompleted(day + 1)'
        PROVE  RunCompleted(day + 1)
    BY <1>0, <2>1, <2>3 DEF RunCompleted, DailyAt, DaysOver, MetricDays, MaintenanceTypeOK
  <2>4. DailySound' /\ DailyRows'
    BY <2>1, <2>3 DEF DailySound, ArchivedIsKept, MetricsAddUp, DailyRows, DailyAt
  <2>5. \A day \in MetricDays : day < calendar => day < calendar'
    BY <1>0, <2>1 DEF MetricDays
  <2>6. DaysOver'
    BY <1>0, <2>1, <2>5 DEF DaysOver, DailyAt, MaintenanceTypeOK, MetricDays
  <2>7. QED
    BY <2>2, <2>4, <2>6
<1>2. CASE Expire
  <2>1. PICK e \in OldEvents \ expired : expired' = expired \cup {e}
    BY <1>2 DEF Expire
  <2>2. UNCHANGED <<marked, archives, daily, calendar, ranOn, delivered, metric, late, incomplete>>
    BY <1>2 DEF Expire, calendarVars, metricVars
  <2>3. QED
    BY <2>1, <2>2
       DEF MaintenanceTypeOK, DailySound, ArchivedIsKept, MetricsAddUp, DailyRows, DaysOver,
           DailyAt, RunCompleted
<1>3. CASE RecordDeliveryEvent
  <2>1. PICK day \in 0 .. calendar :
          /\ delivered[day] < MaxOnDay
          /\ delivered' = [delivered EXCEPT ![day] = delivered[day] + 1]
          /\ late' = IF day < calendar THEN late \cup {day} ELSE late
    BY <1>3 DEF RecordDeliveryEvent
  <2>2. UNCHANGED <<expired, marked, archives, daily, calendar, ranOn, metric, incomplete>>
    BY <1>3 DEF RecordDeliveryEvent
  <2>3. day \in MetricDays /\ delivered[day] + 1 \in 0 .. MaxOnDay
    BY <1>0, <2>1, MaintenanceAssumption DEF MaintenanceTypeOK, MetricDays
  <2>4. late' \subseteq MetricDays /\ late \subseteq late'
    BY <2>1, <2>3 DEF MaintenanceTypeOK
  <2>5. /\ delivered' \in [MetricDays -> 0 .. MaxOnDay]
        /\ \A d \in MetricDays : d # day => delivered'[d] = delivered[d]
    BY <2>1, <2>3 DEF MaintenanceTypeOK
  <2>6. MaintenanceTypeOK'
    BY <2>2, <2>4, <2>5 DEF MaintenanceTypeOK
  <2>7. MetricsAddUp'
    <3>1. metric[day] # NoMetric \/ RunCompleted(day + 1) => day \in late'
      BY <1>0, <2>1, <2>3 DEF DaysOver, RunCompleted, MaintenanceTypeOK, MetricDays
    <3>2. \A d \in MetricDays : RunCompleted(d + 1)' = RunCompleted(d + 1)
      BY <2>2 DEF RunCompleted, DailyAt
    <3>3. QED
      BY <2>2, <2>4, <2>5, <3>1, <3>2 DEF DailySound, MetricsAddUp
  <2>8. QED
    BY <2>2, <2>6, <2>7 DEF DailySound, ArchivedIsKept, DailyRows, DaysOver, DailyAt
<1>4. CASE StartDaily
  <2>1. /\ ranOn < calendar /\ ranOn' = calendar
        /\ daily' = [step |-> "find", rows |-> {}]
        /\ UNCHANGED <<expired, marked, archives, calendar, delivered, metric, late, incomplete>>
    BY <1>4 DEF StartDaily, DailyGo
  <2>2. calendar >= 1
    BY <1>0, <2>1 DEF MaintenanceTypeOK, MetricDays
  <2>3. MaintenanceTypeOK'
    BY <2>1 DEF MaintenanceTypeOK, DailySteps
  <2>4. \A day \in MetricDays : RunCompleted(day + 1)' => RunCompleted(day + 1)
    BY <1>0, <2>1 DEF RunCompleted, DailyAt, MetricDays
  <2>5. QED
    BY <1>0, <2>1, <2>2, <2>3, <2>4
       DEF DailySound, ArchivedIsKept, MetricsAddUp, DailyRows, DaysOver, DailyAt
<1>5. CASE FindEventsToArchive
  <2> DEFINE rows == OldestOf(expired \ marked, ArchiveLimit)
  <2>1. /\ DailyAt("find")
        /\ daily' = [step |-> IF rows = {} THEN "rollup" ELSE "put", rows |-> rows]
        /\ UNCHANGED <<expired, marked, archives, calendar, ranOn, delivered, metric, late, incomplete>>
    BY <1>5 DEF FindEventsToArchive, DailyGo, calendarVars, metricVars
  <2>2. /\ rows \subseteq expired \ marked /\ IsFiniteSet(rows)
        /\ Cardinality(rows) <= ArchiveLimit
    <3>1. expired \ marked \in SUBSET Nat /\ IsFiniteSet(expired \ marked)
      BY <1>0, FS_Subset
    <3>2. QED
      BY <3>1, MaintenanceAssumption, OldestBounded
  <2> HIDE DEF rows
  <2>3. MaintenanceTypeOK'
    BY <1>0, <2>1, <2>2 DEF MaintenanceTypeOK, DailySteps
  <2>4. DailyRows' /\ DaysOver'
    BY <2>1, <2>2 DEF DailyRows, DaysOver, DailyAt
  <2>5. \A day \in MetricDays : RunCompleted(day + 1)' => RunCompleted(day + 1)
    BY <2>1 DEF RunCompleted, DailyAt
  <2>6. QED
    BY <2>1, <2>3, <2>4, <2>5 DEF DailySound, ArchivedIsKept, MetricsAddUp
<1>6. CASE PutArchive
  <2>1. /\ DailyAt("put") /\ archives' = archives \cup {daily.rows}
        /\ daily' = [step |-> "mark", rows |-> daily.rows]
        /\ UNCHANGED <<expired, marked, calendar, ranOn, delivered, metric, late, incomplete>>
    BY <1>6 DEF PutArchive, DailyGo, calendarVars, metricVars
  <2>2. MaintenanceTypeOK'
    BY <1>0, <2>1 DEF MaintenanceTypeOK, DailySteps
  <2>3. DailySound'
    <3>1. \A day \in MetricDays : RunCompleted(day + 1)' => RunCompleted(day + 1)
      BY <2>1 DEF RunCompleted, DailyAt
    <3>2. QED
      BY <2>1, <3>1 DEF DailySound, ArchivedIsKept, MetricsAddUp, DailyRows
  <2>4. DailyRows' /\ DaysOver'
    BY <2>1 DEF DailyRows, DaysOver, DailyAt
  <2>5. QED
    BY <2>2, <2>3, <2>4
<1>7. CASE ArchiveEvents
  <2> DEFINE chunk == OldestOf(daily.rows, ChunkSize)
             left == daily.rows \ chunk
  <2>1. /\ DailyAt("mark") /\ marked' = marked \cup chunk
        /\ daily' = [step |-> IF left = {} THEN "rollup" ELSE "mark", rows |-> left]
        /\ UNCHANGED <<expired, archives, calendar, ranOn, delivered, metric, late, incomplete>>
    BY <1>7 DEF ArchiveEvents, DailyGo, calendarVars, metricVars
  <2>2. chunk \subseteq daily.rows
    BY DEF OldestOf
  <2> HIDE DEF chunk
  <2>3. MaintenanceTypeOK'
    BY <1>0, <2>1, <2>2 DEF MaintenanceTypeOK, DailyRows, DailySteps
  <2>4. DailySound'
    <3>1. \A day \in MetricDays : RunCompleted(day + 1)' => RunCompleted(day + 1)
      BY <2>1 DEF RunCompleted, DailyAt
    <3>2. QED
      BY <2>1, <2>2, <3>1 DEF DailySound, ArchivedIsKept, MetricsAddUp, DailyRows
  <2>5. DailyRows' /\ DaysOver'
    BY <2>1, <2>2 DEF DailyRows, DaysOver, DailyAt
  <2>6. QED
    BY <2>3, <2>4, <2>5
<1>8. CASE RollupDailyMetrics
  <2> DEFINE yesterday == calendar - 1
  <2>1. /\ DailyAt("rollup") /\ daily' = [step |-> "idle", rows |-> {}]
        /\ metric' = IF delivered[yesterday] = 0 THEN metric
                     ELSE [metric EXCEPT ![yesterday] = delivered[yesterday]]
        /\ UNCHANGED <<expired, marked, archives, calendar, ranOn, delivered, late, incomplete>>
    BY <1>8 DEF RollupDailyMetrics, DailyGo
  <2>2. yesterday \in MetricDays /\ yesterday < calendar
    <3>1. calendar >= 1
      BY <2>1 DEF DaysOver, DailyAt
    <3>2. QED
      BY <1>0, <3>1 DEF MetricDays
  <2> HIDE DEF yesterday
  <2>3. delivered[yesterday] \in 0 .. MaxOnDay /\ 0 .. MaxOnDay \subseteq 0 .. NoMetric
    BY <2>2, MaintenanceAssumption DEF MaintenanceTypeOK, NoMetric
  <2>4. /\ metric' \in [MetricDays -> 0 .. NoMetric]
        /\ \A d \in MetricDays \ {yesterday} : metric'[d] = metric[d]
        /\ metric'[yesterday] \in {metric[yesterday], delivered[yesterday]}
    BY <2>1, <2>2, <2>3 DEF MaintenanceTypeOK
  <2>5. MaintenanceTypeOK'
    BY <2>1, <2>4 DEF MaintenanceTypeOK, DailySteps
  <2>6. DailySound'
    <3>1. ASSUME NEW day \in MetricDays, RunCompleted(day + 1)', ~RunCompleted(day + 1)
          PROVE  day = yesterday
      BY <1>0, <2>1, <3>1 DEF RunCompleted, DailyAt, DaysOver, MetricDays, MaintenanceTypeOK, yesterday
    <3>2. /\ delivered[yesterday] > 0 => metric'[yesterday] = delivered[yesterday]
          /\ delivered[yesterday] # NoMetric
      BY <2>1, <2>2, <2>3, MaintenanceAssumption DEF MaintenanceTypeOK, NoMetric
    <3>3. ASSUME NEW day \in MetricDays \ late
          PROVE  /\ metric'[day] # NoMetric => metric'[day] = delivered[day]
                 /\ RunCompleted(day + 1)' /\ delivered[day] > 0 => metric'[day] # NoMetric
      BY <2>4, <3>1, <3>2 DEF DailySound, MetricsAddUp
    <3>4. QED
      BY <2>1, <3>3 DEF DailySound, ArchivedIsKept, MetricsAddUp
  <2>7. DailyRows' /\ DaysOver'
    BY <2>1, <2>2, <2>4 DEF DailyRows, DaysOver, DailyAt
  <2>8. QED
    BY <2>5, <2>6, <2>7
<1>9. CASE DailyDies
  <2>1. /\ daily' = [step |-> "idle", rows |-> {}]
        /\ incomplete' = incomplete \cup {ranOn} /\ ~DailyAt("idle")
        /\ UNCHANGED <<expired, marked, archives, calendar, ranOn, delivered, metric, late>>
    BY <1>9 DEF DailyDies, DailyGo, metricVars
  <2>2. MaintenanceTypeOK'
    BY <2>1 DEF MaintenanceTypeOK, DailySteps
  <2>3. \A day \in MetricDays : RunCompleted(day + 1)' => RunCompleted(day + 1)
    BY <2>1 DEF RunCompleted
  <2>4. QED
    BY <2>1, <2>2, <2>3
       DEF DailySound, ArchivedIsKept, MetricsAddUp, DailyRows, DaysOver, DailyAt
<1>10. CASE UNCHANGED maintenanceVars
  BY <1>10 DEF maintenanceVars, MaintenanceTypeOK, DailySound, ArchivedIsKept, MetricsAddUp,
               DailyRows, DaysOver, DailyAt, RunCompleted
<1>11. QED
  BY <1>1, <1>2, <1>3, <1>4, <1>5, <1>6, <1>7, <1>8, <1>9, <1>10 DEF MaintenanceNext

(* Wherever a daily run dies, for any number of events, archives and days: *)
(* an event that is marked is in an object, an object is within the limit, *)
(* a day's row counts all its events and a day with events has a row when  *)
(* the next day's run came to its end that day, or one of them came late.  *)
(* (maintenance-worker.ts, maintenance-repository.ts)                      *)
THEOREM MaintenanceAlwaysSound == WorkspaceSpec => [](MaintenanceTypeOK /\ DailySound)
<1>1. MaintenanceInv => MaintenanceTypeOK /\ DailySound
  BY DEF MaintenanceInv
<1>2. MaintenanceSpec => [](MaintenanceTypeOK /\ DailySound)
  BY <1>1, MaintenanceInvInit, MaintenanceInvStep, PTL DEF MaintenanceSpec
<1>3. QED
  BY <1>2, PTL DEF WorkspaceSpec

-----------------------------------------------------------------------------
(* Whatever is written while a report is put together, and wherever a      *)
(* daily run dies: the parts of a report that nothing was written under    *)
(* add up to its totals, a day's row counts what was delivered that day    *)
(* unless some of it was recorded later, a day whose run on the day after  *)
(* came to its end has one, and no event is archived that no object holds. *)
(* (reports/repository.ts; maintenance-worker.ts)                          *)
THEOREM HistoryAlwaysAddsUp == WorkspaceSpec => []HistoryAddsUp
<1>1. WorkspaceSpec => []ReportsAddUp
  BY ReportsAlwaysAddUp, PTL DEF WorkspaceSpec
<1>2. ReportsAddUp /\ MaintenanceTypeOK /\ DailySound => HistoryAddsUp
  BY DEF HistoryAddsUp
<1>3. QED
  BY <1>1, <1>2, MaintenanceAlwaysSound, PTL

-----------------------------------------------------------------------------
(* The editor never saves a graph that the server must refuse for its      *)
(* shape, whatever render its handlers belong to, and the server's check   *)
(* passes exactly the drafts that the engine can run, in whatever order    *)
(* their edges are.  (use-automation-builder.ts; automation.ts             *)
(* validateAutomation)                                                     *)
THEOREM GraphsAlwaysSound == WorkspaceSpec => []GraphsSound
<1>1. BuilderTypeOK /\ BuiltGraphSound /\ DraftTypeOK /\ ValidationSound => GraphsSound
  BY DEF GraphsSound
<1>2. WorkspaceSpec => BuilderSpec /\ DraftSpec
  BY DEF WorkspaceSpec
<1>3. QED
  BY <1>1, <1>2, BuiltGraphAlwaysSound, ValidationAlwaysSound, PTL

(* The rows, objects, requests and calls of every component stay of their  *)
(* types: a request that resumes finds what it left, a definition is never *)
(* without a kind for a node, and a report answers what its queries ask.   *)
(* (the schemas in packages/database/src and packages/core/src)            *)
THEOREM TypesAlwaysOK == WorkspaceSpec => []TypesOK
<1>1. InboundSpec => []InboundTypeOK
  <2>1. InboundInv => InboundTypeOK
    BY DEF InboundInv
  <2>2. QED
    BY <2>1, InboundInvInit, InboundInvStep, PTL DEF InboundSpec
<1>2. ReportSpec => []ReportTypeOK
  BY ReportAlwaysInv, ReportTypes, PTL
<1>3. WorkspaceSpec =>
        /\ AssetSpec /\ DealSpec /\ AccessSpec /\ ProvisionSpec
        /\ WebSpec /\ VisitorSpec /\ MailSpec /\ InboundSpec
        /\ ReportSpec /\ BuilderSpec /\ DraftSpec
  BY DEF WorkspaceSpec
<1>4. WorkspaceSpec => [](/\ AssetTypeOK /\ DealTypeOK /\ AccessTypeOK /\ ProvisionTypeOK)
  BY <1>3, AssetTypeCorrect, DealTypeCorrect, AccessTypeCorrect, ProvisionTypeCorrect, PTL
<1>5. WorkspaceSpec => [](/\ WebTypeOK /\ VisitorTypeOK /\ MailTypeOK /\ InboundTypeOK)
  BY <1>1, <1>3, WebTypeCorrect, VisitorTypeCorrect, MailTypeCorrect, PTL
<1>6. WorkspaceSpec => [](/\ ReportTypeOK /\ BuilderTypeOK /\ BuiltGraphSound
                          /\ DraftTypeOK /\ ValidationSound)
  BY <1>2, <1>3, BuiltGraphAlwaysSound, ValidationAlwaysSound, PTL
<1>7. (/\ AssetTypeOK /\ DealTypeOK /\ AccessTypeOK /\ ProvisionTypeOK
       /\ WebTypeOK /\ VisitorTypeOK /\ MailTypeOK /\ InboundTypeOK
       /\ ReportTypeOK /\ BuilderTypeOK /\ DraftTypeOK /\ MaintenanceTypeOK) => TypesOK
  BY DEF TypesOK
<1>8. QED
  BY <1>4, <1>5, <1>6, <1>7, MaintenanceAlwaysSound, PTL

=============================================================================
