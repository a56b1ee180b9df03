------------------------------ MODULE Website ------------------------------
(***************************************************************************)
(* The website resources of a workspace: sign-up forms and their           *)
(* submissions, landing pages and their versions, site messages and their  *)
(* counters.                                                               *)
(*                                                                         *)
(*   packages/database/src/web/repository.ts        the SQL                *)
(*   apps/server/src/web/router.ts                  the members' requests  *)
(*   apps/server/src/public/form-routes.ts          a visitor's submission *)
(*   apps/server/src/public/site-message-routes.ts  a visitor's beacon     *)
(*                                                                         *)
(* A form and a page are their status; names, definitions, contents,       *)
(* domains and the Turnstile check (which only refuse) are left out.       *)
(***************************************************************************)
EXTENDS Naturals, FiniteSets

CONSTANTS
  Forms, Pages, Messages,   \* ids of the three resources
  SubmissionKeys,           \* idempotency keys visitors send
  Emails,                   \* addresses visitors give
  NoEmail,                  \* a submission without a valid address
  MaxVersion,               \* bound: versions of a page or a form
  MaxCount,                 \* bound: impressions of a message
  WebRequests               \* concurrent requests

ASSUME WebsiteAssumption ==
  /\ NoEmail \notin Emails
  /\ MaxVersion \in Nat \ {0} /\ MaxCount \in Nat

PublishStatus == {"none", "draft", "published", "archived"}
Written == {"draft", "published"}

(* The columns that are kept of the four tables; a landing page's versions *)
(* are a function from their numbers to whether they were published.       *)
FormRow == [status : PublishStatus, version : Nat]
SubmissionRow == [form : Forms, key : SubmissionKeys, email : Emails \cup {NoEmail}]
PageRow == [status : PublishStatus, current : Nat]
IsVersions(versions) == versions \in [DOMAIN versions -> BOOLEAN]
MessageRow == [status : PublishStatus, impressions : Nat]

VARIABLES
  formRow,       \* Forms -> status and version
  submissions,   \* the rows: form, key and address of the contact
  known,         \* the addresses contacts hold
  joined,        \* Emails -> contact_created events of the contact
  submitted,     \* Forms -> SubmissionKeys -> form_submitted events
  pageRow,       \* Pages -> status and current version
  pageVersions,  \* Pages -> version number -> was it published
  messageRow,    \* Messages -> status and impression count
  viewed,        \* Messages -> site_message_viewed events
  webReq         \* WebRequests -> what the request is about to do

formVars == <<formRow, submissions, known, joined, submitted>>
pageVars == <<pageRow, pageVersions>>
messageVars == <<messageRow, viewed>>
webVars == <<formVars, pageVars, messageVars, webReq>>

IdleWeb == [step |-> "idle"]
SubmissionSteps == {"createContact", "contactEvent", "insertSubmission", "submittedEvent"}
WebRequestState ==
  {IdleWeb}
    \cup [step : SubmissionSteps, form : Forms, key : SubmissionKeys,
          email : Emails \cup {NoEmail}]
    \cup [step : {"insertVersion"}, page : Pages, version : Nat, status : Written]
    \cup [step : {"viewedEvent"}, message : Messages]

WebTypeOK ==
  /\ formRow \in [Forms -> FormRow]
  /\ submissions \subseteq SubmissionRow
  /\ known \subseteq Emails
  /\ joined \in [Emails -> Nat]
  /\ submitted \in [Forms -> [SubmissionKeys -> Nat]]
  /\ pageRow \in [Pages -> PageRow]
  /\ pageVersions = [p \in Pages |-> pageVersions[p]]
  /\ \A p \in Pages : IsVersions(pageVersions[p])
  /\ messageRow \in [Messages -> MessageRow]
  /\ viewed \in [Messages -> Nat]
  /\ webReq \in [WebRequests -> WebRequestState]

WebInit ==
  /\ formRow = [f \in Forms |-> [status |-> "none", version |-> 0]]
  /\ submissions = {}
  /\ known = {}
  /\ joined = [e \in Emails |-> 0]
  /\ submitted = [f \in Forms |-> [k \in SubmissionKeys |-> 0]]
  /\ pageRow = [p \in Pages |-> [status |-> "none", current |-> 0]]
  /\ pageVersions = [p \in Pages |-> [v \in {} |-> FALSE]]
  /\ messageRow = [m \in Messages |-> [status |-> "none", impressions |-> 0]]
  /\ viewed = [m \in Messages |-> 0]
  /\ webReq = [r \in WebRequests |-> IdleWeb]

At(r, step) == webReq[r].step = step
Proceed(r, state) == webReq' = [webReq EXCEPT ![r] = state]
Answer(r) == Proceed(r, IdleWeb)

-----------------------------------------------------------------------------
(* createSignupForm, updateSignupForm and archiveSignupForm: one statement *)
(* each; an archived form is never updated.                                *)

CreateSignupForm(f, status) ==
  /\ formRow[f].status = "none"
  /\ formRow' = [formRow EXCEPT ![f] = [status |-> status, version |-> 1]]
  /\ UNCHANGED <<submissions, known, joined, submitted, pageVars, messageVars, webReq>>

UpdateSignupForm(f, status) ==
  /\ formRow[f].status \in Written
  /\ formRow[f].version < MaxVersion
  /\ formRow' = [formRow EXCEPT ![f] = [status |-> status, version |-> @.version + 1]]
  /\ UNCHANGED <<submissions, known, joined, submitted, pageVars, messageVars, webReq>>

ArchiveSignupForm(f) ==
  /\ formRow[f].status \in Written
  /\ formRow' = [formRow EXCEPT ![f].status = "archived"]
  /\ UNCHANGED <<submissions, known, joined, submitted, pageVars, messageVars, webReq>>

(* A visitor submits: the form is looked up, then the contact with the     *)
(* address, which is created if there is none.  (An update of the names of *)
(* a contact that exists changes nothing here.)                            *)
FindPublishedForm(r, f, key, email) ==
  /\ At(r, "idle")
  /\ formRow[f].status = "published"
  /\ Proceed(r, [step |-> IF email \in Emails \ known THEN "createContact"
                          ELSE "insertSubmission",
                 form |-> f, key |-> key, email |-> email])
  /\ UNCHANGED <<formVars, pageVars, messageVars>>

(* The unique address rejects the second of two requests that found none:  *)
(* it fails as a whole.                                                    *)
CreateContactFromFormSubmission(r) ==
  LET q == webReq[r]
  IN /\ At(r, "createContact")
     /\ known' = known \cup {q.email}
     /\ IF q.email \in known THEN Answer(r)
        ELSE Proceed(r, [q EXCEPT !.step = "contactEvent"])
     /\ UNCHANGED <<formRow, submissions, joined, submitted, pageVars, messageVars>>

RecordContactCreated(r) ==
  LET q == webReq[r]
  IN /\ At(r, "contactEvent")
     /\ joined' = [joined EXCEPT ![q.email] = @ + 1]
     /\ Proceed(r, [q EXCEPT !.step = "insertSubmission"])
     /\ UNCHANGED <<formRow, submissions, known, submitted, pageVars, messageVars>>

IsDuplicate(q) == \E s \in submissions : s.form = q.form /\ s.key = q.key

(* The unique key rejects a repeated submission, which is answered as a    *)
(* duplicate without an event.                                             *)
InsertFormSubmission(r) ==
  LET q == webReq[r]
  IN /\ At(r, "insertSubmission")
     /\ IF IsDuplicate(q)
          THEN submissions' = submissions /\ Answer(r)
          ELSE /\ submissions' = submissions \cup
                    {[form |-> q.form, key |-> q.key, email |-> q.email]}
               /\ Proceed(r, [q EXCEPT !.step = "submittedEvent"])
     /\ UNCHANGED <<formRow, known, joined, submitted, pageVars, messageVars>>

RecordFormSubmitted(r) ==
  LET q == webReq[r]
  IN /\ At(r, "submittedEvent")
     /\ submitted' = [submitted EXCEPT ![q.form][q.key] = @ + 1]
     /\ Answer(r)
     /\ UNCHANGED <<formRow, submissions, known, joined, pageVars, messageVars>>

FormNext ==
  \/ \E f \in Forms, status \in Written : CreateSignupForm(f, status) \/ UpdateSignupForm(f, status)
  \/ \E f \in Forms : ArchiveSignupForm(f)
  \/ \E r \in WebRequests :
       \/ \E f \in Forms, key \in SubmissionKeys, email \in Emails \cup {NoEmail} :
            FindPublishedForm(r, f, key, email)
       \/ CreateContactFromFormSubmission(r) \/ RecordContactCreated(r)
       \/ InsertFormSubmission(r) \/ RecordFormSubmitted(r)

-----------------------------------------------------------------------------
(* createLandingPage: the page and its first version, in one batch.        *)
CreateLandingPage(p, status) ==
  /\ pageRow[p].status = "none"
  /\ pageRow' = [pageRow EXCEPT ![p] = [status |-> status, current |-> 1]]
  /\ pageVersions' = [pageVersions EXCEPT ![p] = [v \in {1} |-> status = "published"]]
  /\ UNCHANGED <<formVars, messageVars, webReq>>

(* updateLandingPage: the status is looked at, the next version number is  *)
(* read, then the version is inserted and the page led to it in one batch, *)
(* which the unique number rejects when another edit took it.  (The two    *)
(* reads are one step: a version is never deleted, and the later write     *)
(* looks at the number only.)                                              *)
ReadMaxVersion(r, p, status) ==
  /\ At(r, "idle")
  /\ pageRow[p].status \in Written
  /\ \E max \in DOMAIN pageVersions[p] :
       /\ \A v \in DOMAIN pageVersions[p] : v <= max
       /\ max < MaxVersion
       /\ Proceed(r, [step |-> "insertVersion", page |-> p, version |-> max + 1,
                      status |-> status])
  /\ UNCHANGED <<formVars, pageVars, messageVars>>

WithVersion(versions, n, published) ==
  [v \in DOMAIN versions \cup {n} |-> IF v = n THEN published ELSE versions[v]]

UpdateLandingPage_TwoStatements(r) ==
  LET q == webReq[r]
      taken == q.version \in DOMAIN pageVersions[q.page]
  IN /\ At(r, "insertVersion")
     /\ pageRow' = [pageRow EXCEPT ![q.page] = [status |-> q.status, current |-> q.version]]
     /\ pageVersions' = IF taken THEN pageVersions
                        ELSE [pageVersions EXCEPT ![q.page] =
                                WithVersion(@, q.version, q.status = "published")]
     /\ Answer(r)
     /\ UNCHANGED <<formVars, messageVars>>

UpdateLandingPage(r) ==
  LET q == webReq[r]
      taken == q.version \in DOMAIN pageVersions[q.page]
  IN /\ At(r, "insertVersion")
     /\ IF taken THEN UNCHANGED pageVars
        ELSE /\ pageRow' = [pageRow EXCEPT ![q.page] = [status  |-> q.status,
                                                        current |-> q.version]]
             /\ pageVersions' = [pageVersions EXCEPT ![q.page] =
                                   WithVersion(@, q.version, q.status = "published")]
     /\ Answer(r)
     /\ UNCHANGED <<formVars, messageVars>>

ArchiveLandingPage(p) ==
  /\ pageRow[p].status \in Written
  /\ pageRow' = [pageRow EXCEPT ![p].status = "archived"]
  /\ UNCHANGED <<formVars, pageVersions, messageVars, webReq>>

PageNext ==
  \/ \E p \in Pages, status \in Written : CreateLandingPage(p, status)
  \/ \E p \in Pages : ArchiveLandingPage(p)
  \/ \E r \in WebRequests, p \in Pages, status \in Written : ReadMaxVersion(r, p, status)
  \/ \E r \in WebRequests : UpdateLandingPage(r)

-----------------------------------------------------------------------------
(* createSiteMessage, updateSiteMessage and archiveSiteMessage.            *)
CreateSiteMessage(m, status) ==
  /\ messageRow[m].status = "none"
  /\ messageRow' = [messageRow EXCEPT ![m] = [status |-> status, impressions |-> 0]]
  /\ UNCHANGED <<formVars, pageVars, viewed, webReq>>

UpdateSiteMessage(m, status) ==
  /\ messageRow[m].status \in Written
  /\ messageRow' = [messageRow EXCEPT ![m].status = status]
  /\ UNCHANGED <<formVars, pageVars, viewed, webReq>>

ArchiveSiteMessage(m) ==
  /\ messageRow[m].status \in Written
  /\ messageRow' = [messageRow EXCEPT ![m].status = "archived"]
  /\ UNCHANGED <<formVars, pageVars, viewed, webReq>>

(* A beacon from a known visitor: a published message is counted, then the *)
(* view is put on the contact's timeline.  (A click does the same to a     *)
(* counter of its own.)                                                    *)
IncrementSiteMessageCounter(r, m) ==
  /\ At(r, "idle")
  /\ messageRow[m].status = "published"
  /\ messageRow[m].impressions < MaxCount
  /\ messageRow' = [messageRow EXCEPT ![m].impressions = @ + 1]
  /\ Proceed(r, [step |-> "viewedEvent", message |-> m])
  /\ UNCHANGED <<formVars, pageVars, viewed>>

RecordSiteMessageEvent(r) ==
  LET m == webReq[r].message
  IN /\ At(r, "viewedEvent")
     /\ viewed' = [viewed EXCEPT ![m] = @ + 1]
     /\ Answer(r)
     /\ UNCHANGED <<formVars, pageVars, messageRow>>

MessageNext ==
  \/ \E m \in Messages, status \in Written : CreateSiteMessage(m, status) \/ UpdateSiteMessage(m, status)
  \/ \E m \in Messages : ArchiveSiteMessage(m)
  \/ \E r \in WebRequests, m \in Messages : IncrementSiteMessageCounter(r, m)
  \/ \E r \in WebRequests : RecordSiteMessageEvent(r)

-----------------------------------------------------------------------------
(* A request dies, or one of its awaits throws (an insert of a submission  *)
(* that throws is answered as a duplicate).                                *)
WebRequestDies(r) ==
  /\ webReq[r] # IdleWeb
  /\ Answer(r)
  /\ UNCHANGED <<formVars, pageVars, messageVars>>

WebNext == FormNext \/ PageNext \/ MessageNext \/ \E r \in WebRequests : WebRequestDies(r)

WebSpec == WebInit /\ [][WebNext]_webVars

-----------------------------------------------------------------------------
(* A request that is made again under its idempotency key, twice at once   *)
(* or after an answer that was lost, is counted once: one row and at most  *)
(* one form_submitted event per key, an event only for a row that is       *)
(* stored, one contact_created event per contact and a contact behind      *)
(* every submission with an address.  A submission whose request dies in   *)
(* between may have no event.  The page itself makes a new key whenever    *)
(* the visitor presses the button (public/templates.ts:202): who sends a   *)
(* form again makes another submission, with an event of its own.          *)
(* (public/form-routes.ts POST /f)                                         *)
SubmittedOnce ==
  /\ \A s, t \in submissions : s.form = t.form /\ s.key = t.key => s = t
  /\ \A s \in submissions : s.email = NoEmail \/ s.email \in known
  /\ \A f \in Forms, k \in SubmissionKeys :
       LET stored == \E s \in submissions : s.form = f /\ s.key = k
       IN submitted[f][k] <= (IF stored THEN 1 ELSE 0)
  /\ \A e \in Emails : joined[e] <= (IF e \in known THEN 1 ELSE 0)

(* What a landing page shows is its newest version: edits that race for a  *)
(* number leave the numbers without a gap and the page at the last of      *)
(* them, and a page that is live shows a version that was published.       *)
(* (web/repository.ts updateLandingPage)                                   *)
PagesConsistent ==
  \A p \in Pages : pageRow[p].status # "none" =>
    /\ DOMAIN pageVersions[p] = 1 .. pageRow[p].current
    /\ pageRow[p].current >= 1
    /\ pageRow[p].status = "published" => pageVersions[p][pageRow[p].current]

(* The timelines never show more views of a message than its counter, also *)
(* when it is withdrawn while a beacon is being handled.                   *)
(* (web/repository.ts incrementSiteMessageCounter)                         *)
ViewsCounted == \A m \in Messages : viewed[m] <= messageRow[m].impressions

WebsiteConsistent == SubmittedOnce /\ PagesConsistent /\ ViewsCounted

=============================================================================
