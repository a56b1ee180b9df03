------------------------------ MODULE Delivery ------------------------------
(***************************************************************************)
(* Deliveries: an automation's action inserts a deliveries row and puts    *)
(* its id on the delivery queue; consumers claim the row, check the        *)
(* contact's consent, send through the provider and record the outcome;    *)
(* Cron puts due rows on the queue again; the provider reports what became *)
(* of an email on a queue of its own.                                      *)
(*                                                                         *)
(*   apps/server/src/messaging/delivery-worker.ts    processDelivery, ...  *)
(*   apps/server/src/messaging/cloudflare-events.ts                        *)
(*   packages/database/src/messaging/repository.ts                         *)
(*                                      MessagingWorkerRepository          *)
(*   packages/database/src/consent/repository.ts     ConsentRepository     *)
(*                                                                         *)
(* Each await is a step boundary; a D1 batch is one step.                  *)
(***************************************************************************)
EXTENDS Naturals, FiniteSets

CONSTANTS
  Deliveries,    \* deliveries rows that may be created, one per action's job
  Emails,        \* those for the email channel; the others are webhooks
  Topical,       \* those whose action names a subscription topic
  Contacts,
  ContactOf,     \* ContactOf[d]: the contact of delivery d
  Workers,       \* queue consumer invocations that may overlap
  NoMessage,     \* what an idle consumer holds
  NoEvent,       \* what an idle consumer of provider events holds
  MaxRetries,    \* max_retries of the delivery queue
  MaxSends,      \* bound on how often one delivery is sent
  EventKinds,    \* the provider events that may occur
  TopicChoices,  \* what contacts may choose for the topic
  Limit          \* Limit[h]: how often hazard h may strike in a behaviour

(***************************************************************************)
(* unsent: the creator dies between the row and the message; death: a      *)
(* consumer dies; error: a D1 call of a consumer throws; transient, unack, *)
(* reject: the provider refuses for now, sends but does not say so, or     *)
(* refuses for good; duplicate: a queue delivers a message once more;      *)
(* event: the provider reports on an email; replay: an administrator       *)
(* replays a dead letter.                                                  *)
(***************************************************************************)
Hazards == {"unsent", "death", "error", "transient", "unack", "reject",
            "duplicate", "event", "replay"}

Kinds == {"delivered", "deferred", "bounced", "failed", "rejected",
          "suppressed", "complained"}

ASSUME DeliveryAssumption ==
  /\ Emails \subseteq Deliveries
  /\ Topical \subseteq Deliveries
  /\ ContactOf \in [Deliveries -> Contacts]
  /\ MaxRetries \in Nat
  /\ MaxSends \in Nat
  /\ EventKinds \subseteq Kinds
  /\ TopicChoices \subseteq {"subscribed", "unsubscribed"}
  /\ Limit \in [Hazards -> Nat]

VARIABLES
  row,           \* row[d]: the deliveries row
  unsent,        \* rows inserted whose message is about to be sent
  queue,         \* messages on the delivery queue, not being processed
  deadLetters,   \* deliveries with a pending dead letter
  worker,        \* worker[w]: what consumer w has read and where it stands
  events,        \* provider events on the events queue
  eventWorker,   \* the event being applied, its delivery already looked up
  suppressions,  \* suppressions rows
  topic,         \* topic[c]: contact_subscriptions.status for the topic
  archived,      \* archived contacts
  sent,          \* history: how often the provider sent delivery d
  hindered,      \* history: consumers that claimed while the contact was
                 \*   blocked, and it has been ever since
  spent          \* spent[h]: how often hazard h has struck

vars == <<row, unsent, queue, deadLetters, worker, events, eventWorker,
          suppressions, topic, archived, sent, hindered, spent>>

mail     == <<unsent, queue, deadLetters>>
provider == <<events, eventWorker>>
consent  == <<suppressions, topic, archived>>

Statuses == {"absent", "queued", "sending", "accepted", "delivered", "failed",
             "suppressed"}

\* due: next_attempt_at is NULL or has passed; id: which send of the delivery
\* provider_message_id names, 0 when it is NULL.
Row == [status : Statuses, due : BOOLEAN, id : 0..MaxSends]

NoRow == [status |-> "absent", due |-> FALSE, id |-> 0]

\* {kind: "delivery", deliveryId}, and its delivery attempts so far.
Message == [delivery : Deliveries, tries : 0..MaxRetries]

ASSUME NoMessageAssumption == NoMessage \notin Message

WorkerState ==
  [pc : {"idle", "found", "gating", "suppressing", "sending", "accepting",
         "requeueing", "failing", "provider_suppressing"},
   msg : Message \union {NoMessage}, id : 0..MaxSends]

IdleWorker == [pc |-> "idle", msg |-> NoMessage, id |-> 0]

\* An email event names the send it is about.
Event == [delivery : Emails, id : 1..MaxSends, kind : Kinds]

ASSUME NoEventAssumption == NoEvent \notin Event

SuppressionReasons == {"global_unsubscribe", "bounce", "complaint", "provider"}
Suppression == [contact : Contacts, reason : SuppressionReasons]

Spend(h) ==
  /\ spent[h] < Limit[h]
  /\ spent' = [spent EXCEPT ![h] = @ + 1]

-----------------------------------------------------------------------------
(* Creating a delivery.                                                    *)

NewMessage(d) == [delivery |-> d, tries |-> 0]

\* insertQueuedDelivery; run again for the same job it inserts nothing, and
\* then createEmailDelivery sends nothing either.
InsertQueuedDelivery(d) ==
  /\ row[d].status = "absent"
  /\ row' = [row EXCEPT ![d] = [status |-> "queued", due |-> TRUE, id |-> 0]]
  /\ unsent' = unsent \union {d}
  /\ UNCHANGED <<queue, deadLetters, worker, provider, consent, sent, hindered, spent>>

SendMessage(d) ==
  /\ d \in unsent
  /\ queue' = queue \union {NewMessage(d)}
  /\ unsent' = unsent \ {d}
  /\ UNCHANGED <<row, deadLetters, worker, provider, consent, sent, hindered, spent>>

CreatorDies(d) ==
  /\ d \in unsent
  /\ Spend("unsent")
  /\ unsent' = unsent \ {d}
  /\ UNCHANGED <<row, queue, deadLetters, worker, provider, consent, sent, hindered>>

-----------------------------------------------------------------------------
(* Consent.                                                                *)

IsBlocked(c, rows, gone) == c \in gone \/ \E s \in rows : s.contact = c

\* Mutant: only a global stop blocks.
Eligible_GlobalOnly(d) ==
  /\ ContactOf[d] \notin archived
  /\ [contact |-> ContactOf[d], reason |-> "global_unsubscribe"] \notin suppressions

\* evaluateSendEligibility for a transactional message: the snapshot's topic
\* and frequency are never reached.
Eligible(d) == ~IsBlocked(ContactOf[d], suppressions, archived)

\* Consumers whose contact is no longer blocked are not hindered any more.
StillHindered ==
  { w \in hindered : IsBlocked(ContactOf[worker[w].msg.delivery], suppressions', archived') }

\* applyOneClickUnsubscribe
OneClickUnsubscribe(c) ==
  /\ suppressions' = suppressions \union {[contact |-> c, reason |-> "global_unsubscribe"]}
  /\ UNCHANGED <<row, mail, worker, provider, topic, archived, sent, hindered, spent>>

\* applyPreferenceCenterUpdate: the topic and the global stop, in one batch.
PreferenceCenterUpdate(c, selected, globalStop) ==
  LET global == [contact |-> c, reason |-> "global_unsubscribe"] IN
  /\ topic' = [topic EXCEPT ![c] = selected]
  /\ suppressions' = IF globalStop THEN suppressions \union {global}
                     ELSE suppressions \ {global}
  /\ archived' = archived
  /\ hindered' = StillHindered
  /\ UNCHANGED <<row, mail, worker, provider, sent, spent>>

\* archiveContact, restoreContact
ArchiveOrRestore(c) ==
  /\ archived' = IF c \in archived THEN archived \ {c} ELSE archived \union {c}
  /\ suppressions' = suppressions
  /\ hindered' = StillHindered
  /\ UNCHANGED <<row, mail, worker, provider, topic, sent, spent>>

-----------------------------------------------------------------------------
(* The consumer: processDelivery.                                          *)

DeliveryOf(w) == worker[w].msg.delivery
At(w, pc) == worker[w].pc = pc
Stand(w, pc) == worker' = [worker EXCEPT ![w].pc = pc]
Acked(w) == worker' = [worker EXCEPT ![w] = IdleWorker] /\ hindered' = hindered \ {w}

\* The status check on the row that was read.
Claimable(d) == row[d].status \in {"queued", "failed"}

\* A message is delivered and its row looked up; it is acked if the row is
\* in no status to be sent.
Take(w, m) ==
  /\ At(w, "idle") /\ m \in queue
  /\ worker' = [worker EXCEPT ![w] =
                  IF Claimable(m.delivery)
                  THEN [pc |-> "found", msg |-> m, id |-> 0] ELSE @]
  /\ UNCHANGED <<row, unsent, deadLetters, provider, consent, sent, hindered>>

Deliver(w, m) == Take(w, m) /\ queue' = queue \ {m} /\ UNCHANGED spent

\* The queue is at-least-once: m will be delivered again.
DeliverDuplicate(w, m) == Take(w, m) /\ Spend("duplicate") /\ UNCHANGED queue

\* Mutant: the UPDATE trusts the SELECT.
ClaimSucceeds_Unchecked(d) == TRUE

\* Mutant: rows left in sending are claimed too, to recover them.
ClaimSucceeds_Sending(d) == row[d].status \in {"queued", "failed", "sending"}

\* The WHERE of claimDelivery's UPDATE, which checks the row once more.
ClaimSucceeds(d) == row[d].status \in {"queued", "failed"}

ClaimDelivery(w) ==
  LET d == DeliveryOf(w) IN
  /\ At(w, "found")
  /\ \/ /\ ClaimSucceeds(d)
        /\ row' = [row EXCEPT ![d].status = "sending"]
        /\ hindered' = IF IsBlocked(ContactOf[d], suppressions, archived)
                       THEN hindered \union {w} ELSE hindered
        /\ Stand(w, "gating")
     \/ ~ClaimSucceeds(d) /\ Acked(w) /\ UNCHANGED row
  /\ UNCHANGED <<mail, provider, consent, sent, spent>>

\* readConsentGate and evaluateSendEligibility
CheckConsent(w) ==
  /\ At(w, "gating")
  /\ Stand(w, IF Eligible(DeliveryOf(w)) THEN "sending" ELSE "suppressing")
  /\ UNCHANGED <<row, mail, provider, consent, sent, hindered, spent>>

\* The provider takes the message; unacknowledged, the consumer learns of an
\* error (no message id, a timeout).
Send(w) ==
  LET d == DeliveryOf(w) IN
  /\ At(w, "sending") /\ sent[d] < MaxSends
  /\ sent' = [sent EXCEPT ![d] = @ + 1]
  /\ \/ /\ worker' = [worker EXCEPT ![w] = [@ EXCEPT !.pc = "accepting", !.id = sent[d] + 1]]
        /\ UNCHANGED spent
     \/ Stand(w, "requeueing") /\ Spend("unack")
  /\ UNCHANGED <<row, mail, provider, consent, hindered>>

\* The provider refuses: for now, for good, or because it has suppressed the
\* recipient of an email.
SendRefused(w) ==
  /\ At(w, "sending")
  /\ \/ Stand(w, "requeueing") /\ Spend("transient")
     \/ Stand(w, "failing") /\ Spend("reject")
     \/ /\ DeliveryOf(w) \in Emails
        /\ Stand(w, "provider_suppressing") /\ Spend("reject")
  /\ UNCHANGED <<row, mail, provider, consent, sent, hindered>>

\* Mutant: provider_message_id is not stored.
Accepted_NoId(r, id) == IF r.status = "sending" THEN [r EXCEPT !.status = "accepted"] ELSE r

\* markDeliveryAccepted: UPDATE ... WHERE status = 'sending'
Accepted(r, id) ==
  IF r.status = "sending" THEN [r EXCEPT !.status = "accepted", !.id = id] ELSE r

\* What the D1 write of the try block that w has reached leaves in the row.
Written(w) ==
  CASE At(w, "accepting")   -> Accepted(row[DeliveryOf(w)], worker[w].id)
    [] At(w, "suppressing") -> [row[DeliveryOf(w)] EXCEPT !.status = "suppressed"]
    [] OTHER                -> row[DeliveryOf(w)]

\* markDeliveryAccepted, markDeliverySuppressed; then the message is acked.
MarkDelivery(w) ==
  /\ worker[w].pc \in {"accepting", "suppressing"}
  /\ row' = [row EXCEPT ![DeliveryOf(w)] = Written(w)]
  /\ Acked(w)
  /\ UNCHANGED <<mail, provider, consent, sent, spent>>

\* A D1 call of the try block throws, its write applied or not.
CallFails(w) ==
  /\ worker[w].pc \in {"gating", "suppressing", "sending", "accepting"}
  /\ Spend("error")
  /\ \E r \in {row[DeliveryOf(w)], Written(w)} : row' = [row EXCEPT ![DeliveryOf(w)] = r]
  /\ Stand(w, "requeueing")
  /\ UNCHANGED <<mail, provider, consent, sent, hindered>>

\* Mutant: one retry too many.
RetriesLeft_OffByOne(m) == m.tries <= MaxRetries

RetriesLeft(m) == m.tries < MaxRetries

\* message.retry(), or the dead-letter queue when max_retries is reached.
Redeliver(m) ==
  \/ /\ RetriesLeft(m)
     /\ queue' = queue \union {[m EXCEPT !.tries = @ + 1]}
     /\ UNCHANGED <<unsent, deadLetters>>
  \/ /\ ~RetriesLeft(m)
     /\ deadLetters' = deadLetters \union {m.delivery}
     /\ UNCHANGED <<unsent, queue>>

\* Mutant: the row stays in sending.
Requeued_Kept(r) == r

\* recordDeliveryAttemptFailure with status queued, WHERE status = 'sending'
Requeued(r) ==
  IF r.status = "sending" THEN [r EXCEPT !.status = "queued", !.due = FALSE] ELSE r

\* The catch block of a transient error, which throws on.
Requeue(w) ==
  /\ At(w, "requeueing")
  /\ row' = [row EXCEPT ![DeliveryOf(w)] = Requeued(@)]
  /\ Redeliver(worker[w].msg)
  /\ Acked(w)
  /\ UNCHANGED <<provider, consent, sent, spent>>

\* ... of a permanent one; next_attempt_at is cleared.
FailDelivery(w) ==
  /\ At(w, "failing")
  /\ row' = [row EXCEPT ![DeliveryOf(w)] =
               IF @.status = "sending" THEN [@ EXCEPT !.status = "failed", !.due = TRUE] ELSE @]
  /\ Acked(w)
  /\ UNCHANGED <<mail, provider, consent, sent, spent>>

\* markDeliveryProviderSuppressed
MarkProviderSuppressed(w) ==
  /\ At(w, "provider_suppressing")
  /\ row' = [row EXCEPT ![DeliveryOf(w)].status = "suppressed"]
  /\ suppressions' = suppressions \union
                       {[contact |-> ContactOf[DeliveryOf(w)], reason |-> "provider"]}
  /\ Acked(w)
  /\ UNCHANGED <<mail, provider, topic, archived, sent, spent>>

\* The consumer dies, or the D1 call of the catch block throws.
ConsumerFails(w) ==
  /\ \/ ~At(w, "idle") /\ Spend("death")
     \/ worker[w].pc \in {"requeueing", "failing", "provider_suppressing"} /\ Spend("error")
  /\ Redeliver(worker[w].msg)
  /\ Acked(w)
  /\ UNCHANGED <<row, provider, consent, sent>>

-----------------------------------------------------------------------------
(* The Cron rescan, and dead letters.                                      *)

\* The WHERE of scanDueDeliveries.
Due(d) == row[d].status = "queued" /\ row[d].due

\* scanDueDeliveries and sendBatch.  A message holds an id alone, so that the
\* time between the two is time spent on the queue.
ScanDueDeliveries ==
  /\ queue' = queue \union { NewMessage(d) : d \in { d \in Deliveries : Due(d) } }
  /\ UNCHANGED <<row, unsent, deadLetters, worker, provider, consent, sent,
                 hindered, spent>>

\* next_attempt_at is reached.
TimerElapses(d) ==
  /\ row[d].status = "queued" /\ ~row[d].due
  /\ row' = [row EXCEPT ![d].due = TRUE]
  /\ UNCHANGED <<mail, worker, provider, consent, sent, hindered, spent>>

\* replayDeadLetter: any letter the dead-letter queue filed goes to this queue.
ReplayDeadLetter(d) ==
  /\ d \in deadLetters
  /\ Spend("replay")
  /\ queue' = queue \union {NewMessage(d)}
  /\ deadLetters' \in {deadLetters, deadLetters \ {d}}
  /\ UNCHANGED <<row, unsent, worker, provider, consent, sent, hindered>>

-----------------------------------------------------------------------------
(* Provider events: processCloudflareEmailEvent.                           *)

\* `rejected` with rejection.reason "suppressed" is the kind "suppressed" here.
StatusOf(kind) ==
  CASE kind = "delivered" -> "delivered"
    [] kind \in {"bounced", "failed", "rejected", "suppressed"} -> "failed"
    [] OTHER -> "none"

ReasonsOf(kind) ==
  CASE kind = "bounced"    -> {"bounce"}
    [] kind = "complained" -> {"complaint"}
    [] kind = "suppressed" -> {"provider"}
    [] OTHER               -> {}

\* The provider reports on an email it has sent.
Report(d, n, kind) ==
  /\ d \in Emails /\ n \in 1..sent[d]
  /\ Spend("event")
  /\ events' = events \union {[delivery |-> d, id |-> n, kind |-> kind]}
  /\ UNCHANGED <<row, mail, worker, eventWorker, consent, sent, hindered>>

SuppressionsOf(event) ==
  { [contact |-> ContactOf[event.delivery], reason |-> r] : r \in ReasonsOf(event.kind) }

\* applyCloudflareDeliveryEvent looks the message id up; an event whose id is
\* not stored is acked and forgotten.
LookUpEvent(event) ==
  /\ eventWorker = NoEvent /\ event \in events
  /\ \/ events' = events \ {event} /\ UNCHANGED spent
     \/ UNCHANGED events /\ Spend("duplicate")
  /\ eventWorker' = IF row[event.delivery].id = event.id THEN event ELSE NoEvent
  /\ UNCHANGED <<row, mail, worker, consent, sent, hindered>>

\* Its batch: the status, whatever it was, and the suppression.
ApplyEvent ==
  /\ eventWorker # NoEvent
  /\ LET status == StatusOf(eventWorker.kind) IN
     row' = IF status = "none" THEN row
            ELSE [row EXCEPT ![eventWorker.delivery].status = status]
  /\ suppressions' = suppressions \union SuppressionsOf(eventWorker)
  /\ eventWorker' = NoEvent
  /\ UNCHANGED <<mail, worker, events, topic, archived, sent, hindered, spent>>

\* The consumer of the event dies: it is delivered again.
EventConsumerDies ==
  /\ eventWorker # NoEvent
  /\ Spend("death")
  /\ events' = events \union {eventWorker}
  /\ eventWorker' = NoEvent
  /\ UNCHANGED <<row, mail, worker, consent, sent, hindered>>

-----------------------------------------------------------------------------
Init ==
  /\ row = [d \in Deliveries |-> NoRow]
  /\ unsent = {} /\ queue = {} /\ deadLetters = {}
  /\ worker = [w \in Workers |-> IdleWorker]
  /\ events = {} /\ eventWorker = NoEvent
  /\ suppressions = {} /\ archived = {}
  /\ topic = [c \in Contacts |-> "none"]
  /\ sent = [d \in Deliveries |-> 0]
  /\ hindered = {}
  /\ spent = [h \in Hazards |-> 0]

Creating == \E d \in Deliveries :
  InsertQueuedDelivery(d) \/ SendMessage(d) \/ CreatorDies(d)

Choosing == \E c \in Contacts :
  \/ OneClickUnsubscribe(c) \/ ArchiveOrRestore(c)
  \/ \E selected \in TopicChoices, globalStop \in BOOLEAN :
       PreferenceCenterUpdate(c, selected, globalStop)

Running(w) ==
  \/ ClaimDelivery(w) \/ CheckConsent(w) \/ Send(w) \/ MarkDelivery(w)
  \/ Requeue(w) \/ FailDelivery(w) \/ MarkProviderSuppressed(w)

Consuming == \E w \in Workers :
  \/ \E m \in queue : Deliver(w, m) \/ DeliverDuplicate(w, m)
  \/ Running(w) \/ SendRefused(w) \/ CallFails(w) \/ ConsumerFails(w)

Scheduling ==
  \/ ScanDueDeliveries
  \/ \E d \in Deliveries : TimerElapses(d) \/ ReplayDeadLetter(d)

Reporting ==
  \/ \E d \in Emails, n \in 1..MaxSends, kind \in EventKinds : Report(d, n, kind)
  \/ \E event \in events : LookUpEvent(event)
  \/ ApplyEvent \/ EventConsumerDies

Next == Creating \/ Choosing \/ Consuming \/ Scheduling \/ Reporting

Spec == Init /\ [][Next]_vars

(***************************************************************************)
(* Fairness: a request that is not killed sends its message, Cron fires    *)
(* every minute, time passes, the queue delivers and a consumer that is    *)
(* not killed runs to its end.                                             *)
(***************************************************************************)
Fairness ==
  /\ \A d \in Deliveries : WF_vars(SendMessage(d)) /\ WF_vars(TimerElapses(d))
  /\ WF_vars(ScanDueDeliveries)
  /\ WF_vars(\E w \in Workers, m \in queue : Deliver(w, m))
  /\ \A w \in Workers : WF_vars(Running(w))

FairSpec == Spec /\ Fairness

-----------------------------------------------------------------------------
\* Every variable stays in its type.
TypeOK ==
  /\ row \in [Deliveries -> Row]
  /\ unsent \subseteq Deliveries
  /\ queue \subseteq Message
  /\ deadLetters \subseteq Deliveries
  /\ worker \in [Workers -> WorkerState]
  /\ \A w \in Workers : At(w, "idle") <=> worker[w].msg = NoMessage
  /\ events \subseteq Event
  /\ eventWorker \in Event \union {NoEvent}
  /\ suppressions \subseteq Suppression
  /\ topic \in [Contacts -> {"none", "subscribed", "unsubscribed"}]
  /\ archived \subseteq Contacts
  /\ sent \in [Deliveries -> 0..MaxSends]
  /\ hindered \subseteq Workers
  /\ spent \in [Hazards -> Nat]

\* A delivery is sent once, and once more for each send the consumer did not
\* learn of: never because consumers die, messages are delivered twice, or
\* scans and replays put them on the queue again.
NoSendRepeated == \A d \in Deliveries : sent[d] <= 1 + spent["unack"]

\* Between its claim and its outcome a delivery belongs to one consumer.
Holds(w, d) == ~At(w, "idle") /\ ~At(w, "found") /\ DeliveryOf(w) = d

OneHolder ==
  \A d \in Deliveries : Cardinality({ w \in Workers : Holds(w, d) }) <= 1

\* An accepted or delivered row names a send of its delivery, so that the
\* provider's events can find it.
AcceptedHasId ==
  \A d \in Deliveries : row[d].status \in {"accepted", "delivered"} => row[d].id \in 1..sent[d]

\* A contact who was blocked when the delivery was claimed, and has been since,
\* is not sent anything: consent is checked after the claim, before the send.
SuppressionStopsSend ==
  \A w \in Workers : worker[w].pc \in {"sending", "accepting"} => w \notin hindered

\* What was accepted, delivered or suppressed is not sent again.
Settled == {"accepted", "delivered", "suppressed"}
SettledStays ==
  [][\A d \in Deliveries : row[d].status \in Settled => row'[d].status \in Settled]_vars

\* The check before a send lets no message about a topic through to a contact
\* who has unsubscribed from it.
TopicRespected ==
  [][\A w \in Workers :
       At(w, "gating") /\ worker'[w].pc = "sending" /\ DeliveryOf(w) \in Topical
         => topic[ContactOf[DeliveryOf(w)]] # "unsubscribed"]_vars

\* As long as no consumer dies, every delivery is settled or has failed in the
\* end, even if its message was never sent or ran out of retries.
EventuallySettles ==
  [](spent["death"] = 0) => \A d \in Deliveries : row[d].status \in {"queued", "sending"}
                              ~> row[d].status \in Settled \union {"failed"}
=============================================================================
