--------------------------- MODULE Delivery_proofs ---------------------------
(***************************************************************************)
(* Theorems about Delivery for every set of deliveries, contacts and       *)
(* consumers, every number of retries and sends, and every hazard budget   *)
(* but those a theorem says are zero.                                      *)
(***************************************************************************)
EXTENDS Delivery, TLAPS, FiniteSetTheorems

Busy == {"found", "gating", "suppressing", "sending", "accepting", "requeueing", "failing",
         "provider_suppressing"}

\* What TypeOK says of the consumers.
WorkersTyped ==
  /\ worker \in [Workers -> WorkerState]
  /\ \A w \in Workers : At(w, "idle") <=> worker[w].msg = NoMessage

\* A busy consumer holds a message about a delivery.
LEMMA BusyHolds ==
  ASSUME TypeOK, NEW w \in Workers, ~At(w, "idle")
  PROVE  /\ worker[w].msg \in Message /\ worker[w].msg # NoMessage
         /\ DeliveryOf(w) \in Deliveries
         /\ worker[w].pc \in Busy
BY NoMessageAssumption DEF TypeOK, WorkerState, Message, DeliveryOf, At, Busy

\* A consumer that is set to an idle or a busy state is of its type.
LEMMA WorkerSet ==
  ASSUME TypeOK, NEW w \in Workers, NEW s \in WorkerState,
         s.pc = "idle" <=> s.msg = NoMessage,
         worker' = [worker EXCEPT ![w] = s]
  PROVE  WorkersTyped' /\ worker'[w] = s /\ \A v \in Workers \ {w} : worker'[v] = worker[v]
BY DEF TypeOK, WorkersTyped, At

\* A consumer that acks its message is idle.
LEMMA WorkerAcked ==
  ASSUME TypeOK, NEW w \in Workers, Acked(w)
  PROVE  /\ WorkersTyped' /\ worker'[w] = IdleWorker
         /\ \A v \in Workers \ {w} : worker'[v] = worker[v]
         /\ hindered' = hindered \ {w}
<1>1. IdleWorker \in WorkerState /\ IdleWorker.pc = "idle" /\ IdleWorker.msg = NoMessage
  BY DeliveryAssumption DEF IdleWorker, WorkerState
<1>2. QED
  BY <1>1, WorkerSet DEF Acked

\* A consumer that moves on keeps its message.
LEMMA WorkerStands ==
  ASSUME TypeOK, NEW w \in Workers, ~At(w, "idle"), NEW pc \in Busy, Stand(w, pc)
  PROVE  /\ WorkersTyped' /\ worker'[w] = [worker[w] EXCEPT !.pc = pc]
         /\ \A v \in Workers \ {w} : worker'[v] = worker[v]
<1> DEFINE s == [worker[w] EXCEPT !.pc = pc]
<1>1. worker[w] \in WorkerState /\ worker[w].msg # NoMessage
  BY BusyHolds DEF TypeOK
<1>2. s \in WorkerState /\ s.pc # "idle" /\ s.msg # NoMessage
  BY <1>1 DEF WorkerState, Busy
<1>3. worker' = [worker EXCEPT ![w] = s]
  BY DEF Stand
<1>4. QED
  BY <1>2, <1>3, WorkerSet

\* message.retry() puts a message on the queue or files a dead letter.
LEMMA RedeliverType ==
  ASSUME TypeOK, NEW m \in Message, Redeliver(m)
  PROVE  queue' \subseteq Message /\ deadLetters' \subseteq Deliveries /\ unsent' = unsent
<1>1. CASE RetriesLeft(m)
  <2>1. [m EXCEPT !.tries = @ + 1] \in Message
    BY <1>1, DeliveryAssumption DEF RetriesLeft, Message
  <2>2. QED
    BY <1>1, <2>1 DEF Redeliver, TypeOK
<1>2. CASE ~RetriesLeft(m)
  BY <1>2 DEF Redeliver, TypeOK, Message
<1>3. QED
  BY <1>1, <1>2

\* The counter of a hazard only grows.
LEMMA SpendType ==
  ASSUME TypeOK, NEW h \in Hazards, Spend(h)
  PROVE  spent' \in [Hazards -> Nat] /\ \A g \in Hazards : spent'[g] >= spent[g]
BY DEF TypeOK, Spend

\* A row's status and id are of their types, and what consumers write is too.
LEMMA WrittenType ==
  ASSUME TypeOK, NEW w \in Workers, ~At(w, "idle")
  PROVE  /\ row[DeliveryOf(w)] \in Row /\ Written(w) \in Row
         /\ Requeued(row[DeliveryOf(w)]) \in Row
<1>1. row[DeliveryOf(w)] \in Row /\ worker[w].id \in 0..MaxSends
  BY BusyHolds DEF TypeOK, WorkerState
<1>2. Accepted(row[DeliveryOf(w)], worker[w].id) \in Row
  BY <1>1 DEF Accepted, Row, Statuses
<1>3. [row[DeliveryOf(w)] EXCEPT !.status = "suppressed"] \in Row
  BY <1>1 DEF Row, Statuses
<1>4. Written(w) \in Row
  BY <1>1, <1>2, <1>3 DEF Written, At
<1>5. Requeued(row[DeliveryOf(w)]) \in Row
  BY <1>1 DEF Requeued, Row, Statuses
<1>6. QED
  BY <1>1, <1>4, <1>5

USE DEF Hazards

-----------------------------------------------------------------------------
\* Creating deliveries keeps the types.
LEMMA TypeCreating ==
  ASSUME TypeOK, Creating PROVE TypeOK'
<1>1. ASSUME NEW d \in Deliveries, InsertQueuedDelivery(d) PROVE TypeOK'
  <2>1. [status |-> "queued", due |-> TRUE, id |-> 0] \in Row
    BY DeliveryAssumption DEF Row, Statuses
  <2>2. QED
    BY <1>1, <2>1 DEF InsertQueuedDelivery, TypeOK, At, provider, consent
<1>2. ASSUME NEW d \in Deliveries, SendMessage(d) PROVE TypeOK'
  <2>1. NewMessage(d) \in Message
    BY DeliveryAssumption DEF NewMessage, Message
  <2>2. QED
    BY <1>2, <2>1 DEF SendMessage, TypeOK, At, provider, consent
<1>3. ASSUME NEW d \in Deliveries, CreatorDies(d) PROVE TypeOK'
  BY <1>3, SpendType DEF CreatorDies, TypeOK, At, provider, consent
<1>4. QED
  BY <1>1, <1>2, <1>3 DEF Creating

\* What contacts choose keeps the types.
LEMMA TypeChoosing ==
  ASSUME TypeOK, Choosing PROVE TypeOK'
<1>0. \A c \in Contacts : [contact |-> c, reason |-> "global_unsubscribe"] \in Suppression
  BY DEF Suppression, SuppressionReasons
<1>1. ASSUME NEW c \in Contacts, OneClickUnsubscribe(c) PROVE TypeOK'
  BY <1>0, <1>1 DEF OneClickUnsubscribe, TypeOK, At, mail, provider
<1>2. ASSUME NEW c \in Contacts, NEW selected \in TopicChoices, NEW globalStop \in BOOLEAN,
             PreferenceCenterUpdate(c, selected, globalStop)
      PROVE  TypeOK'
  <2>1. suppressions' \subseteq Suppression
    BY <1>0, <1>2 DEF PreferenceCenterUpdate, TypeOK
  <2>2. topic' \in [Contacts -> {"none", "subscribed", "unsubscribed"}]
    BY <1>2, DeliveryAssumption DEF PreferenceCenterUpdate, TypeOK
  <2>3. QED
    BY <1>2, <2>1, <2>2 DEF PreferenceCenterUpdate, TypeOK, StillHindered, At, mail, provider
<1>3. ASSUME NEW c \in Contacts, ArchiveOrRestore(c) PROVE TypeOK'
  BY <1>3 DEF ArchiveOrRestore, TypeOK, StillHindered, At, mail, provider
<1>4. QED
  BY <1>1, <1>2, <1>3 DEF Choosing

\* Taking a message makes the consumer hold it, or leaves it idle.
LEMMA TypeTake ==
  ASSUME TypeOK, NEW w \in Workers, NEW m \in queue, Take(w, m)
  PROVE  WorkersTyped'
<1>1. m \in Message /\ m # NoMessage
  BY NoMessageAssumption DEF TypeOK
<1>2. CASE Claimable(m.delivery)
  <2> DEFINE s == [pc |-> "found", msg |-> m, id |-> 0]
  <2>1. s \in WorkerState
    BY <1>1, DeliveryAssumption DEF WorkerState
  <2>2. worker' = [worker EXCEPT ![w] = s]
    BY <1>2 DEF Take
  <2>3. QED
    BY <1>1, <2>1, <2>2, WorkerSet
<1>3. CASE ~Claimable(m.delivery)
  BY <1>3 DEF Take, TypeOK, WorkersTyped, At
<1>4. QED
  BY <1>2, <1>3

\* Every step of a consumer keeps the types.
LEMMA TypeConsuming ==
  ASSUME TypeOK, Consuming PROVE TypeOK'
<1>1. ASSUME NEW w \in Workers, NEW m \in queue, Deliver(w, m) \/ DeliverDuplicate(w, m)
      PROVE  TypeOK'
  <2>1. WorkersTyped'
    BY <1>1, TypeTake DEF Deliver, DeliverDuplicate
  <2>2. spent' \in [Hazards -> Nat] /\ queue' \subseteq Message
    BY <1>1, SpendType DEF Deliver, DeliverDuplicate, TypeOK
  <2>3. QED
    BY <1>1, <2>1, <2>2 DEF Deliver, DeliverDuplicate, Take, TypeOK, WorkersTyped, At,
         provider, consent
<1>2. ASSUME NEW w \in Workers, ClaimDelivery(w) PROVE TypeOK'
  <2>1. ~At(w, "idle") /\ DeliveryOf(w) \in Deliveries
    BY <1>2, BusyHolds DEF ClaimDelivery, At
  <2>2. WorkersTyped' /\ hindered' \subseteq Workers
    BY <1>2, <2>1, WorkerStands, WorkerAcked DEF ClaimDelivery, Busy, TypeOK
  <2>3. row' \in [Deliveries -> Row]
    BY <1>2, <2>1 DEF ClaimDelivery, TypeOK, Row, Statuses
  <2>4. QED
    BY <1>2, <2>2, <2>3 DEF ClaimDelivery, TypeOK, WorkersTyped, At, mail, provider, consent
<1>3. ASSUME NEW w \in Workers, CheckConsent(w) PROVE TypeOK'
  <2>1. WorkersTyped'
    BY <1>3, WorkerStands DEF CheckConsent, At, Busy
  <2>2. QED
    BY <1>3, <2>1 DEF CheckConsent, TypeOK, WorkersTyped, At, mail, provider, consent
<1>4. ASSUME NEW w \in Workers, Send(w) PROVE TypeOK'
  <2> DEFINE d == DeliveryOf(w)
             s == [[worker[w] EXCEPT !.pc = "accepting"] EXCEPT !.id = sent[d] + 1]
  <2>1. ~At(w, "idle") /\ d \in Deliveries /\ worker[w] \in WorkerState /\
        worker[w].msg # NoMessage
    BY <1>4, BusyHolds DEF Send, At, TypeOK
  <2>2. sent[d] + 1 \in 0..MaxSends /\ sent' \in [Deliveries -> 0..MaxSends]
    BY <1>4, <2>1, DeliveryAssumption DEF Send, TypeOK
  <2>3. CASE worker' = [worker EXCEPT ![w] = [@ EXCEPT !.pc = "accepting", !.id = sent[d] + 1]]
             /\ UNCHANGED spent
    <3>1. [worker[w] EXCEPT !.pc = "accepting", !.id = sent[d] + 1] \in WorkerState
      BY <2>1, <2>2 DEF WorkerState
    <3>2. WorkersTyped'
      BY <2>1, <2>3, <3>1, WorkerSet DEF WorkerState
    <3>3. QED
      BY <1>4, <2>2, <2>3, <3>2 DEF Send, TypeOK, WorkersTyped, At, mail, provider, consent
  <2>4. CASE Stand(w, "requeueing") /\ Spend("unack")
    <3>1. WorkersTyped'
      BY <2>1, <2>4, WorkerStands DEF Busy
    <3>2. spent' \in [Hazards -> Nat]
      BY <2>4, SpendType
    <3>3. QED
      BY <1>4, <2>2, <3>1, <3>2 DEF Send, TypeOK, WorkersTyped, At, mail, provider, consent
  <2>5. QED
    BY <1>4, <2>3, <2>4 DEF Send
<1>5. ASSUME NEW w \in Workers, MarkDelivery(w) \/ FailDelivery(w) PROVE TypeOK'
  <2>1. ~At(w, "idle") /\ DeliveryOf(w) \in Deliveries
    BY <1>5, BusyHolds DEF MarkDelivery, FailDelivery, At
  <2>2. row' \in [Deliveries -> Row]
    <3>1. MarkDelivery(w) => row' = [row EXCEPT ![DeliveryOf(w)] = Written(w)]
      BY DEF MarkDelivery
    <3>2. [row[DeliveryOf(w)] EXCEPT !.status = "failed", !.due = TRUE] \in Row
      BY <2>1, WrittenType DEF Row, Statuses
    <3>3. FailDelivery(w) =>
            row' = [row EXCEPT ![DeliveryOf(w)] =
                      IF @.status = "sending" THEN [@ EXCEPT !.status = "failed", !.due = TRUE]
                      ELSE @]
      BY DEF FailDelivery
    <3>4. QED
      BY <1>5, <2>1, <3>1, <3>2, <3>3, WrittenType DEF TypeOK
  <2>3. WorkersTyped' /\ hindered' \subseteq Workers
    BY <1>5, WorkerAcked DEF MarkDelivery, FailDelivery, TypeOK
  <2>4. QED
    BY <1>5, <2>2, <2>3
       DEF MarkDelivery, FailDelivery, TypeOK, WorkersTyped, At, mail, provider, consent
<1>6. ASSUME NEW w \in Workers, Requeue(w) PROVE TypeOK'
  <2>1. ~At(w, "idle") /\ DeliveryOf(w) \in Deliveries /\ worker[w].msg \in Message
    BY <1>6, BusyHolds DEF Requeue, At
  <2>2. row' \in [Deliveries -> Row]
    BY <1>6, <2>1, WrittenType DEF Requeue, TypeOK
  <2>3. WorkersTyped' /\ hindered' \subseteq Workers
    BY <1>6, WorkerAcked DEF Requeue, TypeOK
  <2>4. queue' \subseteq Message /\ deadLetters' \subseteq Deliveries /\ unsent' = unsent
    BY <1>6, <2>1, RedeliverType DEF Requeue
  <2>5. QED
    BY <1>6, <2>2, <2>3, <2>4 DEF Requeue, TypeOK, WorkersTyped, At, provider, consent
<1>7. ASSUME NEW w \in Workers, MarkProviderSuppressed(w) PROVE TypeOK'
  <2>1. ~At(w, "idle") /\ DeliveryOf(w) \in Deliveries
    BY <1>7, BusyHolds DEF MarkProviderSuppressed, At
  <2>2. row' \in [Deliveries -> Row]
    BY <1>7, <2>1 DEF MarkProviderSuppressed, TypeOK, Row, Statuses
  <2>3. [contact |-> ContactOf[DeliveryOf(w)], reason |-> "provider"] \in Suppression
    BY <2>1, DeliveryAssumption DEF Suppression, SuppressionReasons
  <2>4. WorkersTyped' /\ hindered' \subseteq Workers
    BY <1>7, WorkerAcked DEF MarkProviderSuppressed, TypeOK
  <2>5. QED
    BY <1>7, <2>2, <2>3, <2>4 DEF MarkProviderSuppressed, TypeOK, WorkersTyped, At, mail, provider
<1>8. ASSUME NEW w \in Workers, SendRefused(w) PROVE TypeOK'
  <2>1. ~At(w, "idle")
    BY <1>8 DEF SendRefused, At
  <2>2. WorkersTyped' /\ spent' \in [Hazards -> Nat]
    BY <1>8, <2>1, WorkerStands, SpendType DEF SendRefused, Busy
  <2>3. QED
    BY <1>8, <2>2 DEF SendRefused, TypeOK, WorkersTyped, At, mail, provider, consent
<1>9. ASSUME NEW w \in Workers, CallFails(w) PROVE TypeOK'
  <2>1. ~At(w, "idle") /\ DeliveryOf(w) \in Deliveries
    BY <1>9, BusyHolds DEF CallFails, At
  <2>2. row' \in [Deliveries -> Row]
    BY <1>9, <2>1, WrittenType DEF CallFails, TypeOK
  <2>3. WorkersTyped' /\ spent' \in [Hazards -> Nat]
    BY <1>9, <2>1, WorkerStands, SpendType DEF CallFails, Busy
  <2>4. QED
    BY <1>9, <2>2, <2>3 DEF CallFails, TypeOK, WorkersTyped, At, mail, provider, consent
<1>10. ASSUME NEW w \in Workers, ConsumerFails(w) PROVE TypeOK'
  <2>1. ~At(w, "idle") /\ worker[w].msg \in Message
    BY <1>10, BusyHolds DEF ConsumerFails, At
  <2>2. WorkersTyped' /\ hindered' \subseteq Workers
    BY <1>10, WorkerAcked DEF ConsumerFails, TypeOK
  <2>3. queue' \subseteq Message /\ deadLetters' \subseteq Deliveries /\ unsent' = unsent
    BY <1>10, <2>1, RedeliverType DEF ConsumerFails
  <2>4. spent' \in [Hazards -> Nat]
    BY <1>10, SpendType DEF ConsumerFails
  <2>5. QED
    BY <1>10, <2>2, <2>3, <2>4 DEF ConsumerFails, TypeOK, WorkersTyped, At, provider, consent
<1>11. QED
  BY <1>1, <1>2, <1>3, <1>4, <1>5, <1>6, <1>7, <1>8, <1>9, <1>10 DEF Consuming, Running

\* The rescan, the passing of time and replays keep the types.
LEMMA TypeScheduling ==
  ASSUME TypeOK, Scheduling PROVE TypeOK'
<1>0. \A d \in Deliveries : NewMessage(d) \in Message
  BY DeliveryAssumption DEF NewMessage, Message
<1>1. CASE ScanDueDeliveries
  BY <1>0, <1>1 DEF ScanDueDeliveries, TypeOK, At, provider, consent
<1>2. ASSUME NEW d \in Deliveries, TimerElapses(d) PROVE TypeOK'
  <2>1. row' \in [Deliveries -> Row]
    BY <1>2 DEF TimerElapses, TypeOK, Row
  <2>2. QED
    BY <1>2, <2>1 DEF TimerElapses, TypeOK, At, mail, provider, consent
<1>3. ASSUME NEW d \in Deliveries, ReplayDeadLetter(d) PROVE TypeOK'
  <2>1. queue' \subseteq Message /\ deadLetters' \subseteq Deliveries /\
        spent' \in [Hazards -> Nat]
    BY <1>0, <1>3, SpendType DEF ReplayDeadLetter, TypeOK
  <2>2. QED
    BY <1>3, <2>1 DEF ReplayDeadLetter, TypeOK, At, provider, consent
<1>4. QED
  BY <1>1, <1>2, <1>3 DEF Scheduling

\* Provider events keep the types.
LEMMA TypeReporting ==
  ASSUME TypeOK, Reporting PROVE TypeOK'
<1>1. ASSUME NEW d \in Emails, NEW n \in 1..MaxSends, NEW kind \in EventKinds, Report(d, n, kind)
      PROVE  TypeOK'
  <2>1. [delivery |-> d, id |-> n, kind |-> kind] \in Event
    BY DeliveryAssumption DEF Event
  <2>2. spent' \in [Hazards -> Nat]
    BY <1>1, SpendType DEF Report
  <2>3. QED
    BY <1>1, <2>1, <2>2 DEF Report, TypeOK, At, mail, consent
<1>2. ASSUME NEW event \in events, LookUpEvent(event) PROVE TypeOK'
  <2>1. spent' \in [Hazards -> Nat] /\ events' \subseteq Event
    BY <1>2, SpendType DEF LookUpEvent, TypeOK
  <2>2. eventWorker' \in Event \union {NoEvent}
    BY <1>2 DEF LookUpEvent, TypeOK
  <2>3. QED
    BY <1>2, <2>1, <2>2 DEF LookUpEvent, TypeOK, At, mail, consent
<1>3. CASE ApplyEvent
  <2>1. eventWorker \in Event /\ eventWorker.delivery \in Deliveries
    BY <1>3, DeliveryAssumption DEF ApplyEvent, TypeOK, Event
  <2>2. StatusOf(eventWorker.kind) \in {"delivered", "failed", "none"}
    BY DEF StatusOf
  <2>3. row' \in [Deliveries -> Row]
    BY <1>3, <2>1, <2>2 DEF ApplyEvent, TypeOK, Row, Statuses
  <2>4. SuppressionsOf(eventWorker) \subseteq Suppression
    <3>1. ReasonsOf(eventWorker.kind) \subseteq SuppressionReasons
      BY DEF ReasonsOf, SuppressionReasons
    <3>2. ContactOf[eventWorker.delivery] \in Contacts
      BY <2>1, DeliveryAssumption
    <3>3. QED
      BY <3>1, <3>2 DEF SuppressionsOf, Suppression
  <2>5. QED
    BY <1>3, <2>3, <2>4 DEF ApplyEvent, TypeOK, At, mail
<1>4. CASE EventConsumerDies
  <2>1. spent' \in [Hazards -> Nat] /\ events' \subseteq Event
    BY <1>4, SpendType DEF EventConsumerDies, TypeOK
  <2>2. QED
    BY <1>4, <2>1 DEF EventConsumerDies, TypeOK, At, mail, consent
<1>5. QED
  BY <1>1, <1>2, <1>3, <1>4 DEF Reporting

\* Every variable keeps its type, in every instance.
THEOREM TypeCorrect == Spec => []TypeOK
<1>1. Init => TypeOK
  BY DeliveryAssumption
     DEF Init, TypeOK, Row, NoRow, Statuses, WorkerState, IdleWorker, At
<1>2. TypeOK /\ [Next]_vars => TypeOK'
  <2>1. TypeOK /\ UNCHANGED vars => TypeOK'
    BY DEF TypeOK, At, vars
  <2>2. QED
    BY <2>1, TypeCreating, TypeChoosing, TypeConsuming, TypeScheduling, TypeReporting DEF Next
<1>3. QED
  BY <1>1, <1>2, PTL DEF Spec

-----------------------------------------------------------------------------
(* Consent: a contact who is blocked from the claim on is not sent to.     *)

Blocked(w) == IsBlocked(ContactOf[DeliveryOf(w)], suppressions, archived)

\* The inductive invariant: hindered consumers have come to a blocked contact
\* and have not passed the check.
HinderedStops ==
  \A w \in hindered :
    worker[w].pc \notin {"idle", "sending", "accepting"} /\ Blocked(w)

\* A step that leaves the consumers alone and unblocks nobody it still counts.
LEMMA HinderedElsewhere ==
  ASSUME HinderedStops, worker' = worker, hindered' \subseteq hindered,
         \A w \in hindered' : Blocked(w) => Blocked(w)'
  PROVE  HinderedStops'
BY DEF HinderedStops

\* A step of one consumer that blocks more contacts, or as many.
LEMMA HinderedConsumer ==
  ASSUME HinderedStops, NEW w \in Workers,
         \A v \in Workers \ {w} : worker'[v] = worker[v],
         hindered' \subseteq hindered \union {w}, hindered' \subseteq Workers,
         suppressions \subseteq suppressions', archived' = archived,
         w \in hindered' =>
           worker'[w].pc \notin {"idle", "sending", "accepting"} /\ Blocked(w)'
  PROVE  HinderedStops'
<1> SUFFICES ASSUME NEW v \in hindered'
             PROVE  (worker[v].pc \notin {"idle", "sending", "accepting"} /\ Blocked(v))'
  BY DEF HinderedStops
<1>1. CASE v = w
  BY <1>1
<1>2. CASE v # w
  <2>1. v \in hindered /\ worker'[v] = worker[v]
    BY <1>2
  <2>2. worker[v].pc \notin {"idle", "sending", "accepting"} /\ Blocked(v)
    BY <2>1 DEF HinderedStops
  <2>3. QED
    BY <2>1, <2>2 DEF Blocked, IsBlocked, DeliveryOf
<1>3. QED
  BY <1>1, <1>2

\* Choices block contacts, or take those they unblock from the hindered.
LEMMA HinderedChoosing ==
  ASSUME HinderedStops, Choosing PROVE HinderedStops'
<1>1. ASSUME NEW c \in Contacts, OneClickUnsubscribe(c) PROVE HinderedStops'
  <2>1. \A w \in hindered' : Blocked(w) => Blocked(w)'
    BY <1>1 DEF OneClickUnsubscribe, Blocked, IsBlocked, DeliveryOf
  <2>2. QED
    BY <1>1, <2>1, HinderedElsewhere DEF OneClickUnsubscribe
<1>2. CASE worker' = worker /\ hindered' = StillHindered
  <2>1. \A w \in hindered' : Blocked(w)'
    BY <1>2 DEF StillHindered, Blocked, DeliveryOf
  <2>2. QED
    BY <1>2, <2>1, HinderedElsewhere DEF StillHindered
<1>3. QED
  BY <1>1, <1>2 DEF Choosing, PreferenceCenterUpdate, ArchiveOrRestore

\* No step of a consumer takes a hindered one to its send.
LEMMA HinderedConsuming ==
  ASSUME TypeOK, TypeOK', HinderedStops, Consuming PROVE HinderedStops'
<1>0. hindered' \subseteq Workers
  BY DEF TypeOK
<1>1. ASSUME NEW w \in Workers, NEW m \in queue, Deliver(w, m) \/ DeliverDuplicate(w, m)
      PROVE  HinderedStops'
  <2>1. At(w, "idle") /\ w \notin hindered /\ hindered' = hindered
    BY <1>1 DEF Deliver, DeliverDuplicate, Take, At, HinderedStops
  <2>2. \A v \in Workers \ {w} : worker'[v] = worker[v]
    BY <1>1 DEF Deliver, DeliverDuplicate, Take, TypeOK
  <2>3. suppressions' = suppressions /\ archived' = archived
    BY <1>1 DEF Deliver, DeliverDuplicate, Take, consent
  <2>4. QED
    BY <1>0, <2>1, <2>2, <2>3, HinderedConsumer
<1>2. ASSUME NEW w \in Workers, ClaimDelivery(w) PROVE HinderedStops'
  <2>1. ~At(w, "idle") /\ suppressions' = suppressions /\ archived' = archived
    BY <1>2 DEF ClaimDelivery, At, consent
  <2>2. CASE Acked(w)
    BY <1>0, <2>1, <2>2, WorkerAcked, HinderedConsumer
  <2>3. CASE Stand(w, "gating") /\ hindered' = (IF Blocked(w) THEN hindered \union {w} ELSE hindered)
    <3>1. worker'[w] = [worker[w] EXCEPT !.pc = "gating"] /\ worker[w] \in WorkerState /\
          \A v \in Workers \ {w} : worker'[v] = worker[v]
      BY <2>1, <2>3, WorkerStands DEF Busy, TypeOK
    <3>2. worker'[w].pc = "gating" /\ worker'[w].msg = worker[w].msg
      BY <3>1 DEF WorkerState
    <3>3. w \in hindered' => Blocked(w)
      BY <2>3 DEF HinderedStops
    <3>4. Blocked(w) => Blocked(w)'
      BY <2>1, <3>2 DEF Blocked, IsBlocked, DeliveryOf
    <3>5. QED
      BY <1>0, <2>1, <2>3, <3>1, <3>2, <3>3, <3>4, HinderedConsumer
  <2>4. QED
    BY <1>2, <2>2, <2>3 DEF ClaimDelivery, Blocked
<1>3. ASSUME NEW w \in Workers, CheckConsent(w) PROVE HinderedStops'
  <2> DEFINE pc == IF Eligible(DeliveryOf(w)) THEN "sending" ELSE "suppressing"
  <2>1. ~At(w, "idle") /\ hindered' = hindered /\ suppressions' = suppressions /\ archived' = archived
    BY <1>3 DEF CheckConsent, At, consent
  <2>2. worker'[w] = [worker[w] EXCEPT !.pc = pc] /\ worker[w] \in WorkerState /\
        \A v \in Workers \ {w} : worker'[v] = worker[v]
    BY <1>3, <2>1, WorkerStands DEF CheckConsent, Busy, TypeOK
  <2>3. worker'[w].pc = pc /\ worker'[w].msg = worker[w].msg
    BY <2>2 DEF WorkerState
  <2>4. w \in hindered => Blocked(w) /\ ~Eligible(DeliveryOf(w))
    BY DEF HinderedStops, Eligible, Blocked
  <2>5. Blocked(w) => Blocked(w)'
    BY <2>1, <2>3 DEF Blocked, IsBlocked, DeliveryOf
  <2>6. QED
    BY <1>0, <2>1, <2>2, <2>3, <2>4, <2>5, HinderedConsumer
<1>4. ASSUME NEW w \in Workers, Send(w) \/ SendRefused(w) PROVE HinderedStops'
  <2>1. w \notin hindered /\ hindered' = hindered /\ suppressions' = suppressions /\ archived' = archived
    BY <1>4 DEF Send, SendRefused, At, consent, HinderedStops
  <2>2. \A v \in Workers \ {w} : worker'[v] = worker[v]
    BY <1>4 DEF Send, SendRefused, Stand, TypeOK
  <2>3. QED
    BY <1>0, <2>1, <2>2, HinderedConsumer
<1>5. ASSUME NEW w \in Workers, Acked(w), suppressions \subseteq suppressions', archived' = archived
      PROVE  HinderedStops'
  BY <1>0, <1>5, WorkerAcked, HinderedConsumer
<1>6. ASSUME NEW w \in Workers, MarkDelivery(w) \/ Requeue(w) \/ FailDelivery(w)
                                \/ MarkProviderSuppressed(w) \/ ConsumerFails(w)
      PROVE  HinderedStops'
  <2>1. Acked(w) /\ suppressions \subseteq suppressions' /\ archived' = archived
    BY <1>6 DEF MarkDelivery, Requeue, FailDelivery, MarkProviderSuppressed, ConsumerFails, consent
  <2>2. QED
    BY <1>5, <2>1
<1>7. ASSUME NEW w \in Workers, CallFails(w) PROVE HinderedStops'
  <2>1. ~At(w, "idle") /\ hindered' = hindered /\ suppressions' = suppressions /\ archived' = archived
    BY <1>7 DEF CallFails, At, consent
  <2>2. worker'[w] = [worker[w] EXCEPT !.pc = "requeueing"] /\ worker[w] \in WorkerState /\
        \A v \in Workers \ {w} : worker'[v] = worker[v]
    BY <1>7, <2>1, WorkerStands DEF CallFails, Busy, TypeOK
  <2>3. worker'[w].pc = "requeueing" /\ worker'[w].msg = worker[w].msg
    BY <2>2 DEF WorkerState
  <2>4. w \in hindered => Blocked(w)
    BY DEF HinderedStops
  <2>5. Blocked(w) => Blocked(w)'
    BY <2>1, <2>3 DEF Blocked, IsBlocked, DeliveryOf
  <2>6. QED
    BY <1>0, <2>1, <2>2, <2>3, <2>4, <2>5, HinderedConsumer
<1>8. QED
  BY <1>1, <1>2, <1>3, <1>4, <1>6, <1>7 DEF Consuming, Running

\* Suppressed, unsubscribed and archived contacts are not sent to, in every
\* instance and whatever hazards strike: processDelivery reads the consent
\* after its claim, so that who was blocked at the claim and stays so is found
\* to be blocked.
THEOREM SuppressionAlwaysStops == Spec => []SuppressionStopsSend
<1>1. Init => HinderedStops
  BY DEF Init, HinderedStops
<1>2. TypeOK /\ TypeOK' /\ HinderedStops /\ [Next]_vars => HinderedStops'
  <2> SUFFICES ASSUME TypeOK, TypeOK', HinderedStops, [Next]_vars PROVE HinderedStops'
    OBVIOUS
  <2>1. CASE Creating \/ Scheduling \/ UNCHANGED vars
    <3>1. UNCHANGED <<worker, hindered, suppressions, archived>>
      BY <2>1 DEF Creating, InsertQueuedDelivery, SendMessage, CreatorDies, Scheduling,
           ScanDueDeliveries, TimerElapses, ReplayDeadLetter, consent, vars
    <3>2. QED
      BY <3>1 DEF HinderedStops, Blocked, DeliveryOf
  <2>2. CASE Reporting
    <3>1. worker' = worker /\ hindered' = hindered /\ archived' = archived /\
          suppressions \subseteq suppressions'
      BY <2>2 DEF Reporting, Report, LookUpEvent, ApplyEvent, EventConsumerDies, consent
    <3>2. \A w \in hindered' : Blocked(w) => Blocked(w)'
      BY <3>1 DEF Blocked, IsBlocked, DeliveryOf
    <3>3. QED
      BY <3>1, <3>2, HinderedElsewhere
  <2>3. QED
    BY <2>1, <2>2, HinderedChoosing, HinderedConsuming DEF Next
<1>3. HinderedStops => SuppressionStopsSend
  BY DEF HinderedStops, SuppressionStopsSend
<1>4. QED
  BY <1>1, <1>2, <1>3, TypeCorrect, PTL DEF Spec

-----------------------------------------------------------------------------
(* Message ids: what the provider may report on can be looked up.          *)

\* The id of one row, as a function of the row and of how often it was sent.
IdNamesSend(r, n) ==
  /\ r.id <= n
  /\ r.status \in {"accepted", "delivered"} => r.id # 0
  /\ r.status = "absent" => r.id = 0

\* The inductive invariant.
IdsNameSends ==
  /\ \A d \in Deliveries : IdNamesSend(row[d], sent[d])
  /\ \A w \in Workers : At(w, "accepting") => worker[w].id \in 1..sent[DeliveryOf(w)]
  /\ eventWorker # NoEvent => row[eventWorker.delivery].id # 0

\* A step that writes no id, and makes no row absent, accepted or delivered
\* that was not, and lets nobody else accept.
LEMMA IdsStay ==
  ASSUME TypeOK, TypeOK', IdsNameSends, sent' = sent, eventWorker' = eventWorker,
         \A d \in Deliveries :
           \/ row'[d] = row[d]
           \/ /\ row'[d].id = row[d].id
              /\ row'[d].status \notin {"absent", "accepted", "delivered"},
         \A w \in Workers : worker'[w] = worker[w] \/ worker'[w].pc # "accepting"
  PROVE  IdsNameSends'
<1>1. ASSUME NEW d \in Deliveries PROVE IdNamesSend(row'[d], sent'[d]) /\ row'[d].id = row[d].id
  BY DEF IdsNameSends, IdNamesSend
<1>2. ASSUME NEW w \in Workers, worker'[w].pc = "accepting"
      PROVE  worker'[w].id \in 1..sent'[worker'[w].msg.delivery]
  BY <1>2 DEF IdsNameSends, At, DeliveryOf
<1>3. eventWorker # NoEvent => eventWorker.delivery \in Deliveries
  BY DeliveryAssumption DEF TypeOK, Event
<1>4. QED
  BY <1>1, <1>2, <1>3 DEF IdsNameSends, At, DeliveryOf

\* What a consumer writes of an id is the id it was given, whether the call
\* that writes it succeeds, or throws before or after it wrote.
LEMMA IdsWritten ==
  ASSUME TypeOK, TypeOK', IdsNameSends, NEW w \in Workers, MarkDelivery(w) \/ CallFails(w)
  PROVE  IdsNameSends'
<1> DEFINE d == DeliveryOf(w)
<1>1. d \in Deliveries /\ row[d] \in Row /\ row'[d] \in {row[d], Written(w)} /\ sent' = sent /\
      eventWorker' = eventWorker /\ \A c \in Deliveries \ {d} : row'[c] = row[c]
  BY BusyHolds DEF MarkDelivery, CallFails, At, TypeOK, provider
<1>2. \A v \in Workers : worker'[v] = worker[v] \/ worker'[v].pc # "accepting"
  <2>1. CASE MarkDelivery(w)
    BY <2>1, WorkerAcked DEF MarkDelivery, IdleWorker
  <2>2. CASE CallFails(w)
    <3>1. worker'[w] = [worker[w] EXCEPT !.pc = "requeueing"] /\ worker[w] \in WorkerState /\
          \A v \in Workers \ {w} : worker'[v] = worker[v]
      BY <2>2, WorkerStands DEF CallFails, Busy, At, TypeOK
    <3>2. worker'[w].pc = "requeueing"
      BY <3>1 DEF WorkerState
    <3>3. QED
      BY <3>1, <3>2
  <2>3. QED
    BY <2>1, <2>2
<1>3. CASE row'[d] = Accepted(row[d], worker[w].id) /\ At(w, "accepting") /\ row[d].status = "sending"
  <2>1. worker[w].id \in 1..sent[d] /\ sent[d] \in Nat
    BY <1>1, <1>3 DEF IdsNameSends, TypeOK
  <2>2. row'[d] = [row[d] EXCEPT !.status = "accepted", !.id = worker[w].id]
    BY <1>1, <1>3 DEF Accepted
  <2>3. row'[d].status = "accepted" /\ row'[d].id = worker[w].id
    BY <1>1, <2>2 DEF Row
  <2>4. IdNamesSend(row'[d], sent'[d]) /\ row'[d].id # 0
    BY <1>1, <2>1, <2>3 DEF IdNamesSend
  <2>5. \A c \in Deliveries : IdNamesSend(row'[c], sent'[c])
    BY <1>1, <2>4 DEF IdsNameSends
  <2>6. \A v \in Workers : worker'[v].pc = "accepting" =>
          worker'[v].id \in 1..sent'[worker'[v].msg.delivery]
    BY <1>1, <1>2 DEF IdsNameSends, At, DeliveryOf
  <2>7. eventWorker # NoEvent => eventWorker.delivery \in Deliveries
    BY DeliveryAssumption DEF TypeOK, Event
  <2>8. QED
    BY <1>1, <2>4, <2>5, <2>6, <2>7 DEF IdsNameSends, At, DeliveryOf
<1>4. CASE row'[d] = row[d]
  BY <1>1, <1>2, <1>4, IdsStay
<1>5. CASE row'[d] = [row[d] EXCEPT !.status = "suppressed"]
  <2>1. row'[d].status = "suppressed" /\ row'[d].id = row[d].id
    BY <1>1, <1>5 DEF Row
  <2>2. QED
    BY <1>1, <1>2, <2>1, IdsStay
<1>6. QED
  BY <1>1, <1>3, <1>4, <1>5 DEF Written, Accepted, At

\* A send gives the consumer the id of a send.
LEMMA IdsSend ==
  ASSUME TypeOK, TypeOK', IdsNameSends, NEW w \in Workers, Send(w)
  PROVE  IdsNameSends'
<1> DEFINE d == DeliveryOf(w)
<1>1. d \in Deliveries /\ row' = row /\ eventWorker' = eventWorker /\ sent[d] \in Nat /\
      worker[w] \in WorkerState
  BY BusyHolds DEF Send, At, TypeOK, provider
<1>2. sent'[d] = sent[d] + 1 /\ \A c \in Deliveries \ {d} : sent'[c] = sent[c]
  BY <1>1 DEF Send, TypeOK
<1>3. \A c \in Deliveries : sent[c] \in Nat /\ sent'[c] \in Nat /\ sent[c] <= sent'[c]
  BY <1>1, <1>2 DEF TypeOK
<1>4. ASSUME NEW c \in Deliveries PROVE IdNamesSend(row'[c], sent'[c])
  <2>1. row[c].id \in Nat /\ IdNamesSend(row[c], sent[c])
    BY DEF TypeOK, Row, IdsNameSends
  <2>2. QED
    BY <1>1, <1>3, <2>1 DEF IdNamesSend
<1>5. ASSUME NEW v \in Workers, worker'[v].pc = "accepting"
      PROVE  worker'[v].id \in 1..sent'[worker'[v].msg.delivery]
  <2>1. CASE v = w
    <3>1. worker' = [worker EXCEPT ![w] = [@ EXCEPT !.pc = "accepting", !.id = sent[d] + 1]]
      BY <1>1, <1>5, <2>1 DEF Send, Stand, TypeOK, WorkerState
    <3>2. worker'[w].id = sent[d] + 1 /\ worker'[w].msg = worker[w].msg
      BY <1>1, <3>1 DEF TypeOK, WorkerState
    <3>3. QED
      BY <1>1, <1>2, <2>1, <3>2 DEF DeliveryOf
  <2>2. CASE v # w
    <3>1. worker'[v] = worker[v]
      BY <2>2 DEF Send, Stand, TypeOK
    <3>2. worker[v].id \in 1..sent[DeliveryOf(v)] /\ DeliveryOf(v) \in Deliveries
      BY <1>5, <3>1, BusyHolds DEF IdsNameSends, At
    <3>3. QED
      BY <1>3, <3>1, <3>2 DEF DeliveryOf
  <2>3. QED
    BY <2>1, <2>2
<1>6. QED
  BY <1>1, <1>4, <1>5 DEF IdsNameSends, At, DeliveryOf

\* The other steps of consumers write no id.
LEMMA IdsOtherConsuming ==
  ASSUME TypeOK, TypeOK', IdsNameSends, NEW w \in Workers,
         \/ ClaimDelivery(w) \/ CheckConsent(w) \/ SendRefused(w) \/ Requeue(w) \/ FailDelivery(w)
         \/ MarkProviderSuppressed(w) \/ ConsumerFails(w)
         \/ \E m \in queue : Deliver(w, m) \/ DeliverDuplicate(w, m)
  PROVE  IdsNameSends'
<1>1. sent' = sent /\ eventWorker' = eventWorker
  BY DEF ClaimDelivery, CheckConsent, SendRefused, Requeue, FailDelivery,
     MarkProviderSuppressed, ConsumerFails, Deliver, DeliverDuplicate, Take, provider
<1>2. ASSUME NEW v \in Workers PROVE worker'[v] = worker[v] \/ worker'[v].pc # "accepting"
  <2>1. CASE Acked(w)
    BY <2>1, WorkerAcked DEF IdleWorker
  <2>2. ASSUME NEW pc \in Busy \ {"accepting"}, Stand(w, pc)
        PROVE  worker'[v] = worker[v] \/ worker'[v].pc # "accepting"
    BY <2>2 DEF Stand, TypeOK, WorkerState
  <2>3. CASE \E m \in queue : Take(w, m)
    BY <2>3 DEF Take, TypeOK, WorkerState
  <2>4. Acked(w) \/ (\E pc \in Busy \ {"accepting"} : Stand(w, pc)) \/ (\E m \in queue : Take(w, m))
    BY DEF ClaimDelivery, CheckConsent, SendRefused, Requeue, FailDelivery,
       MarkProviderSuppressed, ConsumerFails, Deliver, DeliverDuplicate, Busy
  <2>5. QED
    BY <2>1, <2>2, <2>3, <2>4
<1>3. ASSUME NEW d \in Deliveries
      PROVE  \/ row'[d] = row[d]
             \/ /\ row'[d].id = row[d].id
                /\ row'[d].status \notin {"absent", "accepted", "delivered"}
  <2>1. row[d] \in Row
    BY DEF TypeOK
  <2>2. \/ row' = row
        \/ \E c \in Deliveries, status \in {"sending", "suppressed"} :
             row' = [row EXCEPT ![c].status = status]
        \/ \E c \in Deliveries : row' = [row EXCEPT ![c] = Requeued(@)]
        \/ \E c \in Deliveries :
             row' = [row EXCEPT ![c] =
                       IF @.status = "sending" THEN [@ EXCEPT !.status = "failed", !.due = TRUE]
                       ELSE @]
    BY BusyHolds DEF ClaimDelivery, CheckConsent, SendRefused, Requeue, FailDelivery,
       MarkProviderSuppressed, ConsumerFails, Deliver, DeliverDuplicate, Take, At
  <2>3. ASSUME NEW c \in Deliveries, NEW status \in {"sending", "suppressed"},
               row' = [row EXCEPT ![c].status = status]
        PROVE  row'[d] = row[d] \/ (row'[d].id = row[d].id /\ row'[d].status = status)
    BY <2>1, <2>3 DEF TypeOK, Row
  <2>4. ASSUME NEW c \in Deliveries, row' = [row EXCEPT ![c] = Requeued(@)]
        PROVE  row'[d] = row[d] \/ (row'[d].id = row[d].id /\ row'[d].status = "queued")
    BY <2>1, <2>4 DEF Requeued, TypeOK, Row
  <2>5. ASSUME NEW c \in Deliveries,
               row' = [row EXCEPT ![c] =
                         IF @.status = "sending" THEN [@ EXCEPT !.status = "failed", !.due = TRUE]
                         ELSE @]
        PROVE  row'[d] = row[d] \/ (row'[d].id = row[d].id /\ row'[d].status = "failed")
    BY <2>1, <2>5 DEF TypeOK, Row
  <2>6. QED
    BY <2>2, <2>3, <2>4, <2>5
<1>4. QED
  BY <1>1, <1>2, <1>3, IdsStay

\* An event is applied to a row that has an id.
LEMMA IdsReporting ==
  ASSUME TypeOK, TypeOK', IdsNameSends, Reporting
  PROVE  IdsNameSends'
<1>1. worker' = worker /\ sent' = sent
  BY DEF Reporting, Report, LookUpEvent, ApplyEvent, EventConsumerDies
<1>2. CASE row' = row /\ (eventWorker' = eventWorker \/ eventWorker' = NoEvent)
  BY <1>1, <1>2 DEF IdsNameSends, At, DeliveryOf
<1>3. ASSUME NEW event \in events, LookUpEvent(event) PROVE IdsNameSends'
  <2>1. event \in Event /\ event.id # 0 /\ row' = row
    BY <1>3 DEF TypeOK, Event, LookUpEvent
  <2>2. eventWorker' # NoEvent => row[eventWorker'.delivery].id # 0
    BY <1>3, <2>1 DEF LookUpEvent
  <2>3. QED
    BY <1>1, <2>1, <2>2 DEF IdsNameSends, At, DeliveryOf
<1>4. CASE ApplyEvent
  <2> DEFINE d == eventWorker.delivery
             status == StatusOf(eventWorker.kind)
  <2>1. d \in Deliveries /\ row[d] \in Row /\ row[d].id # 0 /\ eventWorker' = NoEvent
    BY <1>4, DeliveryAssumption DEF ApplyEvent, IdsNameSends, TypeOK, Event
  <2>2. CASE status = "none"
    BY <1>1, <1>2, <1>4, <2>1, <2>2 DEF ApplyEvent
  <2>3. CASE status # "none"
    <3>1. row' = [row EXCEPT ![d].status = status] /\ status \in {"delivered", "failed"}
      BY <1>4, <2>3 DEF ApplyEvent, StatusOf
    <3>2. row'[d].id = row[d].id /\ row'[d].status = status /\
          \A c \in Deliveries \ {d} : row'[c] = row[c]
      BY <2>1, <3>1 DEF TypeOK, Row
    <3>3. \A c \in Deliveries : IdNamesSend(row'[c], sent'[c])
      BY <1>1, <2>1, <3>1, <3>2 DEF IdsNameSends, IdNamesSend
    <3>4. QED
      BY <1>1, <2>1, <3>3 DEF IdsNameSends, At, DeliveryOf
  <2>4. QED
    BY <2>2, <2>3
<1>5. QED
  BY <1>2, <1>3, <1>4 DEF Reporting, Report, EventConsumerDies

\* An accepted or delivered row names a send of its delivery, in every instance
\* and whatever hazards strike: markDeliveryAccepted stores the provider's id
\* with the status, and an event that is applied was found by that id.
THEOREM AcceptedAlwaysHasId == Spec => []AcceptedHasId
<1>1. Init => IdsNameSends
  BY DEF Init, IdsNameSends, IdNamesSend, NoRow, IdleWorker, At
<1>2. TypeOK /\ TypeOK' /\ IdsNameSends /\ [Next]_vars => IdsNameSends'
  <2> SUFFICES ASSUME TypeOK, TypeOK', IdsNameSends, [Next]_vars PROVE IdsNameSends'
    OBVIOUS
  <2>1. CASE Creating
    <3>1. sent' = sent /\ eventWorker' = eventWorker /\ worker' = worker
      BY <2>1 DEF Creating, InsertQueuedDelivery, SendMessage, CreatorDies, provider
    <3>2. ASSUME NEW d \in Deliveries
          PROVE  row'[d] = row[d] \/ (row'[d].id = row[d].id /\ row'[d].status = "queued")
      BY <2>1 DEF Creating, InsertQueuedDelivery, SendMessage, CreatorDies, TypeOK, Row,
         IdsNameSends, IdNamesSend
    <3>3. QED
      BY <3>1, <3>2, IdsStay
  <2>2. CASE Choosing \/ UNCHANGED vars
    <3>1. UNCHANGED <<row, sent, eventWorker, worker>>
      BY <2>2 DEF Choosing, OneClickUnsubscribe, PreferenceCenterUpdate, ArchiveOrRestore,
           provider, vars
    <3>2. QED
      BY <3>1 DEF IdsNameSends, At, DeliveryOf
  <2>3. CASE Consuming
    BY <2>3, IdsWritten, IdsSend, IdsOtherConsuming DEF Consuming, Running
  <2>4. CASE Scheduling
    <3>1. sent' = sent /\ eventWorker' = eventWorker /\ worker' = worker
      BY <2>4 DEF Scheduling, ScanDueDeliveries, TimerElapses, ReplayDeadLetter, provider
    <3>2. ASSUME NEW d \in Deliveries
          PROVE  row'[d] = row[d] \/ (row'[d].id = row[d].id /\ row'[d].status = "queued")
      BY <2>4 DEF Scheduling, ScanDueDeliveries, TimerElapses, ReplayDeadLetter, TypeOK, Row
    <3>3. QED
      BY <3>1, <3>2, IdsStay
  <2>5. QED
    BY <2>1, <2>2, <2>3, <2>4, IdsReporting DEF Next
<1>3. TypeOK /\ IdsNameSends => AcceptedHasId
  <2> SUFFICES ASSUME TypeOK, IdsNameSends, NEW d \in Deliveries,
                      row[d].status \in {"accepted", "delivered"}
               PROVE  row[d].id \in 1..sent[d]
    BY DEF AcceptedHasId
  <2>1. row[d].id \in Nat /\ sent[d] \in Nat
    BY DEF TypeOK, Row
  <2>2. row[d].id # 0 /\ row[d].id <= sent[d]
    BY DEF IdsNameSends, IdNamesSend
  <2>3. QED
    BY <2>1, <2>2
<1>4. QED
  BY <1>1, <1>2, <1>3, TypeCorrect, PTL DEF Spec

-----------------------------------------------------------------------------
(* One consumer per delivery, while the provider reports on nothing.       *)

\* A consumer that has claimed a delivery and has not finished with it.
Holder(w) == ~At(w, "idle") /\ ~At(w, "found")

InHand == {"sending", "accepted", "suppressed"}

\* The inductive invariant: no two holders of a row, no row in hand that could
\* be claimed, and no event that could take it out of hand.
Held ==
  /\ \A v, w \in Workers : Holder(v) /\ Holder(w) /\ DeliveryOf(v) = DeliveryOf(w) => v = w
  /\ \A w \in Workers : Holder(w) => row[DeliveryOf(w)].status \in InHand

NoReports == events = {} /\ eventWorker = NoEvent

\* A provider that reports on nothing has no events in flight.
LEMMA NoReportsInvariant ==
  ASSUME Limit["event"] = 0 PROVE Spec => []NoReports
<1>1. Init => NoReports
  BY DEF Init, NoReports
<1>2. TypeOK /\ NoReports /\ [Next]_vars => NoReports'
  <2> SUFFICES ASSUME TypeOK, NoReports, [Next]_vars PROVE NoReports'
    OBVIOUS
  <2>1. CASE Creating \/ Choosing \/ Consuming \/ Scheduling \/ UNCHANGED vars
    <3>1. UNCHANGED provider
      BY <2>1 DEF Creating, InsertQueuedDelivery, SendMessage, CreatorDies, Choosing,
           OneClickUnsubscribe, PreferenceCenterUpdate, ArchiveOrRestore, Consuming, Running,
           Deliver, DeliverDuplicate, Take, ClaimDelivery, CheckConsent, Send, MarkDelivery,
           Requeue, FailDelivery, MarkProviderSuppressed, SendRefused, CallFails, ConsumerFails,
           Scheduling, ScanDueDeliveries, TimerElapses, ReplayDeadLetter, vars, provider
    <3>2. QED
      BY <3>1 DEF NoReports, provider
  <2>2. CASE Reporting
    <3>1. ~Spend("event")
      BY DEF Spend, TypeOK
    <3>2. QED
      BY <2>2, <3>1 DEF NoReports, Reporting, Report, LookUpEvent, ApplyEvent, EventConsumerDies
  <2>3. QED
    BY <2>1, <2>2 DEF Next
<1>3. QED
  BY <1>1, <1>2, TypeCorrect, PTL DEF Spec

\* A step of w that changes no row but the one w holds, and holds nothing
\* afterwards that it did not hold.
LEMMA HeldStep ==
  ASSUME TypeOK, Held, NEW w \in Workers,
         \A v \in Workers \ {w} : worker'[v] = worker[v],
         row' = row \/ (Holder(w) /\
                        \A d \in Deliveries \ {DeliveryOf(w)} : row'[d] = row[d]),
         Holder(w)' => /\ Holder(w) /\ DeliveryOf(w)' = DeliveryOf(w)
                       /\ row'[DeliveryOf(w)].status \in InHand
  PROVE  Held'
<1>1. ASSUME NEW v \in Workers \ {w} PROVE Holder(v)' = Holder(v) /\ DeliveryOf(v)' = DeliveryOf(v)
  BY DEF Holder, At, DeliveryOf
<1>2. ASSUME NEW v \in Workers, Holder(v)' PROVE Holder(v) /\ DeliveryOf(v)' = DeliveryOf(v)
  <2>1. CASE v = w
    BY <1>2, <2>1
  <2>2. CASE v # w
    BY <1>1, <1>2, <2>2
  <2>3. QED
    BY <2>1, <2>2
<1>3. ASSUME NEW v \in Workers, Holder(v)' PROVE (row[DeliveryOf(v)].status)' \in InHand
  <2>1. Holder(v) /\ DeliveryOf(v)' = DeliveryOf(v) /\ row[DeliveryOf(v)].status \in InHand
    BY <1>2, <1>3 DEF Held
  <2>2. DeliveryOf(v) \in Deliveries
    BY <2>1, BusyHolds DEF Holder
  <2>3. CASE v = w
    BY <1>3, <2>1, <2>3
  <2>4. CASE v # w /\ row' = row
    BY <2>1, <2>4
  <2>5. CASE v # w /\ row' # row
    <3>1. DeliveryOf(v) # DeliveryOf(w)
      BY <2>1, <2>5 DEF Held
    <3>2. row'[DeliveryOf(v)] = row[DeliveryOf(v)]
      BY <2>2, <2>5, <3>1
    <3>3. QED
      BY <2>1, <3>2
  <2>6. QED
    BY <2>3, <2>4, <2>5
<1>4. \A u, v \in Workers : Holder(u)' /\ Holder(v)' /\ DeliveryOf(u)' = DeliveryOf(v)' => u = v
  BY <1>2 DEF Held
<1>5. QED
  BY <1>3, <1>4 DEF Held

\* Consumers claim what nobody holds, and change no row but the one they hold.
LEMMA HeldConsuming ==
  ASSUME TypeOK, Held, Consuming
  PROVE  Held'
<1>1. ASSUME NEW w \in Workers, NEW m \in queue, Deliver(w, m) \/ DeliverDuplicate(w, m)
      PROVE  Held'
  <2>1. row' = row /\ \A v \in Workers \ {w} : worker'[v] = worker[v]
    BY <1>1 DEF Deliver, DeliverDuplicate, Take, TypeOK
  <2>2. ~Holder(w)'
    BY <1>1 DEF Deliver, DeliverDuplicate, Take, TypeOK, Holder, At
  <2>3. QED
    BY <2>1, <2>2, HeldStep
<1>2. ASSUME NEW w \in Workers, ClaimDelivery(w) PROVE Held'
  <2> DEFINE d == DeliveryOf(w)
  <2>1. ~At(w, "idle") /\ ~Holder(w) /\ d \in Deliveries /\ row[d] \in Row
    BY <1>2, BusyHolds DEF ClaimDelivery, At, Holder, TypeOK
  <2>2. CASE Acked(w) /\ row' = row
    <3>1. ~Holder(w)'
      BY <2>2, WorkerAcked DEF Holder, At, IdleWorker
    <3>2. QED
      BY <2>2, <3>1, WorkerAcked, HeldStep
  <2>3. CASE ClaimSucceeds(d) /\ row' = [row EXCEPT ![d].status = "sending"] /\ Stand(w, "gating")
    <3>1. \A v \in Workers : Holder(v) => DeliveryOf(v) # d
      BY <2>3 DEF ClaimSucceeds, Held, InHand
    <3>2. worker'[w] = [worker[w] EXCEPT !.pc = "gating"] /\ worker[w] \in WorkerState /\
          \A v \in Workers \ {w} : worker'[v] = worker[v]
      BY <2>1, <2>3, WorkerStands DEF Busy, TypeOK
    <3>3. DeliveryOf(w)' = d
      BY <3>2 DEF WorkerState, DeliveryOf
    <3>4. row'[d].status = "sending" /\ \A c \in Deliveries \ {d} : row'[c] = row[c]
      BY <2>1, <2>3 DEF TypeOK, Row
    <3>5. ASSUME NEW v \in Workers, Holder(v)', v # w
          PROVE  Holder(v) /\ DeliveryOf(v)' = DeliveryOf(v) /\ DeliveryOf(v) # d
      BY <3>1, <3>2, <3>5 DEF Holder, At, DeliveryOf
    <3>6. ASSUME NEW v \in Workers, Holder(v)' PROVE (row[DeliveryOf(v)].status)' \in InHand
      <4>1. CASE v = w
        BY <3>3, <3>4, <4>1 DEF InHand
      <4>2. CASE v # w
        <5>1. DeliveryOf(v) \in Deliveries
          BY <3>5, <3>6, <4>2, BusyHolds DEF Holder
        <5>2. QED
          BY <3>4, <3>5, <3>6, <4>2, <5>1 DEF Held
      <4>3. QED
        BY <4>1, <4>2
    <3>7. \A u, v \in Workers : Holder(u)' /\ Holder(v)' /\ DeliveryOf(u)' = DeliveryOf(v)' => u = v
      BY <3>3, <3>5 DEF Held
    <3>8. QED
      BY <3>6, <3>7 DEF Held
  <2>4. QED
    BY <1>2, <2>2, <2>3 DEF ClaimDelivery
<1>3. ASSUME NEW w \in Workers, CheckConsent(w) \/ Send(w) \/ SendRefused(w)
      PROVE  Held'
  <2>1. Holder(w) /\ row' = row /\ worker[w] \in WorkerState /\
        \A v \in Workers \ {w} : worker'[v] = worker[v]
    BY <1>3 DEF CheckConsent, Send, SendRefused, Stand, At, Holder, TypeOK
  <2>2. worker'[w].msg = worker[w].msg
    <3>1. ASSUME NEW pc, Stand(w, pc) PROVE worker'[w].msg = worker[w].msg
      BY <2>1, <3>1 DEF Stand, TypeOK, WorkerState
    <3>2. ASSUME NEW id, worker' = [worker EXCEPT ![w] = [@ EXCEPT !.pc = "accepting", !.id = id]]
          PROVE  worker'[w].msg = worker[w].msg
      BY <2>1, <3>2 DEF TypeOK, WorkerState
    <3>3. QED
      BY <1>3, <3>1, <3>2 DEF CheckConsent, Send, SendRefused
  <2>3. DeliveryOf(w)' = DeliveryOf(w)
    BY <2>2 DEF DeliveryOf
  <2>4. QED
    BY <2>1, <2>3, HeldStep DEF Held
<1>4. ASSUME NEW w \in Workers, MarkDelivery(w) \/ Requeue(w) \/ FailDelivery(w)
                                \/ MarkProviderSuppressed(w) \/ ConsumerFails(w)
      PROVE  Held'
  <2>1. Acked(w)
    BY <1>4 DEF MarkDelivery, Requeue, FailDelivery, MarkProviderSuppressed, ConsumerFails
  <2>2. ~Holder(w)' /\ \A v \in Workers \ {w} : worker'[v] = worker[v]
    BY <2>1, WorkerAcked DEF Holder, At, IdleWorker
  <2>3. row' = row \/ (Holder(w) /\ \A d \in Deliveries \ {DeliveryOf(w)} : row'[d] = row[d])
    BY <1>4, BusyHolds DEF MarkDelivery, Requeue, FailDelivery, MarkProviderSuppressed,
       ConsumerFails, Holder, At, TypeOK
  <2>4. QED
    BY <2>2, <2>3, HeldStep
<1>5. ASSUME NEW w \in Workers, CallFails(w) PROVE Held'
  <2> DEFINE d == DeliveryOf(w)
  <2>1. Holder(w) /\ ~At(w, "idle") /\ d \in Deliveries /\ row[d] \in Row
    BY <1>5, BusyHolds DEF CallFails, At, Holder, TypeOK
  <2>2. worker'[w] = [worker[w] EXCEPT !.pc = "requeueing"] /\ worker[w] \in WorkerState /\
        \A v \in Workers \ {w} : worker'[v] = worker[v]
    BY <1>5, <2>1, WorkerStands DEF CallFails, Busy, TypeOK
  <2>3. DeliveryOf(w)' = d
    BY <2>2 DEF WorkerState, DeliveryOf
  <2>4. row'[d] \in {row[d], Written(w)} /\ \A c \in Deliveries \ {d} : row'[c] = row[c]
    BY <1>5, <2>1 DEF CallFails, TypeOK
  <2>5. row[d].status \in InHand /\ Written(w).status \in InHand
    BY <2>1 DEF Held, Written, Accepted, InHand, Row, At
  <2>6. QED
    BY <2>1, <2>2, <2>3, <2>4, <2>5, HeldStep
<1>6. QED
  BY <1>1, <1>2, <1>3, <1>4, <1>5 DEF Consuming, Running

\* Without reports no row is held twice, always.
LEMMA HeldInvariant ==
  ASSUME Limit["event"] = 0 PROVE Spec => []Held
<1>1. Init => Held
  BY DEF Init, Held, Holder, At, IdleWorker
<1>2. TypeOK /\ NoReports /\ Held /\ [Next]_vars => Held'
  <2> SUFFICES ASSUME TypeOK, NoReports, Held, [Next]_vars PROVE Held'
    OBVIOUS
  <2>1. CASE Creating \/ Scheduling
    <3>1. worker' = worker
      BY <2>1 DEF Creating, InsertQueuedDelivery, SendMessage, CreatorDies, Scheduling,
           ScanDueDeliveries, TimerElapses, ReplayDeadLetter
    <3>2. ASSUME NEW d \in Deliveries, row[d].status \in InHand PROVE row'[d] = row[d]
      BY <2>1, <3>2 DEF Creating, InsertQueuedDelivery, SendMessage, CreatorDies, Scheduling,
           ScanDueDeliveries, TimerElapses, ReplayDeadLetter, TypeOK, InHand
    <3>3. \A w \in Workers : Holder(w) => DeliveryOf(w) \in Deliveries
      BY BusyHolds DEF Holder
    <3>4. QED
      BY <3>1, <3>2, <3>3 DEF Held, Holder, At, DeliveryOf
  <2>2. CASE Choosing \/ Reporting \/ UNCHANGED vars
    <3>1. UNCHANGED <<row, worker>>
      BY <2>2 DEF NoReports, Choosing, OneClickUnsubscribe, PreferenceCenterUpdate,
           ArchiveOrRestore, Reporting, Report, LookUpEvent, ApplyEvent, EventConsumerDies, vars
    <3>2. QED
      BY <3>1 DEF Held, Holder, At, DeliveryOf
  <2>3. QED
    BY <2>1, <2>2, HeldConsuming DEF Next
<1>3. QED
  BY <1>1, <1>2, TypeCorrect, NoReportsInvariant, PTL DEF Spec

\* Between its claim and its outcome a delivery belongs to one consumer, in
\* every instance in which the provider reports on nothing, whatever else goes
\* wrong: claimDelivery's UPDATE checks the status it read.
THEOREM AlwaysOneHolder ==
  ASSUME Limit["event"] = 0 PROVE Spec => []OneHolder
<1>1. Held => OneHolder
  <2> SUFFICES ASSUME Held, NEW d \in Deliveries
               PROVE  Cardinality({ w \in Workers : Holds(w, d) }) <= 1
    BY DEF OneHolder
  <2> DEFINE H == { w \in Workers : Holds(w, d) }
  <2>1. \A v, w \in H : v = w
    BY DEF Held, Holds, Holder
  <2>2. CASE H = {}
    BY <2>2, FS_EmptySet
  <2>3. CASE H # {}
    <3>1. PICK w \in H : TRUE
      BY <2>3
    <3>2. H = {w}
      BY <2>1, <3>1
    <3>3. Cardinality(H) = 1
      BY <3>2, FS_Singleton
    <3>4. QED
      BY <3>3
  <2>4. QED
    BY <2>2, <2>3
<1>2. QED
  BY <1>1, HeldInvariant, PTL

\* What was accepted, delivered or suppressed is not sent again, in every
\* instance in which the provider reports on nothing: every write of a status
\* that can be claimed is conditional on "sending".
THEOREM SettledAlwaysStays ==
  ASSUME Limit["event"] = 0 PROVE Spec => SettledStays
<1>1. TypeOK /\ NoReports /\ [Next]_vars =>
        [\A d \in Deliveries : row[d].status \in Settled => row'[d].status \in Settled]_vars
  <2> SUFFICES ASSUME TypeOK, NoReports, [Next]_vars,
                      NEW d \in Deliveries, row[d].status \in Settled
               PROVE  row'[d].status \in Settled
    OBVIOUS
  <2>1. row[d] \in Row
    BY DEF TypeOK
  <2>2. CASE Creating \/ Scheduling
    BY <2>1, <2>2 DEF Creating, InsertQueuedDelivery, SendMessage, CreatorDies, Scheduling,
       ScanDueDeliveries, TimerElapses, ReplayDeadLetter, TypeOK, Settled
  <2>3. CASE Choosing \/ Reporting \/ UNCHANGED vars
    <3>1. row' = row
      BY <2>3 DEF NoReports, Choosing, OneClickUnsubscribe, PreferenceCenterUpdate,
           ArchiveOrRestore, Reporting, Report, LookUpEvent, ApplyEvent, EventConsumerDies, vars
    <3>2. QED
      BY <3>1
  <2>4. CASE Consuming
    <3>1. PICK w \in Workers :
            \/ \E m \in queue : Deliver(w, m) \/ DeliverDuplicate(w, m)
            \/ Running(w) \/ SendRefused(w) \/ CallFails(w) \/ ConsumerFails(w)
      BY <2>4 DEF Consuming
    <3>2. CASE MarkDelivery(w) \/ CallFails(w)
      <4>1. row'[d] = row[d] \/ (d = DeliveryOf(w) /\ row'[d] = Written(w))
        BY <3>2 DEF MarkDelivery, CallFails, TypeOK
      <4>2. d = DeliveryOf(w) => Written(w).status \in Settled
        BY <2>1 DEF Written, Accepted, Settled, Row
      <4>3. QED
        BY <4>1, <4>2
    <3>3. CASE ClaimDelivery(w)
      BY <2>1, <3>3 DEF ClaimDelivery, ClaimSucceeds, Settled, TypeOK
    <3>4. CASE Requeue(w) \/ FailDelivery(w)
      BY <2>1, <3>4 DEF Requeue, Requeued, FailDelivery, Settled, TypeOK
    <3>5. CASE MarkProviderSuppressed(w)
      BY <2>1, <3>5 DEF MarkProviderSuppressed, Settled, TypeOK, Row
    <3>6. CASE CheckConsent(w) \/ Send(w) \/ SendRefused(w) \/ ConsumerFails(w)
               \/ \E m \in queue : Deliver(w, m) \/ DeliverDuplicate(w, m)
      BY <3>6 DEF CheckConsent, Send, SendRefused, ConsumerFails, Deliver, DeliverDuplicate, Take
    <3>7. QED
      BY <3>1, <3>2, <3>3, <3>4, <3>5, <3>6 DEF Running
  <2>5. QED
    BY <2>2, <2>3, <2>4 DEF Next
<1>2. QED
  BY <1>1, TypeCorrect, NoReportsInvariant, PTL DEF Spec, SettledStays

-----------------------------------------------------------------------------
(* Sends: only an unacknowledged one is repeated.                          *)

\* The inductive invariant: what may still be sent has been sent at most as
\* often as sends went unacknowledged.
Counted ==
  /\ \A d \in Deliveries : sent[d] <= 1 + spent["unack"]
  /\ \A d \in Deliveries :
       row[d].status \in {"absent", "queued", "failed"} => sent[d] <= spent["unack"]
  /\ \A w \in Workers :
       Holder(w) /\ ~At(w, "accepting") => sent[DeliveryOf(w)] <= spent["unack"]

\* A step that sends nothing: what it makes claimable was held or claimable,
\* and what it takes in hand was in hand or claimable.
LEMMA CountedStep ==
  ASSUME TypeOK, TypeOK', Counted, sent' = sent, spent'["unack"] = spent["unack"],
         \A d \in Deliveries :
           row'[d].status \in {"absent", "queued", "failed"} =>
             \/ row[d].status \in {"absent", "queued", "failed"}
             \/ \E w \in Workers : Holder(w) /\ ~At(w, "accepting") /\ DeliveryOf(w) = d,
         \A w \in Workers :
           Holder(w)' /\ ~At(w, "accepting")' =>
             \/ Holder(w) /\ ~At(w, "accepting") /\ DeliveryOf(w)' = DeliveryOf(w)
             \/ row[DeliveryOf(w)'].status \in {"queued", "failed"}
  PROVE  Counted'
<1>1. \A d \in Deliveries : (sent[d] <= 1 + spent["unack"])'
  BY DEF Counted
<1>2. ASSUME NEW d \in Deliveries, row'[d].status \in {"absent", "queued", "failed"}
      PROVE  (sent[d] <= spent["unack"])'
  BY <1>2 DEF Counted
<1>3. ASSUME NEW w \in Workers, Holder(w)', ~At(w, "accepting")'
      PROVE  (sent[DeliveryOf(w)] <= spent["unack"])'
  <2>1. DeliveryOf(w)' \in Deliveries
    BY <1>3 DEF TypeOK, WorkerState, Message, DeliveryOf, Holder, At
  <2>2. sent[DeliveryOf(w)'] <= spent["unack"]
    BY <1>3, <2>1 DEF Counted
  <2>3. QED
    BY <2>2
<1>4. QED
  BY <1>1, <1>2, <1>3 DEF Counted

\* A send is of a row sent only as often as sends went unacknowledged.
LEMMA CountedSend ==
  ASSUME TypeOK, TypeOK', Held, Counted, NEW w \in Workers, Send(w)
  PROVE  Counted'
<1> DEFINE d == DeliveryOf(w)
<1>1. /\ d \in Deliveries /\ Holder(w) /\ ~At(w, "accepting") /\ row' = row
      /\ \A v \in Workers \ {w} : worker'[v] = worker[v]
  BY BusyHolds DEF Send, Stand, At, Holder, TypeOK
<1>2. sent'[d] = sent[d] + 1 /\ \A c \in Deliveries \ {d} : sent'[c] = sent[c]
  BY <1>1 DEF Send, TypeOK
<1>3. spent["unack"] \in Nat /\ \A c \in Deliveries : sent[c] \in Nat
  BY DEF TypeOK
<1>4. sent[d] <= spent["unack"] /\ row[d].status \in InHand
  BY <1>1 DEF Counted, Held
<1>5. ASSUME NEW v \in Workers, Holder(v), v # w
      PROVE  DeliveryOf(v) # d /\ DeliveryOf(v) \in Deliveries
  BY <1>1, <1>5, BusyHolds DEF Held, Holder
<1>6. CASE spent' = spent /\
           worker' = [worker EXCEPT ![w] = [@ EXCEPT !.pc = "accepting", !.id = sent[d] + 1]]
  <2>1. worker'[w].pc = "accepting"
    BY <1>6 DEF TypeOK, WorkerState
  <2>2. \A c \in Deliveries : sent'[c] <= 1 + spent["unack"]
    BY <1>2, <1>3, <1>4 DEF Counted
  <2>3. ASSUME NEW c \in Deliveries, row[c].status \in {"absent", "queued", "failed"}
        PROVE  sent'[c] <= spent["unack"]
    BY <1>2, <1>4, <2>3 DEF Counted, InHand
  <2>4. ASSUME NEW v \in Workers, Holder(v)', ~At(v, "accepting")'
        PROVE  sent'[DeliveryOf(v)'] <= spent["unack"]
    <3>1. v # w /\ worker'[v] = worker[v]
      BY <1>1, <2>1, <2>4 DEF At
    <3>2. Holder(v) /\ ~At(v, "accepting") /\ DeliveryOf(v)' = DeliveryOf(v)
      BY <2>4, <3>1 DEF Holder, At, DeliveryOf
    <3>3. QED
      BY <1>2, <1>5, <3>1, <3>2 DEF Counted
  <2>5. QED
    BY <1>1, <1>6, <2>2, <2>3, <2>4 DEF Counted
<1>7. CASE Stand(w, "requeueing") /\ Spend("unack")
  <2>1. spent'["unack"] = spent["unack"] + 1
    BY <1>7 DEF Spend, TypeOK
  <2>2. DeliveryOf(w)' = d
    BY <1>7 DEF Stand, TypeOK, WorkerState, DeliveryOf
  <2>3. \A c \in Deliveries : sent'[c] <= 1 + spent'["unack"]
    BY <1>2, <1>3, <1>4, <2>1 DEF Counted
  <2>4. ASSUME NEW c \in Deliveries, row[c].status \in {"absent", "queued", "failed"}
        PROVE  sent'[c] <= spent'["unack"]
    BY <1>2, <1>3, <1>4, <2>1, <2>4 DEF Counted
  <2>5. ASSUME NEW v \in Workers, Holder(v)', ~At(v, "accepting")'
        PROVE  sent'[DeliveryOf(v)'] <= spent'["unack"]
    <3>1. CASE v = w
      <4>1. sent[d] \in Nat /\ sent'[d] <= spent'["unack"]
        BY <1>1, <1>2, <1>3, <1>4, <2>1
      <4>2. QED
        BY <2>2, <3>1, <4>1
    <3>2. CASE v # w
      <4>1. Holder(v) /\ ~At(v, "accepting") /\ DeliveryOf(v)' = DeliveryOf(v)
        BY <1>1, <2>5, <3>2 DEF Holder, At, DeliveryOf
      <4>2. sent'[DeliveryOf(v)] = sent[DeliveryOf(v)] /\ sent[DeliveryOf(v)] <= spent["unack"] /\
            DeliveryOf(v) \in Deliveries
        BY <1>2, <1>5, <3>2, <4>1 DEF Counted
      <4>3. QED
        BY <1>3, <2>1, <4>1, <4>2
    <3>3. QED
      BY <3>1, <3>2
  <2>6. QED
    BY <1>1, <2>3, <2>4, <2>5 DEF Counted
<1>8. QED
  BY <1>6, <1>7 DEF Send

\* Every step of a consumer keeps the count.
LEMMA CountedConsuming ==
  ASSUME Limit["error"] = 0, TypeOK, TypeOK', Held, Counted, Consuming
  PROVE  Counted'
<1>1. ~Spend("error")
  BY DEF Spend, TypeOK
<1>2. ASSUME NEW h \in Hazards \ {"unack"}, Spend(h) PROVE spent'["unack"] = spent["unack"]
  BY <1>2 DEF Spend, TypeOK
<1>3. ASSUME NEW w \in Workers, NEW m \in queue, Deliver(w, m) \/ DeliverDuplicate(w, m)
      PROVE  Counted'
  <2>1. row' = row /\ sent' = sent /\ spent'["unack"] = spent["unack"]
    BY <1>2, <1>3 DEF Deliver, DeliverDuplicate, Take
  <2>2. ~Holder(w)' /\ \A v \in Workers \ {w} : worker'[v] = worker[v]
    BY <1>3 DEF Deliver, DeliverDuplicate, Take, TypeOK, Holder, At
  <2>3. QED
    BY <2>1, <2>2, CountedStep DEF Holder, At, DeliveryOf
<1>4. ASSUME NEW w \in Workers, ClaimDelivery(w) PROVE Counted'
  <2> DEFINE d == DeliveryOf(w)
  <2>1. ~At(w, "idle") /\ d \in Deliveries /\ row[d] \in Row /\ sent' = sent /\ spent' = spent
    BY <1>4, BusyHolds DEF ClaimDelivery, At, TypeOK
  <2>2. CASE Acked(w) /\ row' = row
    <3>1. ~Holder(w)' /\ \A v \in Workers \ {w} : worker'[v] = worker[v]
      BY <2>2, WorkerAcked DEF Holder, At, IdleWorker
    <3>2. QED
      BY <2>1, <2>2, <3>1, CountedStep DEF Holder, At, DeliveryOf
  <2>3. CASE ClaimSucceeds(d) /\ row' = [row EXCEPT ![d].status = "sending"] /\ Stand(w, "gating")
    <3>1. DeliveryOf(w)' = d /\ \A v \in Workers \ {w} : worker'[v] = worker[v]
      BY <2>3 DEF Stand, TypeOK, WorkerState, DeliveryOf
    <3>2. row[d].status \in {"queued", "failed"}
      BY <2>3 DEF ClaimSucceeds
    <3>3. ASSUME NEW c \in Deliveries, row'[c].status \in {"absent", "queued", "failed"}
          PROVE  row[c].status \in {"absent", "queued", "failed"}
      BY <2>1, <2>3, <3>3 DEF TypeOK, Row
    <3>4. QED
      BY <2>1, <3>1, <3>2, <3>3, CountedStep DEF Holder, At, DeliveryOf
  <2>4. QED
    BY <1>4, <2>2, <2>3 DEF ClaimDelivery
<1>5. ASSUME NEW w \in Workers, CheckConsent(w) \/ SendRefused(w)
      PROVE  Counted'
  <2>1. Holder(w) /\ ~At(w, "accepting") /\ row' = row /\ sent' = sent /\
        spent'["unack"] = spent["unack"] /\ \A v \in Workers \ {w} : worker'[v] = worker[v]
    BY <1>2, <1>5 DEF CheckConsent, SendRefused, Stand, At, Holder, TypeOK
  <2>2. PICK pc : Stand(w, pc)
    BY <1>5 DEF CheckConsent, SendRefused
  <2>3. DeliveryOf(w)' = DeliveryOf(w)
    BY <2>2 DEF Stand, TypeOK, WorkerState, DeliveryOf
  <2>4. QED
    BY <2>1, <2>3, CountedStep DEF Holder, At, DeliveryOf
<1>6. ASSUME NEW w \in Workers, MarkDelivery(w) \/ Requeue(w) \/ FailDelivery(w)
                                \/ MarkProviderSuppressed(w) \/ ConsumerFails(w)
      PROVE  Counted'
  <2>1. Acked(w) /\ sent' = sent /\ spent'["unack"] = spent["unack"]
    BY <1>1, <1>2, <1>6 DEF MarkDelivery, Requeue, FailDelivery, MarkProviderSuppressed,
       ConsumerFails
  <2>2. ~Holder(w)' /\ \A v \in Workers \ {w} : worker'[v] = worker[v]
    BY <2>1, WorkerAcked DEF Holder, At, IdleWorker
  <2>3. ASSUME NEW d \in Deliveries, row'[d].status \in {"absent", "queued", "failed"}
        PROVE  \/ row[d].status \in {"absent", "queued", "failed"}
               \/ Holder(w) /\ ~At(w, "accepting") /\ DeliveryOf(w) = d
    <3>0. row[d] \in Row
      BY DEF TypeOK
    <3>1. CASE Requeue(w) \/ FailDelivery(w)
      BY <2>3, <3>1 DEF Requeue, FailDelivery, Holder, At, TypeOK
    <3>2. CASE MarkDelivery(w)
      <4>1. row'[d] = row[d] \/ (d = DeliveryOf(w) /\ row'[d] = Written(w))
        BY <3>2 DEF MarkDelivery, TypeOK
      <4>2. d = DeliveryOf(w) => Written(w).status \in {row[d].status, "accepted", "suppressed"}
        BY <3>0 DEF Written, Accepted, Row
      <4>3. QED
        BY <2>3, <4>1, <4>2
    <3>3. CASE MarkProviderSuppressed(w)
      BY <2>3, <3>0, <3>3 DEF MarkProviderSuppressed, TypeOK, Row
    <3>4. CASE ConsumerFails(w)
      BY <2>3, <3>4 DEF ConsumerFails
    <3>5. QED
      BY <1>6, <3>1, <3>2, <3>3, <3>4
  <2>4. QED
    BY <2>1, <2>2, <2>3, CountedStep DEF Holder, At, DeliveryOf
<1>7. ASSUME NEW w \in Workers PROVE ~CallFails(w)
  BY <1>1 DEF CallFails
<1>8. QED
  BY <1>3, <1>4, <1>5, <1>6, <1>7, CountedSend DEF Consuming, Running

\* A delivery is sent once, and once more for every send the consumer did not
\* learn of, in every instance in which the provider reports on nothing and no
\* D1 call of a consumer throws: consumers may die, and messages may be
\* delivered twice, replayed, or put on the queue again by the scan.
THEOREM NoSendEverRepeated ==
  ASSUME Limit["event"] = 0, Limit["error"] = 0 PROVE Spec => []NoSendRepeated
<1>1. Init => Counted
  BY DEF Init, Counted, Holder, At, IdleWorker
<1>2. TypeOK /\ TypeOK' /\ NoReports /\ Held /\ Counted /\ [Next]_vars => Counted'
  <2> SUFFICES ASSUME TypeOK, TypeOK', NoReports, Held, Counted, [Next]_vars PROVE Counted'
    OBVIOUS
  <2>1. ASSUME NEW h \in Hazards \ {"unack"}, Spend(h) PROVE spent'["unack"] = spent["unack"]
    BY <2>1 DEF Spend, TypeOK
  <2>2. CASE Creating \/ Scheduling
    <3>1. worker' = worker /\ sent' = sent /\ spent'["unack"] = spent["unack"]
      BY <2>1, <2>2 DEF Creating, InsertQueuedDelivery, SendMessage, CreatorDies, Scheduling,
           ScanDueDeliveries, TimerElapses, ReplayDeadLetter
    <3>2. ASSUME NEW d \in Deliveries
          PROVE  row'[d].status = row[d].status \/ row[d].status = "absent"
      BY <2>2 DEF Creating, InsertQueuedDelivery, SendMessage, CreatorDies, Scheduling,
           ScanDueDeliveries, TimerElapses, ReplayDeadLetter, TypeOK, Row
    <3>3. QED
      BY <3>1, <3>2, CountedStep DEF Holder, At, DeliveryOf
  <2>3. CASE Choosing \/ Reporting \/ UNCHANGED vars
    <3>1. UNCHANGED <<row, worker, sent>>
      BY <2>3 DEF NoReports, Choosing, OneClickUnsubscribe, PreferenceCenterUpdate,
           ArchiveOrRestore, Reporting, Report, LookUpEvent, ApplyEvent, EventConsumerDies, vars
    <3>2. spent'["unack"] = spent["unack"]
      BY <2>1, <2>3 DEF NoReports, Choosing, OneClickUnsubscribe, PreferenceCenterUpdate,
           ArchiveOrRestore, Reporting, Report, LookUpEvent, ApplyEvent, EventConsumerDies, vars
    <3>3. QED
      BY <3>1, <3>2, CountedStep DEF Holder, At, DeliveryOf
  <2>4. QED
    BY <2>2, <2>3, CountedConsuming DEF Next
<1>3. Counted => NoSendRepeated
  BY DEF Counted, NoSendRepeated
<1>4. QED
  BY <1>1, <1>2, <1>3, TypeCorrect, NoReportsInvariant, HeldInvariant, PTL DEF Spec
=============================================================================
