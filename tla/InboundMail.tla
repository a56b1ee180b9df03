---------------------------- MODULE InboundMail ----------------------------
(***************************************************************************)
(* Replies to the mails of a workspace, taken in by the e-mail handler.    *)
(*                                                                         *)
(*   apps/server/src/messaging/inbound-worker.ts     the handler           *)
(*   packages/database/src/messaging/repository.ts   the batch it commits  *)
(*                                                                         *)
(* One reply to one delivery.  The sending server hands it over again      *)
(* whenever it is not sure the last time succeeded; each time is a receipt *)
(* with ids of its own.  What only refuses a mail (its size, its address,  *)
(* the signature) happens before anything is written.                      *)
(***************************************************************************)
EXTENDS Naturals, FiniteSets

CONSTANTS
  Receipts,      \* bound: times the reply is handed over
  Attachments,   \* its attachments
  ReplyId        \* its Message-ID, if it has one

ReceiptSteps ==
  {"none", "storing", "recording", "enrolling", "answered", "rejected", "failed"}

VARIABLES
  receipt,        \* Receipts -> the step the invocation is at
  attached,         \* the attachments in R2, each under the id of its receipt
  replies,        \* the receipts with a row in inbound_emails
  repliedEvents,  \* provider event ids of the "replied" delivery events
  timeline,       \* the receipts with an email_replied event of the contact
  replyEnrolled,  \* the receipts whose event enrolled the contact
  identified,     \* the reply has a Message-ID
  replyable       \* the delivery is there, with its contact

inboundVars == <<receipt, attached, replies, repliedEvents, timeline, replyEnrolled,
                 identified, replyable>>

InboundTypeOK ==
  /\ receipt \in [Receipts -> ReceiptSteps]
  /\ attached \subseteq Receipts \X Attachments
  /\ replies \subseteq Receipts
  /\ repliedEvents \subseteq Receipts \cup {ReplyId}
  /\ timeline \subseteq Receipts /\ replyEnrolled \subseteq Receipts
  /\ identified \in BOOLEAN /\ replyable \in BOOLEAN

InboundInit ==
  /\ receipt = [r \in Receipts |-> "none"]
  /\ attached = {} /\ replies = {} /\ repliedEvents = {} /\ timeline = {} /\ replyEnrolled = {}
  /\ identified \in BOOLEAN /\ replyable = TRUE

ReceiptStep(r, from, to) == receipt[r] = from /\ receipt' = [receipt EXCEPT ![r] = to]

ReceiveReply(r) ==
  /\ ReceiptStep(r, "none", IF replyable THEN "storing" ELSE "rejected")
  /\ UNCHANGED <<attached, replies, repliedEvents, timeline, replyEnrolled, identified, replyable>>

(* The attachments, one after the other.                                   *)
Put(r, a) ==
  /\ receipt[r] = "storing" /\ <<r, a>> \notin attached
  /\ attached' = attached \cup {<<r, a>>}
  /\ UNCHANGED <<receipt, replies, repliedEvents, timeline, replyEnrolled, identified, replyable>>

AllPut(r) ==
  /\ {r} \X Attachments \subseteq attached
  /\ ReceiptStep(r, "storing", "recording")
  /\ UNCHANGED <<attached, replies, repliedEvents, timeline, replyEnrolled, identified, replyable>>

(* One batch: the mail, the delivery event unless its provider event id is *)
(* there, the event on the contact's timeline.                             *)
RecordInboundReply(r) ==
  /\ ReceiptStep(r, "recording", "enrolling")
  /\ replies' = replies \cup {r}
  /\ repliedEvents' = repliedEvents \cup {IF identified THEN ReplyId ELSE r}
  /\ timeline' = timeline \cup {r}
  /\ UNCHANGED <<attached, replyEnrolled, identified, replyable>>

EnrollReplied(r) ==
  /\ ReceiptStep(r, "enrolling", "answered")
  /\ replyEnrolled' = replyEnrolled \cup {r}
  /\ UNCHANGED <<attached, replies, repliedEvents, timeline, identified, replyable>>

(* The invocation dies, or one of its calls throws.                        *)
ReceiptFails(r) ==
  /\ \E step \in {"storing", "recording", "enrolling"} : ReceiptStep(r, step, "failed")
  /\ UNCHANGED <<attached, replies, repliedEvents, timeline, replyEnrolled, identified, replyable>>

DeliveryForgotten ==
  /\ replyable /\ replyable' = FALSE
  /\ UNCHANGED <<receipt, attached, replies, repliedEvents, timeline, replyEnrolled, identified>>

InboundNext ==
  \/ \E r \in Receipts :
       \/ ReceiveReply(r) \/ AllPut(r) \/ RecordInboundReply(r)
       \/ EnrollReplied(r) \/ ReceiptFails(r)
       \/ \E a \in Attachments : Put(r, a)
  \/ DeliveryForgotten

InboundSpec == InboundInit /\ [][InboundNext]_inboundVars

-----------------------------------------------------------------------------

(* However often a reply is handed over, and wherever an attempt stops:    *)
(* the mail, its attachments and both events are there together or not at  *)
(* all; a reply with a Message-ID is one replied event of its delivery; a  *)
(* reply that was answered has enrolled its contact, and none has without  *)
(* an event.  (inbound-worker.ts; messaging/repository.ts                  *)
(* recordInboundReply)                                                     *)
ReplyRecorded ==
  /\ timeline = replies
  /\ replies \X Attachments \subseteq attached
  /\ (repliedEvents = {}) = (replies = {})
  /\ identified => repliedEvents \subseteq {ReplyId}
  /\ replyEnrolled \subseteq timeline
  /\ \A r \in Receipts : receipt[r] = "answered" => r \in replyEnrolled

=============================================================================
