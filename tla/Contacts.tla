------------------------------ MODULE Contacts ------------------------------
(***************************************************************************)
(* A workspace's contacts, all at once: imports and exports, the list and  *)
(* its filters, scores, segments and companies, and the browser client's   *)
(* cache.  They share no variable, so the whole is their conjunction.      *)
(***************************************************************************)
EXTENDS DataJobs, ContactsView, SegmentFilters, ContactRecords, ClientCache

ContactsSpec == JobSpec /\ ViewSpec /\ FilterSpec /\ RecordSpec /\ ClientSpec

(* Every part keeps its types.                                             *)
ContactTypesOK == JobTypeOK /\ ViewTypeOK /\ FilterTypeOK /\ RecordTypeOK /\ ClientTypeOK

(* What the list shows is what there is and what was asked for: a walk     *)
(* through its pages meets every contact that matches once, and its        *)
(* filters, a segment saved from them and a condition node agree.          *)
(* (packages/database/src/contacts/repository.ts listContacts,             *)
(* contact-filters.ts useContactFilters, segment.ts compileCondition)      *)
ListFaithful == WalkComplete /\ FiltersAgree

=============================================================================
