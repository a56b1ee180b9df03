----------------------------- MODULE Workspace -----------------------------
(***************************************************************************)
(* A workspace's tables, all at once: the components whose requests, jobs  *)
(* and visitors interleave on tables of their own.  They share no row, so  *)
(* the whole is their conjunction, and what each keeps the whole keeps.    *)
(***************************************************************************)
EXTENDS Assets, Deals, Website, WorkspaceAccess, Provisioning, Reports, SiteVisitor,
        MailTemplates, InboundMail, Maintenance, AutomationBuilder, GraphValidation

WorkspaceSpec ==
  /\ AssetSpec /\ DealSpec /\ AccessSpec /\ ProvisionSpec
  /\ WebSpec /\ VisitorSpec /\ MailSpec /\ InboundSpec
  /\ ReportSpec /\ MaintenanceSpec /\ BuilderSpec /\ DraftSpec

-----------------------------------------------------------------------------
(* Every component keeps its types, whatever its requests do.              *)
TypesOK ==
  /\ AssetTypeOK /\ BuilderTypeOK /\ DraftTypeOK /\ DealTypeOK
  /\ WebTypeOK /\ VisitorTypeOK /\ AccessTypeOK /\ ProvisionTypeOK
  /\ ReportTypeOK /\ MailTypeOK /\ InboundTypeOK /\ MaintenanceTypeOK

(* A graph is sound where it is built and where it is validated: the       *)
(* editor builds none that validation must refuse for its shape, and what  *)
(* validation accepts runs.                                                *)
(* (use-automation-builder.ts; automation.ts validateAutomation)           *)
GraphsSound == BuiltGraphSound /\ ValidationSound

(* The website as its visitors leave it: forms, pages and counters agree   *)
(* with their rows, and a browser stays one visitor who sees a message     *)
(* once a tab.  (web/repository.ts; public/templates.ts)                   *)
WebsiteSound == WebsiteConsistent /\ VisitorSound

(* Mails go out as they were published, and replies come in whole.         *)
(* (messaging/repository.ts; inbound-worker.ts)                            *)
MailKept == MailSound /\ ReplyRecorded

(* What is kept of the past adds up: reports with the rows they count,     *)
(* daily metrics with their day, archives with the events they replace.    *)
(* (reports/repository.ts; maintenance-worker.ts)                          *)
HistoryAddsUp == ReportsAddUp /\ DailySound

=============================================================================
