----------------------------- MODULE ClientPages -----------------------------
(* The pages of apps/client/src: what each component uses of the query     *)
(* cache, what its controls begin, and each operation's program.  Values   *)
(* for the CONSTANTS of ClientCache.                                       *)
(*                                                                         *)
(* A query's name stands for its key; a list's for its keys with every     *)
(* search.  A write names the queries whose answers it may change; those   *)
(* nothing but their age refreshes (the figures of the dashboard and the   *)
(* reports) are not named.                                                 *)
EXTENDS Sequences, Functions, TLC

Writes(queries) == [do |-> "write", on |-> queries]
Tries(queries) == [do |-> "try", on |-> queries]
Refreshes(queries) == [do |-> "refresh", on |-> queries]

(* A mutation whose onSuccess invalidates: what it changes, what it reads. *)
Saved(changes, refreshes) == <<Writes(changes), Refreshes(refreshes)>>

(* A control disabled while its operation runs; controls that share one    *)
(* busy flag; controls of rows or confirmations, never disabled.           *)
Sharing(operations) == [begins : operations, unless : {operations}]
Alone(operation) == Sharing({operation})
Repeated(operations) == [begins : operations, unless : {{}}]

Component(shows, controls) == [shows |-> shows, controls |-> controls]
Route(page, loads) == [shows |-> page.shows, controls |-> page.controls, loads |-> loads]

-----------------------------------------------------------------------------
(* Deals.                                                                  *)
DealData == {"deals.list", "deals.get"}

(* Mutant: the board is not refreshed after a move.                        *)
useMoveDeal_NoRefresh == <<Writes(DealData)>>

useCreateDeal == Saved({"deals.list"}, {"deals.list"})
useMoveDeal == Saved(DealData, {"deals.list"})
useUpdateDeal == Saved(DealData, DealData)
useArchiveDeal == Saved(DealData, {"deals.list"})
useCreateDealTask == Saved(DealData, DealData)
useUpdateDealTask == Saved(DealData, DealData)
useDeleteDealTask == Saved(DealData, DealData)

(* A card is not draggable, nor its arrows enabled, while it is moved:     *)
(* other cards are.                                                        *)
DealBoard == Repeated({"moveDeal"})
DealForm(operation) == Alone(operation)
DealTaskForm(operation) == Alone(operation)
TaskRow == Repeated({"updateDealTask", "deleteDealTask"})

(* Won, lost and reopened: each button has its own busy flag.              *)
DealStatusButtons == Repeated({"updateDeal"})
DealArchive == Repeated({"archiveDeal"})

DealsPage == Component({"deals.options", "deals.list"}, DealForm("createDeal") \cup DealBoard)
DealDetailPage ==
  Component({"deals.options", "deals.get"}, DealStatusButtons \cup DealArchive \cup TaskRow)
DealDialogs ==
  DealForm("updateDeal") \cup DealTaskForm("createDealTask") \cup DealTaskForm("updateDealTask")

DealsRoute == Route(DealsPage, {"deals.options", "deals.list"})
DealDetailRoute ==
  Route(Component(DealDetailPage.shows, DealDetailPage.controls \cup DealDialogs),
        {"deals.options", "deals.get"})

DealOperations ==
  [createDeal |-> useCreateDeal, moveDeal |-> useMoveDeal, updateDeal |-> useUpdateDeal,
   archiveDeal |-> useArchiveDeal, createDealTask |-> useCreateDealTask,
   updateDealTask |-> useUpdateDealTask, deleteDealTask |-> useDeleteDealTask]

-----------------------------------------------------------------------------
(* Companies.  Their contacts are offered from a list of contacts.         *)
CompanyData == {"companies.list", "companies.get"}
CompanyOfContacts == {"contacts.list", "contacts.profile"}

useCreateCompany ==
  Saved({"companies.list", "contacts.options", "deals.options"}, {"companies.list"})
useUpdateCompany ==
  Saved(CompanyData \cup CompanyOfContacts \cup DealData \cup {"contacts.options", "deals.options"},
        CompanyData)
useAssignCompanyContact == Saved(CompanyData \cup CompanyOfContacts, CompanyData)
useRemoveCompanyContact == Saved(CompanyData \cup CompanyOfContacts, CompanyData)
invalidateCompanyQueries == Refreshes(CompanyData)

CompanyForm(operation) == Alone(operation)
AddCompanyContactForm == Alone("assignCompanyContact")

CompaniesPage == Component({"companies.list"}, CompanyForm("createCompany"))
CompanyDetailPage ==
  Component({"companies.get", "contacts.list"},
            Repeated({"removeCompanyContact"}) \cup CompanyForm("updateCompany")
              \cup AddCompanyContactForm)

CompaniesRoute == Route(CompaniesPage, {"companies.list"})
CompanyDetailRoute == Route(CompanyDetailPage, {"companies.get", "contacts.list"})

CompanyOperations ==
  [createCompany |-> useCreateCompany, updateCompany |-> useUpdateCompany,
   assignCompanyContact |-> useAssignCompanyContact,
   removeCompanyContact |-> useRemoveCompanyContact]

-----------------------------------------------------------------------------
(* Contacts.                                                               *)
ContactData == {"contacts.list", "contacts.options"}
InOtherPages == {"segments.list", "deals.options"} \cup CompanyData \cup DealData

(* refreshContactData, and the drawer's changed, which calls it.           *)
refreshContactData == Refreshes(ContactData)
changed == Refreshes(ContactData \cup {"contacts.profile"})

(* The selected contacts are archived, restored, or joined to a tag or a   *)
(* segment.                                                                *)
applyBulkAction == <<Writes(ContactData \cup {"contacts.profile"} \cup InOtherPages), refreshContactData>>
refreshSegment ==
  <<Writes(ContactData \cup {"contacts.profile", "segments.list"}), refreshContactData>>

(* The contact, then its tag, segment and company at once.                 *)
createContact ==
  <<Writes(ContactData \cup {"deals.options"}),
    Writes({"contacts.list", "contacts.options", "segments.list"}), refreshContactData>>
createContactOfCompany ==
  <<Writes(ContactData \cup {"deals.options"}),
    Writes({"contacts.list", "contacts.options", "segments.list"} \cup CompanyData),
    invalidateCompanyQueries, refreshContactData>>
ContactCreateForm == Sharing({"createContact", "createContactOfCompany"})

saveSegment ==
  <<Writes({"segments.list", "contacts.options", "emails.segments"}), Refreshes({"segments.list"}),
    Refreshes({"contacts.options"})>>
SegmentSaveForm == Alone("saveSegment")

ContactsPage ==
  Component(ContactData,
            Sharing({"applyBulkAction", "refreshSegment"}) \cup Repeated({"applyBulkAction"})
              \cup ContactCreateForm \cup SegmentSaveForm)

(* Archiving, restoring, tags and segments of the contact shown.           *)
mutate == <<Writes(ContactData \cup {"contacts.profile"} \cup InOtherPages), changed>>
saveProfile ==
  <<Writes({"contacts.list", "contacts.profile", "companies.get", "deals.options"} \cup DealData), changed>>
adjustScore == <<Writes({"contacts.list", "contacts.profile", "companies.get"}), changed>>
addCompany ==
  <<Writes(CompanyData \cup CompanyOfContacts), invalidateCompanyQueries, changed>>
removeCompany ==
  <<Writes(CompanyData \cup CompanyOfContacts), invalidateCompanyQueries, changed>>

RelationEditor == Repeated({"mutate"})
SegmentEditor == Repeated({"mutate"})
CompanyEditor == Sharing({"addCompany", "removeCompany"})
ProfileEditForm == Alone("saveProfile")
ScoreForm == Alone("adjustScore")
ContactDrawer ==
  Route(Component({"contacts.profile"},
                  Repeated({"mutate"}) \cup RelationEditor \cup SegmentEditor \cup CompanyEditor
                    \cup ProfileEditForm \cup ScoreForm),
        {})

createTag == <<Writes({"contacts.options"}), Refreshes({"contacts.options"})>>
CreateTagForm == Alone("createTag")
ContactTagsPage == Component({"contacts.options"}, CreateTagForm)

ContactsRoute == Route(ContactsPage, ContactData)
ContactTagsRoute == Route(ContactTagsPage, {"contacts.options"})

useCreateSegment ==
  Saved({"segments.list", "contacts.options", "emails.segments"}, {"segments.list"})
SegmentFormDialog == Alone("createSegment")
SegmentsPage == Component({"segments.list"}, SegmentFormDialog)
SegmentsRoute == Route(SegmentsPage, {"segments.list"})

ContactOperations ==
  [applyBulkAction |-> applyBulkAction, refreshSegment |-> refreshSegment,
   createContact |-> createContact, createContactOfCompany |-> createContactOfCompany,
   saveSegment |-> saveSegment, mutate |-> mutate, saveProfile |-> saveProfile,
   adjustScore |-> adjustScore, addCompany |-> addCompany, removeCompany |-> removeCompany,
   createTag |-> createTag, createSegment |-> useCreateSegment]

-----------------------------------------------------------------------------
(* Assets.  The editor's row is read past the cache (loadAsset).           *)
useUpdateAsset == Saved({"assets.list"}, {"assets.list"})
useArchiveAsset == Saved({"assets.list"}, {"assets.list"})
useRestoreAsset == Saved({"assets.list"}, {"assets.list"})
useDeleteAsset == Saved({"assets.list"}, {"assets.list"})

(* One file after the other, whatever becomes of each.                     *)
startUpload == <<Tries({"assets.list"}), Tries({"assets.list"}), Refreshes({"assets.list"})>>
replace == <<Writes({"assets.list"}), Refreshes({"assets.list"})>>

(* Busy ends with the last file, before the list is read again.            *)
AssetUploadDialog == Repeated({"startUpload"})
AssetEditDialog == Alone("updateAsset")
AssetReplaceDialog == Alone("replace")
AssetDeleteConfirm == Repeated({"deleteAsset"})
AssetActions == Repeated({"archiveAsset", "restoreAsset"}) \cup AssetDeleteConfirm
AssetsPage ==
  Component({"assets.list"}, AssetActions \cup AssetUploadDialog \cup AssetEditDialog \cup AssetReplaceDialog)
AssetPickerDialog == Route(Component({"assets.list"}, {}), {})
AssetsRoute == Route(AssetsPage, {"assets.list"})

AssetOperations ==
  [updateAsset |-> useUpdateAsset, archiveAsset |-> useArchiveAsset,
   restoreAsset |-> useRestoreAsset, deleteAsset |-> useDeleteAsset, startUpload |-> startUpload,
   replace |-> replace]

-----------------------------------------------------------------------------
(* Forms, landing pages, site messages and tracking.                       *)
useCreateSignupForm == Saved({"website.listForms"}, {"website.listForms"})
useUpdateSignupForm == Saved({"website.listForms"}, {"website.listForms"})
useArchiveSignupForm == Saved({"website.listForms"}, {"website.listForms"})
useCreateLandingPage == Saved({"website.listPages"}, {"website.listPages"})
useUpdateLandingPage == Saved({"website.listPages"}, {"website.listPages"})
useArchiveLandingPage == Saved({"website.listPages"}, {"website.listPages"})
useCreateSiteMessage == Saved({"website.listMessages"}, {"website.listMessages"})
useUpdateSiteMessage == Saved({"website.listMessages"}, {"website.listMessages"})
useArchiveSiteMessage == Saved({"website.listMessages"}, {"website.listMessages"})
useUpdateSiteTracking == Saved({"website.getTracking"}, {"website.getTracking"})

(* A list whose rows can be archived and whose dialog creates or updates.  *)
WebsiteResourceListPage(query, archive, editor) ==
  Component({query}, Repeated({archive}) \cup editor)

SignupFormEditor == Sharing({"createSignupForm", "updateSignupForm"})
LandingPageEditor == Sharing({"createLandingPage", "updateLandingPage"})
SiteMessageEditor == Sharing({"createSiteMessage", "updateSiteMessage"})
SignupFormsPage ==
  WebsiteResourceListPage("website.listForms", "archiveSignupForm", SignupFormEditor)
LandingPagesPage ==
  WebsiteResourceListPage("website.listPages", "archiveLandingPage", LandingPageEditor)
SiteMessagesPage ==
  WebsiteResourceListPage("website.listMessages", "archiveSiteMessage", SiteMessageEditor)
SiteTrackingPage == Component({"website.getTracking"}, Alone("updateSiteTracking"))

SignupFormsRoute == Route(SignupFormsPage, {"website.listForms"})
LandingPagesRoute == Route(LandingPagesPage, {"website.listPages"})
SiteMessagesRoute == Route(SiteMessagesPage, {"website.listMessages"})
SiteTrackingRoute == Route(SiteTrackingPage, {"website.getTracking"})

WebsiteOperations ==
  [createSignupForm |-> useCreateSignupForm, updateSignupForm |-> useUpdateSignupForm,
   archiveSignupForm |-> useArchiveSignupForm, createLandingPage |-> useCreateLandingPage,
   updateLandingPage |-> useUpdateLandingPage, archiveLandingPage |-> useArchiveLandingPage,
   createSiteMessage |-> useCreateSiteMessage, updateSiteMessage |-> useUpdateSiteMessage,
   archiveSiteMessage |-> useArchiveSiteMessage, updateSiteTracking |-> useUpdateSiteTracking]

-----------------------------------------------------------------------------
(* Mail templates and message variables: two lists share a key's prefix.   *)
TemplateLists == {"emails.templates", "emails.archive"}

useCreateEmailTemplate == Saved({"emails.templates"}, TemplateLists)
useUpdateEmailTemplate == Saved({"emails.templates"}, TemplateLists)
usePublishEmailTemplate == Saved({"emails.templates"}, TemplateLists)
useArchiveEmailTemplate == Saved(TemplateLists, TemplateLists)
useCreateEmailVariable == Saved({"emails.listVariables"}, {"emails.listVariables"})
useUpdateEmailVariable == Saved({"emails.listVariables"}, {"emails.listVariables"})
useArchiveEmailVariable == Saved({"emails.listVariables"}, {"emails.listVariables"})

TemplateForm == Sharing({"createEmailTemplate", "updateEmailTemplate"})
VariableForm == Sharing({"createEmailVariable", "updateEmailVariable"})
TemplateTable == Repeated({"publishEmailTemplate", "archiveEmailTemplate"})
VariableTable == Repeated({"archiveEmailVariable"})

(* Both dialogs are behind every tab of the e-mail center.                 *)
EmailCenterPage(shows, table) == Component(shows, TemplateForm \cup VariableForm \cup table)
EmailTemplatesPage == EmailCenterPage({"emails.templates", "emails.listVariables"}, TemplateTable)
EmailVariablesPage == EmailCenterPage({"emails.listVariables"}, VariableTable)
EmailArchivePage == EmailCenterPage({"emails.archive"}, {})

EmailTemplatesRoute == Route(EmailTemplatesPage, {"emails.templates", "emails.listVariables"})
EmailVariablesRoute == Route(EmailVariablesPage, {"emails.listVariables"})
EmailArchiveRoute == Route(EmailArchivePage, {"emails.archive"})

EmailOperations ==
  [createEmailTemplate |-> useCreateEmailTemplate, updateEmailTemplate |-> useUpdateEmailTemplate,
   publishEmailTemplate |-> usePublishEmailTemplate,
   archiveEmailTemplate |-> useArchiveEmailTemplate,
   createEmailVariable |-> useCreateEmailVariable, updateEmailVariable |-> useUpdateEmailVariable,
   archiveEmailVariable |-> useArchiveEmailVariable]

-----------------------------------------------------------------------------
(* Automations.  The builder keeps the draft it was opened with.           *)
AutomationData == {"automations.list", "automations.getDraft"}

useCreateAutomation == Saved({"automations.list"}, {"automations.list"})
useSetAutomationStatus == Saved(AutomationData, {"automations.list"})
useSaveAutomationDraft == Saved(AutomationData, {"automations.list"})
usePublishAutomationDraft == Saved(AutomationData, {"automations.list"})

save == useSaveAutomationDraft
saveAndPublish == useSaveAutomationDraft \o usePublishAutomationDraft

AutomationsPage ==
  Component({"automations.list", "emails.templates"},
            Alone("createAutomation") \cup Repeated({"setAutomationStatus"}))

(* While a draft is saved nothing else of the builder can be begun; while  *)
(* the status changes everything can.                                      *)
AutomationBuilder ==
  [begins : {"save", "saveAndPublish", "setAutomationStatus"}, unless : {{"save", "saveAndPublish"}}]
AutomationRoute ==
  Route(Component({"automations.getDraft", "emails.templates", "website.listForms", "emails.segments"},
                  AutomationBuilder),
        {"automations.getDraft", "emails.templates", "website.listForms", "emails.segments"})
AutomationsRoute == Route(AutomationsPage, {"automations.list", "emails.templates"})

AutomationOperations ==
  [createAutomation |-> useCreateAutomation, setAutomationStatus |-> useSetAutomationStatus,
   save |-> save, saveAndPublish |-> saveAndPublish]

-----------------------------------------------------------------------------
(* The shell around every page, under a route that reads the workspace,    *)
(* and the pages that only read.                                           *)
SavedSegments == Component({"contacts.options"}, {})
AppShell == Route(SavedSegments, {"workspace.get"})

Figures == {"dashboard.get", "reports.emails", "reports.contacts", "reports.deals"}
DashboardPage == Component(Figures \cup {"automations.list"}, {})
DashboardRoute == Route(DashboardPage, Figures \cup {"automations.list"})
ReportsPage == Component({"reports.workspace"}, {})
ReportsRoute == Route(ReportsPage, {"reports.workspace"})
SettingsRoute == Route(Component({}, {}), {})

-----------------------------------------------------------------------------
ClientProgram ==
  DealOperations @@ CompanyOperations @@ ContactOperations @@ AssetOperations @@ WebsiteOperations
    @@ EmailOperations @@ AutomationOperations

(* What operations change and leave to its age: the price of the detail    *)
(* of a moved deal, of the options other pages offer, of the draft a       *)
(* builder is opened with.                                                 *)
ClientOverlooked ==
  [op \in DOMAIN ClientProgram |->
     CASE op \in {"moveDeal", "archiveDeal"} -> {"deals.get"}
       [] op = "createCompany" -> {"contacts.options", "deals.options"}
       [] op = "updateCompany" ->
            CompanyOfContacts \cup DealData \cup {"contacts.options", "deals.options"}
       [] op \in {"assignCompanyContact", "removeCompanyContact"} -> CompanyOfContacts
       [] op = "applyBulkAction" -> {"contacts.profile"} \cup InOtherPages
       [] op = "refreshSegment" -> {"contacts.profile", "segments.list"}
       [] op \in {"createContact", "createContactOfCompany"} -> {"deals.options", "segments.list"}
       [] op = "saveSegment" -> {"emails.segments"}
       [] op = "createSegment" -> {"contacts.options", "emails.segments"}
       [] op = "mutate" -> InOtherPages
       [] op = "saveProfile" -> {"companies.get", "deals.options"} \cup DealData
       [] op = "adjustScore" -> {"companies.get"}
       [] op \in {"setAutomationStatus", "save", "saveAndPublish"} -> {"automations.getDraft"}
       [] OTHER -> {}]

ClientLayers ==
  [shell |-> AppShell, dashboard |-> DashboardRoute, deals |-> DealsRoute, deal |-> DealDetailRoute,
   companies |-> CompaniesRoute, company |-> CompanyDetailRoute, contacts |-> ContactsRoute,
   drawer |-> ContactDrawer, tags |-> ContactTagsRoute, segments |-> SegmentsRoute,
   assets |-> AssetsRoute, picker |-> AssetPickerDialog, forms |-> SignupFormsRoute,
   pages |-> LandingPagesRoute, messages |-> SiteMessagesRoute, tracking |-> SiteTrackingRoute,
   templates |-> EmailTemplatesRoute, variables |-> EmailVariablesRoute,
   archive |-> EmailArchiveRoute, automations |-> AutomationsRoute, builder |-> AutomationRoute,
   reports |-> ReportsRoute, settings |-> SettingsRoute]

ClientLayerNames == DOMAIN ClientLayers
ClientShows == [layer \in ClientLayerNames |-> ClientLayers[layer].shows]
ClientLoads == [layer \in ClientLayerNames |-> ClientLayers[layer].loads]
ClientControls == [layer \in ClientLayerNames |-> ClientLayers[layer].controls]

(* A page is the shell and its route's component; the contact drawer and   *)
(* the asset picker open over the page that renders them.                  *)
ClientPageLayers ==
  [page \in ClientLayerNames \ {"shell"} |->
     CASE page = "drawer" -> {"shell", "contacts", "drawer"}
       [] page = "picker" -> {"shell", "pages", "picker"}
       [] OTHER -> {"shell", page}]

ClientOperations == DOMAIN ClientProgram
ClientQueries ==
  UNION (Range(ClientShows) \cup Range(ClientLoads) \cup UNION {{step.on : step \in Range(ClientProgram[op])} : op \in ClientOperations})

=============================================================================
