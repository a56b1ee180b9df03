----------------------------- MODULE MCRequests -----------------------------
(* The components whose requests interleave on their own tables, for TLC.  *)
(* They share no state, so a behaviour exercises one group of requests at  *)
(* a time: the one focus names.                                            *)
EXTENDS Workspace

CONSTANTS
  n1, n2,       \* nodes the editor adds to the preset of a source and an action
  tab1, tab2    \* tabs of the visitor's browser

VARIABLE focus

MCNodes == {"source", "first", n1, n2}
MCTabs == {tab1, tab2}

Groups == {"assets", "builder", "drafts", "deals", "forms", "pages", "messages", "mcp", "members",
           "provisioning", "reports", "visitor", "mails", "replies", "daily"}

(* What a group starts with matters to that group alone.                   *)
MCInit ==
  /\ focus \in Groups
  /\ AssetInit /\ BuilderInit /\ DraftInit /\ DealInit /\ WebInit
  /\ AccessInit /\ ProvisionInit /\ ReportInit
  /\ VisitorInit /\ MailInit /\ InboundInit /\ MaintenanceInit
  /\ focus # "mcp" => apiKey = [k \in ApiKeys |-> None]
  /\ member = [u \in Users |-> [w \in Workspaces |-> None]]
  /\ focus # "provisioning" => project = "openengage"
  /\ focus # "reports" => category = "contacts"
  /\ focus # "replies" => identified

othersVars == <<accessVars, provisionVars, reportVars>>
requestVars == <<assetVars, builderVars, draftVars, dealVars, webVars>>
messagingVars == <<visitorVars, mailVars, inboundVars, maintenanceVars>>

NotAssets ==
  UNCHANGED <<builderVars, draftVars, dealVars, webVars, othersVars, messagingVars>>
NotBuilder ==
  UNCHANGED <<assetVars, draftVars, dealVars, webVars, othersVars, messagingVars>>
NotDrafts ==
  UNCHANGED <<assetVars, builderVars, dealVars, webVars, othersVars, messagingVars>>
NotDeals ==
  UNCHANGED <<assetVars, builderVars, draftVars, webVars, othersVars, messagingVars>>
NotWebsite ==
  UNCHANGED <<assetVars, builderVars, draftVars, dealVars, othersVars, messagingVars>>
NotAccess == UNCHANGED <<requestVars, provisionVars, reportVars, messagingVars>>
NotProvisioning == UNCHANGED <<requestVars, accessVars, reportVars, messagingVars>>
NotReports == UNCHANGED <<requestVars, accessVars, provisionVars, messagingVars>>
NotVisitor == UNCHANGED <<requestVars, othersVars, mailVars, inboundVars, maintenanceVars>>
NotMails == UNCHANGED <<requestVars, othersVars, visitorVars, inboundVars, maintenanceVars>>
NotReplies == UNCHANGED <<requestVars, othersVars, visitorVars, mailVars, maintenanceVars>>
NotDaily == UNCHANGED <<requestVars, othersVars, visitorVars, mailVars, inboundVars>>

(* Bounds: the ids of a draft are interchangeable and first occur in one   *)
(* order, and its edges are listed by the node they leave; when there are  *)
(* as many as there may be, they join its nodes, on branches they have.    *)
DraftInOrder ==
  /\ \A i \in 1 .. Len(draftEdges) - 1 : draftEdges[i].source <= draftEdges[i + 1].source
  /\ \A i \in DOMAIN draftNodes : \A id \in 1 .. draftNodes[i].id - 1 :
       \E j \in 1 .. i - 1 : draftNodes[j].id = id
  /\ Len(draftEdges) = MaxDraftEdges =>
       EndpointsExist(DraftGraph) /\ BranchesAccepted(DraftGraph)

(* Bounds: edges of a definition in the editor; a connection is drawn or   *)
(* cut on a render that is current; keys that members create, which do not *)
(* end.                                                                    *)
MaxEdges == 3
MaxKeys == 1
BuilderMoves ==
  /\ \/ builder = rendered /\ BuilderNext
     \/ Render \/ OnNodesChange \/ DeleteSelectedNode
     \/ \E e \in rendered.edges : OnEdgesChange({e})
     \/ \E n \in NodeIds : SelectNode(n) \/ \E kind \in AddedKinds : AddNode(n, kind)
  /\ Cardinality(builder'.edges) <= MaxEdges
KeysMade == {k \in ApiKeys : apiKey[k] # None}

MembersMove ==
  /\ MemberNext
  /\ Cardinality(KeysMade') <= MaxKeys
  /\ \A k \in KeysMade' : apiKey'[k].expires > MaxClock

(* Bounds: what was deleted by hand and not made again is one resource or  *)
(* the secrets that are put last, all of them when the server went, and is *)
(* made again before there is another release; the bucket and the queues   *)
(* that doctor does not look at are alike.  Databases are deleted at will. *)
Losses ==
  {{}, {"jobs"}, {"emailEvents"},
   {"TRACKING_SIGNING_SECRET"}, {"CREDENTIAL_ENCRYPTION_KEY", "TRACKING_SIGNING_SECRET"},
   SecretNames}

ProvisionMoves ==
  /\ ProvisionNext
  /\ removed' \in Losses
  /\ upstream' = MaxRelease => removed' = {}

WebDies == \E r \in WebRequests : WebRequestDies(r)

(* Bounds: a report is asked for on the last day; the totals of deals,     *)
(* e-mails and the site come first, and nothing is written while they run; *)
(* there is one new row a day; one write may tear others.                  *)
Tearable == {"contacts", "automations"}

ReportMoves ==
  /\ ReportNext
  /\ report.torn => table' = table
  /\ \A r \in RowIds : category \notin Tearable /\ table'[r] # Gone => r <= today
  /\ report'.asked => today = LastDay
  /\ report'.asked /\ category \notin Tearable =>
       /\ table' = table
       /\ DOMAIN report'.answers # {} => DOMAIN report'.answers \cap Totals # {}

(* Bounds: the first tab is loaded first; members archive a contact or a   *)
(* message between the first and the second record of the visitor.         *)
VisitorMoves ==
  /\ VisitorNext
  /\ sent' = 0 => ~page'[tab2].loaded
  /\ reachable' # reachable \/ offered' # offered =>
       sent = 1 /\ \A c \in Calls : Is(c, "free")

MCNext ==
  /\ UNCHANGED focus
  /\ \/ focus = "assets" /\ AssetNext /\ NotAssets
     \/ focus = "builder" /\ BuilderMoves /\ NotBuilder
     \/ focus = "drafts" /\ DraftNext /\ DraftInOrder' /\ NotDrafts
     \/ focus = "deals" /\ DealNext /\ NotDeals
     \/ focus = "forms" /\ (FormNext \/ WebDies) /\ NotWebsite
     \/ focus = "pages" /\ (PageNext \/ WebDies) /\ NotWebsite
     \/ focus = "messages" /\ (MessageNext \/ WebDies) /\ NotWebsite
     \/ focus = "mcp" /\ McpNext /\ NotAccess
     \/ focus = "members" /\ MembersMove /\ NotAccess
     \/ focus = "provisioning" /\ ProvisionMoves /\ NotProvisioning
     \/ focus = "reports" /\ ReportMoves /\ NotReports
     \/ focus = "visitor" /\ VisitorMoves /\ NotVisitor
     \/ focus = "mails" /\ MailNext /\ NotMails
     \/ focus = "replies" /\ InboundNext /\ NotReplies
     \/ focus = "daily" /\ MaintenanceNext /\ NotDaily

MCSpec ==
  MCInit /\ [][MCNext]_<<focus, requestVars, othersVars, messagingVars>>

=============================================================================
