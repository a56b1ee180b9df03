-------------------------- MODULE WorkspaceAccess ---------------------------
(***************************************************************************)
(* Who may do what: sessions of members, API keys, the two-step enrollment *)
(* an MCP client makes, and the conversations a member has with an agent.  *)
(*                                                                         *)
(*   apps/server/src/auth/access.ts, authorization.ts   who is asking      *)
(*   packages/database/src/workspaces/repository.ts     members and keys   *)
(*   apps/server/src/mcp/confirmation-store.ts, tools/automations.ts       *)
(*   apps/server/src/agents/gateway.ts, router.ts                          *)
(*                                                                         *)
(* A request resolves its workspace and role first and acts with what it   *)
(* read then.  Members come and go through the authentication library.  A  *)
(* key is its id: its prefix and hash decide the same.  An enrollment's    *)
(* own rules are those of the publishing module; here it is attempted.     *)
(***************************************************************************)
EXTENDS Naturals, FiniteSets, Sequences

CONSTANTS
  Users, Workspaces,
  ApiKeys,         \* ids keys may get
  Tokens,          \* confirmation tokens that may be made
  Enrollments,     \* automation and contact, as a client asks for them
  Conversations,   \* ids conversations may get
  RolesGiven,      \* roles members and keys are given
  Lifetime,        \* how long a token may be confirmed
  MaxClock,        \* bound: the clock
  AccessRequests,  \* concurrent requests
  None             \* no role, no row

WorkspaceRoles == <<"viewer", "analyst", "marketer", "admin", "owner">>
RoleRank == [role \in {WorkspaceRoles[i] : i \in DOMAIN WorkspaceRoles} |->
               CHOOSE i \in DOMAIN WorkspaceRoles : WorkspaceRoles[i] = role]
HasWorkspaceRole(role, minimum) == RoleRank[role] >= RoleRank[minimum]

VARIABLES
  clock,
  member,        \* Users -> Workspaces -> the role, or None
  apiKey,        \* ApiKeys -> workspace, role and end of life, or None
  confirmation,  \* Tokens -> the row of idempotency_keys, or None
  accessReq,     \* AccessRequests -> what the request is about to do
  conversation,  \* Conversations -> workspace and owner, or None
  prepared,      \* history: Tokens -> the row as it was prepared, or None
  attempted,     \* history: Tokens -> enrollments attempted on it
  forwarded      \* history: requests an agent received

accessVars == <<clock, member, apiKey, confirmation, accessReq, conversation,
                prepared, attempted, forwarded>>

KeyRow == [workspace : Workspaces, role : RolesGiven, expires : 1 .. MaxClock + 1]
TokenRow == [workspace : Workspaces, key : ApiKeys, enrollment : Enrollments,
             expires : 0 .. MaxClock + Lifetime]
Attempt == [token : Tokens, workspace : Workspaces, key : ApiKeys, role : RolesGiven,
            enrollment : Enrollments, at : 0 .. MaxClock]
ConversationRow == [workspace : Workspaces, owner : Users]

ASSUME AccessAssumption ==
  /\ RolesGiven \subseteq DOMAIN RoleRank
  /\ {Lifetime, MaxClock} \subseteq Nat
  /\ None \notin RolesGiven \cup KeyRow \cup TokenRow \cup ConversationRow

AccessIdle == [step |-> "idle"]
AccessState ==
  {AccessIdle}
    \cup [step : {"tool"}, workspace : Workspaces, role : RolesGiven, key : ApiKeys]
    \cup [step : {"member"}, workspace : Workspaces, role : RolesGiven, user : Users]
    \cup [step : {"enroll"}, attempt : Attempt]

AccessTypeOK ==
  /\ clock \in 0 .. MaxClock
  /\ member \in [Users -> [Workspaces -> RolesGiven \cup {None}]]
  /\ apiKey \in [ApiKeys -> KeyRow \cup {None}]
  /\ confirmation \in [Tokens -> TokenRow \cup {None}]
  /\ accessReq \in [AccessRequests -> AccessState]
  /\ conversation \in [Conversations -> ConversationRow \cup {None}]
  /\ prepared \in [Tokens -> TokenRow \cup {None}]
  /\ \A t \in Tokens : attempted[t] \subseteq Attempt \X {0, 1}
  /\ forwarded \subseteq [conversation : Conversations, workspace : Workspaces, user : Users]

AccessInit ==
  /\ clock = 0
  /\ member \in [Users -> [Workspaces -> RolesGiven \cup {None}]]
  /\ apiKey \in [ApiKeys -> {None} \cup {k \in KeyRow : k.expires = MaxClock + 1}]
  /\ confirmation = [t \in Tokens |-> None]
  /\ accessReq = [r \in AccessRequests |-> AccessIdle]
  /\ conversation = [c \in Conversations |-> None]
  /\ prepared = [t \in Tokens |-> None]
  /\ attempted = [t \in Tokens |-> {}]
  /\ forwarded = {}

In(r, step) == accessReq[r].step = step
Resume(r, state) == accessReq' = [accessReq EXCEPT ![r] = state]
rowVars == <<member, apiKey, confirmation, conversation>>
accessHistory == <<prepared, attempted, forwarded>>

Tick ==
  /\ clock < MaxClock
  /\ clock' = clock + 1
  /\ UNCHANGED <<rowVars, accessReq, accessHistory>>

(* The organization plugin: invitations, changed roles, removals.          *)
SetMember(u, w, role) ==
  /\ member[u][w] # role
  /\ member' = [member EXCEPT ![u][w] = role]
  /\ UNCHANGED <<clock, apiKey, confirmation, conversation, accessReq, accessHistory>>

-----------------------------------------------------------------------------
(* resolveWorkspaceAccess: a bearer token decides alone; findActiveByPrefix *)
(* leaves out keys that have ended.                                        *)
ResolveApiKey(r, k) ==
  /\ In(r, "idle")
  /\ apiKey[k] # None
  /\ clock < apiKey[k].expires
  /\ Resume(r, [step |-> "tool", workspace |-> apiKey[k].workspace,
                role |-> apiKey[k].role, key |-> k])
  /\ UNCHANGED <<clock, rowVars, accessHistory>>

(* resolveMemberContext: the workspace asked for, or the user's first.     *)
ResolveMemberContext(r, u, w) ==
  /\ In(r, "idle")
  /\ member[u][w] # None
  /\ Resume(r, [step |-> "member", workspace |-> w, role |-> member[u][w], user |-> u])
  /\ UNCHANGED <<clock, rowVars, accessHistory>>

(* A handler that finds nothing to do, or a request that dies.             *)
EndRequest(r) ==
  /\ accessReq[r] # AccessIdle
  /\ Resume(r, AccessIdle)
  /\ UNCHANGED <<clock, rowVars, accessHistory>>

(* createApiKey: an administrator, or a key that has the role.             *)
CreateApiKey(r, k, role, expires) ==
  /\ In(r, "member") \/ In(r, "tool")
  /\ HasWorkspaceRole(accessReq[r].role, "admin")
  /\ apiKey[k] = None
  /\ apiKey' = [apiKey EXCEPT ![k] = [workspace |-> accessReq[r].workspace, role |-> role,
                                      expires |-> expires]]
  /\ Resume(r, AccessIdle)
  /\ UNCHANGED <<clock, member, confirmation, conversation, accessHistory>>

-----------------------------------------------------------------------------
(* prepare_automation_enrollment: any key may; nothing is enrolled.        *)
CreateAutomationConfirmation(r, t, enrollment) ==
  LET q == accessReq[r]
      row == [workspace |-> q.workspace, key |-> q.key, enrollment |-> enrollment,
              expires |-> clock + Lifetime]
  IN /\ In(r, "tool")
     /\ prepared[t] = None
     /\ confirmation' = [confirmation EXCEPT ![t] = row]
     /\ prepared' = [prepared EXCEPT ![t] = row]
     /\ Resume(r, AccessIdle)
     /\ UNCHANGED <<clock, member, apiKey, conversation, attempted, forwarded>>

(* confirm_automation_enrollment: the role, then the row, which one DELETE *)
(* takes away and returns.                                                 *)
Consumable(q, t) ==
  /\ confirmation[t] # None
  /\ confirmation[t].workspace = q.workspace
  /\ confirmation[t].key = q.key
  /\ clock < confirmation[t].expires

Consumed(r, t) ==
  LET q == accessReq[r]
  IN /\ In(r, "tool") /\ HasWorkspaceRole(q.role, "marketer")
     /\ Consumable(q, t)
     /\ Resume(r, [step |-> "enroll",
                   attempt |-> [token |-> t, workspace |-> q.workspace, key |-> q.key,
                                role |-> q.role, enrollment |-> confirmation[t].enrollment,
                                at |-> clock]])

ConsumeAutomationConfirmation_Reads(r, t) ==
  /\ Consumed(r, t)
  /\ UNCHANGED <<clock, rowVars, accessHistory>>

ConsumeAutomationConfirmation(r, t) ==
  /\ Consumed(r, t)
  /\ confirmation' = [confirmation EXCEPT ![t] = None]
  /\ UNCHANGED <<clock, member, apiKey, conversation, accessHistory>>

(* enrollContactManually, with the token as the source event; the number   *)
(* tells a second attempt from the first.                                  *)
EnrollContactManually(r) ==
  LET a == accessReq[r].attempt
  IN /\ In(r, "enroll")
     /\ attempted' = [attempted EXCEPT ![a.token] =
                        @ \cup {<<a, IF @ = {} THEN 0 ELSE 1>>}]
     /\ Resume(r, AccessIdle)
     /\ UNCHANGED <<clock, rowVars, prepared, forwarded>>

(* The daily maintenance deletes the rows that have ended.                 *)
PurgeExpiredIdempotencyKeys ==
  LET ended == {t \in Tokens : confirmation[t] # None /\ confirmation[t].expires < clock}
  IN /\ ended # {}
     /\ confirmation' = [t \in Tokens |-> IF t \in ended THEN None ELSE confirmation[t]]
     /\ UNCHANGED <<clock, member, apiKey, conversation, accessReq, accessHistory>>

-----------------------------------------------------------------------------
(* A conversation belongs to the member who started it; the gateway passes *)
(* on a request of the owner, in the workspace it was started in.          *)
CreateConversation(r, c) ==
  LET q == accessReq[r]
  IN /\ In(r, "member")
     /\ conversation[c] = None
     /\ conversation' = [conversation EXCEPT ![c] = [workspace |-> q.workspace, owner |-> q.user]]
     /\ Resume(r, AccessIdle)
     /\ UNCHANGED <<clock, member, apiKey, confirmation, accessHistory>>

ForwardAgentRequest(r, c) ==
  LET q == accessReq[r]
  IN /\ In(r, "member")
     /\ conversation[c] = [workspace |-> q.workspace, owner |-> q.user]
     /\ forwarded' = forwarded \cup {[conversation |-> c, workspace |-> q.workspace, user |-> q.user]}
     /\ Resume(r, AccessIdle)
     /\ UNCHANGED <<clock, rowVars, prepared, attempted>>

McpNext ==
  \/ Tick \/ PurgeExpiredIdempotencyKeys
  \/ \E r \in AccessRequests :
       \/ EndRequest(r) \/ EnrollContactManually(r)
       \/ \E k \in ApiKeys :
            \/ ResolveApiKey(r, k)
            \/ \E role \in RolesGiven, expires \in 1 .. MaxClock + 1 :
                 CreateApiKey(r, k, role, expires)
       \/ \E t \in Tokens :
            \/ ConsumeAutomationConfirmation(r, t)
            \/ \E e \in Enrollments : CreateAutomationConfirmation(r, t, e)

MemberNext ==
  \/ \E u \in Users, w \in Workspaces, role \in RolesGiven \cup {None} : SetMember(u, w, role)
  \/ \E r \in AccessRequests :
       \/ \E u \in Users, w \in Workspaces : ResolveMemberContext(r, u, w)
       \/ \E k \in ApiKeys, role \in RolesGiven, expires \in 1 .. MaxClock + 1 :
            CreateApiKey(r, k, role, expires)
       \/ \E c \in Conversations : CreateConversation(r, c) \/ ForwardAgentRequest(r, c)

AccessNext == McpNext \/ MemberNext

AccessSpec == AccessInit /\ [][AccessNext]_accessVars

-----------------------------------------------------------------------------
(* A contact is enrolled by a client only as it was prepared: by the key   *)
(* that prepared it and in its workspace, with the role it takes, before   *)
(* the token ended, and once, also when the same token is confirmed twice  *)
(* at once.  (tools/automations.ts: "Prepare, but do not execute, a        *)
(* contact enrollment. The confirmation token expires in five minutes.")   *)
ConfirmedOnce ==
  \A t \in Tokens :
    /\ Cardinality(attempted[t]) <= 1
    /\ \A a \in {x[1] : x \in attempted[t]} :
         /\ prepared[t] # None
         /\ [workspace |-> a.workspace, key |-> a.key, enrollment |-> a.enrollment,
             expires |-> prepared[t].expires] = prepared[t]
         /\ a.at < prepared[t].expires
         /\ HasWorkspaceRole(a.role, "marketer")

(* A conversation is read by nobody but its owner, and its row never       *)
(* changes hands.  (agents/gateway.ts)                                     *)
ConversationPrivate ==
  \A f \in forwarded :
    conversation[f.conversation] = [workspace |-> f.workspace, owner |-> f.user]

AccessSafe == ConfirmedOnce /\ ConversationPrivate

=============================================================================
