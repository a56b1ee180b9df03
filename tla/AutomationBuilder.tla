------------------------- MODULE AutomationBuilder -------------------------
(***************************************************************************)
(* The automation editor of the browser client: the definition a reducer   *)
(* holds, and the handlers that replace it.                                *)
(*                                                                         *)
(*   apps/client/src/features/automations/use-automation-builder.ts        *)
(*   apps/client/src/features/automations/automation-graph.ts              *)
(*   apps/client/src/features/automations/automation-presets.ts            *)
(*                                                                         *)
(* A handler computes the next definition from the one its render closed   *)
(* over, not from the reducer's state: of two handlers called in one event *)
(* (a click both changes nodes and selects one) the second works on a      *)
(* definition that is no longer current and overwrites the first.          *)
(***************************************************************************)
EXTENDS AutomationGraph, Sequences

CONSTANTS
  NodeIds,     \* ids nodes may get; the source of every preset is "source"
  AddedKinds,  \* kinds the toolbar adds
  MaxNodes,    \* bound: nodes of one definition
  Nobody       \* no node is selected

ASSUME BuilderAssumption ==
  /\ "source" \in NodeIds
  /\ Nobody \notin NodeIds
  /\ AddedKinds \subseteq Kinds \ {"source"}

VARIABLES
  builder,   \* the reducer's state: the definition and the selected node
  rendered   \* the state the current render's handlers closed over

builderVars == <<builder, rendered>>

Edges == [source : NodeIds, target : NodeIds, branch : Branches]

IsBuilderState(b) ==
  /\ b.kind \in [DOMAIN b.kind -> Kinds]
  /\ DOMAIN b.kind \subseteq NodeIds
  /\ b.edges \subseteq Edges
  /\ b.selected \in NodeIds \cup {Nobody}
  /\ b = [kind |-> b.kind, edges |-> b.edges, selected |-> b.selected]

BuilderTypeOK == IsBuilderState(builder) /\ IsBuilderState(rendered)

-----------------------------------------------------------------------------
(* automation-graph.ts                                                     *)

ChainEdges(ids) ==
  {[source |-> ids[i], target |-> ids[i + 1], branch |-> "next"] : i \in 1 .. Len(ids) - 1}

(* connectionBranches: the branches the editor offers, in their order.     *)
ConnectionBranches(kind) ==
  CASE kind = "condition" -> <<"yes", "no">>
    [] kind = "decision"  -> <<"yes", "timeout">>
    [] OTHER              -> <<"next">>

Offers(kind, b) == \E i \in DOMAIN ConnectionBranches(kind) : ConnectionBranches(kind)[i] = b

(* connectionCreatesCycle: the search from the target meets the source.    *)
ConnectionCreatesCycle_DirectOnly(nodes, edges, s, t) ==
  s = t \/ \E e \in edges : e.source = t /\ e.target = s

ConnectionCreatesCycle(nodes, edges, s, t) ==
  \A R \in SUBSET nodes : t \in R /\ Closed(edges, R) => s \in R

(* withAutomationConnection: the branch is freed, then led to the target;  *)
(* refused for a target that is the source node or closes a cycle.         *)
Freed(g, s, b) == {e \in g.edges : ~(e.source = s /\ e.branch = b)}

CanConnect(g, s, t, b) ==
  /\ s \in Nodes(g) /\ t \in Nodes(g)
  /\ g.kind[t] # "source"
  /\ Offers(g.kind[s], b)
  /\ ~ConnectionCreatesCycle(Nodes(g), Freed(g, s, b), s, t)

Connected(g, s, t, b) ==
  [g EXCEPT !.edges = Freed(g, s, b) \cup {[source |-> s, target |-> t, branch |-> b]}]

Disconnected(g, s, b) == [g EXCEPT !.edges = Freed(g, s, b)]

(* The presets a new automation starts from (createPresetAutomation).      *)
Preset(kinds, edges, first) == [kind |-> kinds, edges |-> edges, selected |-> first]

WelcomePreset ==
  Preset([n \in {"source", "first", "wait", "second"} |->
            IF n = "source" THEN "source" ELSE IF n = "wait" THEN "delay" ELSE "action"],
         ChainEdges(<<"source", "first", "wait", "second">>), "source")
CartPreset ==
  Preset([n \in {"source", "first", "wait", "second"} |->
            IF n = "source" THEN "source" ELSE IF n = "wait" THEN "delay"
            ELSE IF n = "first" THEN "decision" ELSE "action"],
         ChainEdges(<<"source", "wait", "first">>)
           \cup {[source |-> "first", target |-> "second", branch |-> "timeout"]}, "source")
PurchasePreset ==
  Preset([n \in {"source", "first", "wait"} |->
            IF n = "source" THEN "source" ELSE IF n = "wait" THEN "delay" ELSE "action"],
         ChainEdges(<<"source", "wait", "first">>), "source")
ReengagementPreset ==
  Preset([n \in {"source", "first"} |-> IF n = "source" THEN "source" ELSE "action"],
         ChainEdges(<<"source", "first">>), "source")

Presets == {p \in {WelcomePreset, CartPreset, PurchasePreset, ReengagementPreset} :
              Nodes(p) \subseteq NodeIds}

BuilderInit ==
  /\ builder \in Presets
  /\ rendered = builder

-----------------------------------------------------------------------------
(* The reducer's three actions, and the render that follows sooner or      *)
(* later.                                                                  *)

ReplaceDefinition(g) ==
  /\ builder' = [kind |-> g.kind, edges |-> g.edges, selected |-> builder.selected]
  /\ UNCHANGED rendered

ReplaceAndSelect(g, n) ==
  /\ builder' = [kind |-> g.kind, edges |-> g.edges, selected |-> n]
  /\ UNCHANGED rendered

SelectNode(n) ==
  /\ n \in Nodes(rendered) \cup {Nobody}
  /\ builder' = [builder EXCEPT !.selected = n]
  /\ UNCHANGED rendered

Render ==
  /\ rendered' = builder
  /\ UNCHANGED builder

(* onNodesChange moves nodes and updateNode edits a configuration: the     *)
(* nodes keep their kinds, and the edges are those that were rendered.     *)
OnNodesChange == ReplaceDefinition(rendered)

(* onEdgesChange: a change the canvas reports selects an edge or takes one *)
(* away.                                                                   *)
OnEdgesChange(gone) == ReplaceDefinition([rendered EXCEPT !.edges = @ \ gone])

(* connect (dragged on the canvas) and setConnection (the side panel).     *)
Connect(s, t, b) ==
  /\ CanConnect(rendered, s, t, b)
  /\ ReplaceDefinition(Connected(rendered, s, t, b))

Disconnect(s, b) ==
  /\ s \in Nodes(rendered)
  /\ Offers(rendered.kind[s], b)
  /\ ReplaceDefinition(Disconnected(rendered, s, b))

IsFree(g, s, b) == ~\E e \in g.edges : e.source = s /\ e.branch = b

(* The edge that ties a new node to the selected one: on the first branch  *)
(* the editor offers that is free, if there is one.                        *)
FirstEdge(g, n) ==
  IF g.selected \notin Nodes(g) THEN {}
  ELSE LET offered == ConnectionBranches(g.kind[g.selected])
       IN {[source |-> g.selected, target |-> n, branch |-> offered[i]] :
             i \in {j \in DOMAIN offered :
                      /\ IsFree(g, g.selected, offered[j])
                      /\ \A k \in DOMAIN offered : k < j => ~IsFree(g, g.selected, offered[k])}}

AddNode(n, kind) ==
  /\ n \notin Nodes(rendered) \cup Nodes(builder)
  /\ Cardinality(Nodes(rendered)) < MaxNodes
  /\ ReplaceAndSelect([kind  |-> [m \in Nodes(rendered) \cup {n} |->
                                    IF m = n THEN kind ELSE rendered.kind[m]],
                       edges |-> rendered.edges \cup FirstEdge(rendered, n)], n)

(* The source node cannot be deleted; a deleted node takes its edges along.*)
DeleteSelectedNode ==
  LET d == rendered.selected
  IN /\ d \in Nodes(rendered)
     /\ rendered.kind[d] # "source"
     /\ ReplaceAndSelect([kind  |-> [m \in Nodes(rendered) \ {d} |-> rendered.kind[m]],
                          edges |-> {e \in rendered.edges : e.source # d /\ e.target # d}],
                         Nobody)

BuilderNext ==
  \/ Render
  \/ OnNodesChange
  \/ OnEdgesChange({}) \/ \E e \in rendered.edges : OnEdgesChange({e})
  \/ \E n \in NodeIds \cup {Nobody} : SelectNode(n)
  \/ \E s, t \in NodeIds, b \in Branches : Connect(s, t, b)
  \/ \E s \in NodeIds, b \in Branches : Disconnect(s, b)
  \/ \E n \in NodeIds, kind \in AddedKinds : AddNode(n, kind)
  \/ DeleteSelectedNode

BuilderSpec == BuilderInit /\ [][BuilderNext]_builderVars

-----------------------------------------------------------------------------
(* Whatever is drawn, the graph the editor would save has nothing for the  *)
(* server to refuse but a step that is not connected yet: one source, no   *)
(* edge to a node that was deleted, branches the engine knows, one edge    *)
(* per branch and no cycle.  Handlers that work on a stale render keep it  *)
(* so.  (automation-graph.ts withAutomationConnection, use-automation-     *)
(* builder.ts addNode and deleteSelectedNode)                              *)
BuiltGraphSound ==
  /\ OneSource(builder)
  /\ EndpointsExist(builder)
  /\ BranchesAccepted(builder)
  /\ OneEdgePerBranch(builder)
  /\ Acyclic(builder)

=============================================================================
