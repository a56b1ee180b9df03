-------------------------- MODULE GraphValidation --------------------------
(***************************************************************************)
(* The server's check of a draft before it is published:                   *)
(* packages/core/src/automations/automation.ts validateAutomation, a       *)
(* depth-first walk from the source node.                                  *)
(*                                                                         *)
(* A draft saved through the API is any list of nodes and edges.  Here one *)
(* grows by a node or an edge at a time, and is put to the check at any    *)
(* time; of the check, a call of walk and a return from it is a step each, *)
(* on a stack of the calls that have not returned.  Edge ids, which only   *)
(* the test for duplicate ids reads, and the texts of the issues are left  *)
(* out.                                                                    *)
(***************************************************************************)
EXTENDS AutomationGraph, Sequences

CONSTANTS
  DraftIds,       \* ids the draft's nodes and edges may name
  DraftKinds,     \* kinds its nodes may have
  DraftBranches,  \* branches its edges may have
  MaxDraftNodes,  \* bound: nodes of a draft
  MaxDraftEdges   \* bound: edges of a draft

ASSUME DraftAssumption ==
  /\ DraftKinds \subseteq Kinds /\ DraftBranches \subseteq Branches
  /\ MaxDraftNodes \in Nat /\ MaxDraftEdges \in Nat

VARIABLES
  draftNodes,   \* the nodes, in order: id and type
  draftEdges,   \* the edges, in order
  walk          \* the check: its calls of walk and the sets they share

draftVars == <<draftNodes, draftEdges, walk>>

DraftNode == [id : DraftIds, type : DraftKinds]
DraftEdge == [source : DraftIds, target : DraftIds, branch : DraftBranches]

(* A call: its node, and the places of the edges it has yet to follow.     *)
Call == [node : DraftIds, left : SUBSET Nat]
WalkState ==
  [step : {"drafting", "walking", "done"}, stack : Seq(Call),
   visiting : SUBSET DraftIds, visited : SUBSET DraftIds,
   reachable : SUBSET DraftIds, cycles : SUBSET DraftIds]

DraftTypeOK ==
  draftNodes \in Seq(DraftNode) /\ draftEdges \in Seq(DraftEdge) /\ walk \in WalkState

Unwalked ==
  [step |-> "drafting", stack |-> <<>>,
   visiting |-> {}, visited |-> {}, reachable |-> {}, cycles |-> {}]

DraftInit == draftNodes = <<>> /\ draftEdges = <<>> /\ walk = Unwalked

AddDraftNode(n) ==
  /\ walk.step = "drafting"
  /\ Len(draftNodes) < MaxDraftNodes
  /\ draftEdges = <<>>
  /\ draftNodes' = Append(draftNodes, n)
  /\ UNCHANGED <<draftEdges, walk>>

AddDraftEdge(e) ==
  /\ walk.step = "drafting"
  /\ Len(draftEdges) < MaxDraftEdges
  /\ draftEdges' = Append(draftEdges, e)
  /\ UNCHANGED <<draftNodes, walk>>

-----------------------------------------------------------------------------
Ids == {draftNodes[i].id : i \in DOMAIN draftNodes}

(* nodes.get(id): the map keeps the last node with an id.                  *)
NodeOf(id) ==
  CHOOSE i \in DOMAIN draftNodes :
    /\ draftNodes[i].id = id
    /\ \A j \in DOMAIN draftNodes : draftNodes[j].id = id => j <= i
TypeOf(id) == draftNodes[NodeOf(id)].type

(* Where the source nodes are; the walk begins at the first.               *)
DraftSources == {i \in DOMAIN draftNodes : draftNodes[i].type = "source"}
FirstSource == CHOOSE i \in DraftSources : \A j \in DraftSources : i <= j

NodeIssues ==
  {[code |-> "duplicate_node", at |-> draftNodes[i].id] :
     i \in {j \in DOMAIN draftNodes : \E k \in 1 .. j - 1 : draftNodes[k].id = draftNodes[j].id}}

SourceIssues ==
  CASE Cardinality(DraftSources) = 0 -> {[code |-> "missing_source"]}
    [] Cardinality(DraftSources) > 1 -> {[code |-> "multiple_sources"]}
    [] OTHER                         -> {}

HasEndpoints(e) == e.source \in Ids /\ e.target \in Ids

EdgeIssues ==
  {[code |-> "missing_endpoint", edge |-> i] :
     i \in {j \in DOMAIN draftEdges : ~HasEndpoints(draftEdges[j])}}
  \cup
  {[code |-> "invalid_branch", edge |-> i] :
     i \in {j \in DOMAIN draftEdges :
              /\ HasEndpoints(draftEdges[j])
              /\ draftEdges[j].branch \notin BranchesByNodeType[TypeOf(draftEdges[j].source)]}}

(* adjacency.get(id): where the edges to its targets are.                  *)
Adjacency(id) ==
  {i \in DOMAIN draftEdges : HasEndpoints(draftEdges[i]) /\ draftEdges[i].source = id}

-----------------------------------------------------------------------------
(* walk(id), up to its loop.                                               *)
Enter(id, w) ==
  [w EXCEPT !.stack = Append(@, [node |-> id, left |-> Adjacency(id)]),
            !.visiting = @ \cup {id}, !.reachable = @ \cup {id}]

Walk(id, w) ==
  IF id \in w.visiting THEN [w EXCEPT !.cycles = @ \cup {id}]
  ELSE IF id \in w.visited THEN w
  ELSE Enter(id, w)

Top == walk.stack[Len(walk.stack)]

StartWalk ==
  /\ walk.step = "drafting"
  /\ walk' = IF DraftSources = {} THEN [walk EXCEPT !.step = "done"]
             ELSE Walk(draftNodes[FirstSource].id, [walk EXCEPT !.step = "walking"])
  /\ UNCHANGED <<draftNodes, draftEdges>>

(* The loop's next turn: the edges in their order.                         *)
WalkChild ==
  /\ walk.step = "walking"
  /\ \E i \in Top.left :
       /\ \A j \in Top.left : i <= j
       /\ walk' = Walk(draftEdges[i].target,
                       [walk EXCEPT !.stack[Len(walk.stack)].left = @ \ {i}])
  /\ UNCHANGED <<draftNodes, draftEdges>>

Leave_KeepsVisiting(id, w) == [w EXCEPT !.visited = @ \cup {id}]

Leave(id, w) == [w EXCEPT !.visiting = @ \ {id}, !.visited = @ \cup {id}]

(* The loop is over, and the call returns.                                 *)
WalkReturn ==
  /\ walk.step = "walking"
  /\ Top.left = {}
  /\ walk' = Leave(Top.node,
               [walk EXCEPT !.stack = SubSeq(@, 1, Len(@) - 1),
                            !.step = IF Len(walk.stack) = 1 THEN "done" ELSE "walking"])
  /\ UNCHANGED <<draftNodes, draftEdges>>

DraftNext ==
  \/ \E n \in DraftNode : AddDraftNode(n)
  \/ \E e \in DraftEdge : AddDraftEdge(e)
  \/ StartWalk \/ WalkChild \/ WalkReturn

DraftSpec == DraftInit /\ [][DraftNext]_draftVars

-----------------------------------------------------------------------------
(* What the check reports, once the walk is over.                          *)
WalkIssues ==
  IF DraftSources = {} THEN {}
  ELSE {[code |-> "cycle", at |-> n] : n \in walk.cycles}
         \cup {[code |-> "unreachable", at |-> n] : n \in Ids \ walk.reachable}

ValidateAutomation == NodeIssues \cup SourceIssues \cup EdgeIssues \cup WalkIssues

(* The graph a draft with distinct ids stands for.                         *)
DraftGraph ==
  [kind  |-> [id \in Ids |-> TypeOf(id)],
   edges |-> {draftEdges[i] : i \in DOMAIN draftEdges}]

(* The check refuses exactly the drafts the engine could not run: a draft  *)
(* passes if and only if its ids are distinct and its graph has one        *)
(* source, edges between nodes it has, on branches their nodes have, no    *)
(* cycle, and every node reachable from the source; a node two branches    *)
(* lead to is no cycle, however the walk meets it.                         *)
(* (packages/core/src/automations/automation.ts validateAutomation)        *)
ValidationSound ==
  walk.step = "done" =>
    (ValidateAutomation = {} <=>
       /\ Cardinality(Ids) = Len(draftNodes)
       /\ OneSource(DraftGraph)
       /\ EndpointsExist(DraftGraph)
       /\ BranchesAccepted(DraftGraph)
       /\ Acyclic(DraftGraph)
       /\ \A s \in SourceNodes(DraftGraph), n \in Ids : Reaches(DraftGraph, s, n))

=============================================================================
