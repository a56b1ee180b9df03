-------------------------- MODULE AutomationGraph --------------------------
(***************************************************************************)
(* What an automation's graph must be for the engine to run it: the        *)
(* reference the editor (AutomationBuilder) and the server's check         *)
(* (GraphValidation) are held against.  A graph is the kind of each of its *)
(* nodes and a set of edges; positions, labels and configurations are left *)
(* out.                                                                    *)
(***************************************************************************)
EXTENDS Naturals, FiniteSets

Kinds == {"source", "action", "delay", "condition", "decision"}
Branches == {"next", "yes", "no", "timeout"}

(* branchesByNodeType: the branches the server accepts out of a node.      *)
BranchesByNodeType ==
  [k \in Kinds |-> CASE k = "condition" -> {"yes", "no"}
                     [] k = "decision"  -> {"yes", "no", "timeout"}
                     [] OTHER           -> {"next"}]

Nodes(g) == DOMAIN g.kind
SourceNodes(g) == {n \in Nodes(g) : g.kind[n] = "source"}

(* A set of nodes no edge leaves; what can be reached from n is the least  *)
(* one that n is in.                                                       *)
Closed(edges, R) == \A e \in edges : e.source \in R => e.target \in R
Reaches(g, n, m) == \A R \in SUBSET Nodes(g) : n \in R /\ Closed(g.edges, R) => m \in R

(* No cycle: every set of nodes has one without a successor in the set.    *)
Acyclic(g) ==
  \A S \in (SUBSET Nodes(g)) \ {{}} :
    \E n \in S : \A e \in g.edges : e.source = n => e.target \notin S

EndpointsExist(g) ==
  \A e \in g.edges : e.source \in Nodes(g) /\ e.target \in Nodes(g)

BranchesAccepted(g) ==
  \A e \in g.edges :
    e.source \in Nodes(g) => e.branch \in BranchesByNodeType[g.kind[e.source]]

OneSource(g) == \E s \in Nodes(g) : SourceNodes(g) = {s}

(* Two edges on one branch would make the engine take both.                *)
OneEdgePerBranch(g) ==
  \A e, f \in g.edges : e.source = f.source /\ e.branch = f.branch => e = f

=============================================================================
