------------------------ MODULE MCAutomationEngine ------------------------
(***************************************************************************)
(* Small instances of AutomationEngine: the graphs and hazard budgets the  *)
(* configurations choose from.                                             *)
(***************************************************************************)
EXTENDS AutomationEngine, TLC

NoEdges == [b \in Branches |-> NoNode]

SameKind == [n \in Nodes |-> n]

\* source -> delay -> action
DelayNodes == {"source", "delay", "action"}
DelayEdge ==
  [ source |-> [NoEdges EXCEPT !["next"] = "delay"],
    delay  |-> [NoEdges EXCEPT !["next"] = "action"],
    action |-> NoEdges ]

\* source -> condition; yes -> action; no -> decision
ForkNodes == {"source", "condition", "action", "decision"}
ForkEdge ==
  [ source    |-> [NoEdges EXCEPT !["next"] = "condition"],
    condition |-> [NoEdges EXCEPT !["yes"] = "action", !["no"] = "decision"],
    action    |-> NoEdges,
    decision  |-> [NoEdges EXCEPT !["yes"] = "action"] ]

\* source -> decision; its event leads to the action, its timeout has no edge.
WaitNodes == {"source", "decision", "action"}
WaitEdge ==
  [ source   |-> [NoEdges EXCEPT !["next"] = "decision"],
    decision |-> [NoEdges EXCEPT !["yes"] = "action"],
    action   |-> NoEdges ]

Budget(fault, reject, lost, duplicate, replay) ==
  [fault |-> fault, reject |-> reject, tick |-> lost,
   duplicate |-> duplicate, replay |-> replay]

Calm       == Budget(0, 0, 0, 0, 0)
Sequential == Budget(1, 1, 1, 0, 0)
Concurrent == Budget(1, 0, 0, 1, 1)
Duplicated == Budget(1, 0, 0, 1, 0)

Symmetry == Permutations(Leases) \union Permutations(Ticks) \union Permutations(Workers)
=============================================================================
