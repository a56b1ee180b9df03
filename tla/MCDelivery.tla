----------------------------- MODULE MCDelivery -----------------------------
(***************************************************************************)
(* Small instances of Delivery: one contact, an email and a webhook, and   *)
(* the hazard budgets the configurations choose from.                      *)
(***************************************************************************)
EXTENDS Delivery, TLC

SoleContact == [d \in Deliveries |-> CHOOSE c \in Contacts : TRUE]

None == [h \in Hazards |-> 0]

Repeated == [None EXCEPT !["unsent"] = 1, !["death"] = 1, !["unack"] = 1,
                         !["transient"] = 1, !["duplicate"] = 1, !["replay"] = 1]
Mixed == [None EXCEPT !["event"] = 1, !["error"] = 1, !["death"] = 1, !["reject"] = 1]

Symmetry == Permutations(Workers)
=============================================================================
