---------------------- MODULE MCAutomationPublishing ----------------------
(***************************************************************************)
(* Small instances of AutomationPublishing: graphs that differ in each     *)
(* thing the code looks at, and the events that fire them.                 *)
(***************************************************************************)
EXTENDS AutomationPublishing, TLC

\* A form's graph, the same with a mail node and another source node, and one
\* that does not validate.
FormGraphs == {"form", "mail", "broken"}
FormValid  == {"form", "mail"}
FormSource == ("form" :> "s1") @@ ("mail" :> "s2") @@ ("broken" :> NoSource)
FormType   == ("form" :> "submitted") @@ ("mail" :> "custom") @@ ("broken" :> "submitted")
FormResource == ("form" :> "form1") @@ ("mail" :> NoResource) @@ ("broken" :> NoResource)
FormReentry  == ("form" :> "once") @@ ("mail" :> "every_time") @@ ("broken" :> "once")

\* A form's graph and one for inactive contacts, both entered once, and one
\* that is entered every time.
OnceGraphs == {"form", "idle", "mail"}
OnceSource == ("form" :> "s1") @@ ("idle" :> "s2") @@ ("mail" :> "s3")
OnceType   == ("form" :> "submitted") @@ ("idle" :> NoType) @@ ("mail" :> "submitted")
OnceResource == ("form" :> "form1") @@ ("idle" :> NoResource) @@ ("mail" :> NoResource)
OnceReentry  == ("form" :> "once") @@ ("idle" :> "once") @@ ("mail" :> "every_time")

AllSubmitted == [e \in Events |-> "submitted"]
OnForm1  == [e \in Events |-> "form1"]

Symmetry == Permutations(Publishers)

SoleContact == ("c1" :> 1)
TwoContacts == ("c1" :> 1) @@ ("c2" :> 2)
=============================================================================
