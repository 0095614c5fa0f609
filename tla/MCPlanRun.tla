------------------------------ MODULE MCPlanRun ------------------------------
(***************************************************************************)
(* An instance of PlanRun: the agent a and the tool t start together, the  *)
(* checkpoint c waits for both, and a revision at c may add the agent b.   *)
(***************************************************************************)
EXTENDS PlanRun

CONSTANTS a, b, c, t

Submitted(kind, deps) == [kind |-> kind, deps |-> deps, lineage |-> NoLineage]

First ==
  [n \in {a, t, c} |->
     CASE n = a -> Submitted("agent", {})
       [] n = t -> Submitted("tool", {})
       [] n = c -> Submitted("checkpoint", {a, t})]

Second == [n \in {a, t, c, b} |-> IF n = b THEN Submitted("agent", {c}) ELSE First[n]]

MCSubmissions == {First, Second}
=============================================================================
