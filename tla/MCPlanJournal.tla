--------------------------- MODULE MCPlanJournal ---------------------------
(***************************************************************************)
(* Instances of PlanJournal.  The kind and lineage a local id is submitted *)
(* with are fixed by the id.                                               *)
(***************************************************************************)
EXTENDS PlanJournal

\* An agent a, an agent b that continues a's lineage, a checkpoint c, a tool t.
CONSTANTS a, b, c, t

KindOf(n) ==
  CASE n = c -> "checkpoint" [] n = t -> "tool" [] OTHER -> "agent"

Submitted(n, d) ==
  [kind |-> KindOf(n), deps |-> d, lineage |-> IF n = b THEN a ELSE NoLineage]

\* One dependency order, so that revisions cut and regrow a chain: the tool t
\* needs a, the checkpoint c needs both, and the agent b needs the checkpoint,
\* or nothing where a revision replaces what came before.
ChainDeps(n, ids) ==
  CASE n = a -> {}
    [] n = t -> {a}
    [] n = c -> {a, t}
    [] n = b -> {c} \cap ids

Chains ==
  {[n \in ids |-> Submitted(n, ChainDeps(n, ids))] :
     ids \in {{a, t}, {a, t, c}, {a, t, c, b}, {a, b}, {b}}}

\* A fork from the checkpoint, and a join of two roots.
Fork == [n \in {a, c, t} |-> Submitted(n, IF n = c THEN {} ELSE {c})]
Join == [n \in {a, b, c} |-> Submitted(n, IF n = c THEN {a, b} ELSE {})]

\* Plans the validation refuses: a loop, a cycle, an edge out of the plan.
Refused ==
  {[n \in {a} |-> Submitted(n, {a})],
   [n \in {a, c} |-> Submitted(n, {a, c} \ {n})],
   [n \in {a, c} |-> Submitted(n, {t})]}

MCSubmissions == Chains \cup {Fork, Join} \cup Refused
=============================================================================
