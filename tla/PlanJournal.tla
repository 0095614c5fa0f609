----------------------------- MODULE PlanJournal -----------------------------
(***************************************************************************)
(* The durable plan coordinator of the session journal: the tables         *)
(* execution_plans, plan_nodes, plan_node_states, plan_node_executions and *)
(* the operations of SkailJournal that write them                          *)
(* (src/src/skail/sessions/journal.py:1179-1975).                          *)
(*                                                                         *)
(* Every operation is one BEGIN IMMEDIATE transaction, so every operation  *)
(* is one action.  A call the code refuses raises before it writes, rolls  *)
(* back, and is therefore no step at all.  One run has at most one plan;   *)
(* the plan is what an ExecutionPlan says of each local node identifier    *)
(* (kind, dependencies, lineage); objectives, scopes and texts are left    *)
(* out.  The table plan_nodes is UNIQUE(plan_id, local_id), so a local     *)
(* identifier names one row for ever and stands for the node_id as well.   *)
(***************************************************************************)
EXTENDS Naturals, FiniteSets

CONSTANTS
  Node,          \* local node identifiers the lead may use
  NoLineage,     \* an agent node whose task_lineage field is absent
  Submissions,   \* the ExecutionPlans a lead may submit, valid or not
  MaxRevision    \* bound on plan revisions explored (the code has none)

Kinds == {"agent", "tool", "checkpoint"}

\* PlanNode: what the coordinator reads of a submitted node.
Payload == [kind : Kinds, deps : SUBSET Node, lineage : Node \cup {NoLineage}]

ASSUME NodeAssumption == IsFiniteSet(Node) /\ NoLineage \notin Node

\* A submission maps the local identifiers it contains to their payloads.
ASSUME SubmissionsAssumption ==
  \A p \in Submissions : DOMAIN p \subseteq Node /\ p \in [DOMAIN p -> Payload]

ASSUME RevisionAssumption == MaxRevision \in Nat \ {0}

VARIABLES
  revision,   \* execution_plans.current_revision; 0 before a plan is admitted
  active,     \* local ids in plan_nodes with retired_revision NULL
  retired,    \* local ids in plan_nodes with a retired_revision
  payload,    \* plan_nodes.payload_json (meaningful for active and retired ids)
  status,     \* plan_node_states.status
  exec,       \* plan_node_executions.status, "none" when there is no row
  result      \* the status in plan_node_executions.result_json

planVars == <<revision, active, retired, payload, status, exec, result>>

-----------------------------------------------------------------------------
Dead == {"failed", "blocked", "cancelled"}
Terminal == Dead \cup {"succeeded"}
Launched == {"launching", "running"}
States == {"absent", "waiting", "ready"} \cup Launched \cup Terminal

\* A TaskResult.status; "approval" is the blocked result of a tool whose
\* command came back approval_required (run_controller.py:1810-1832).
Results == {"succeeded", "failed", "blocked", "cancelled", "approval"}

\* The state a settled result leads to.
TargetOf(r) == IF r = "approval" THEN "blocked" ELSE r

LegalTransition ==
  {<<"ready", "launching">>, <<"launching", "running">>, <<"launching", "blocked">>}
    \cup ({"running"} \X Terminal)

-----------------------------------------------------------------------------
\* ExecutionPlan.validate_graph: dependencies stay inside the plan, and no
\* nonempty set of nodes has each member waiting on another one of the set.
ValidGraph(p) ==
  LET ids == DOMAIN p IN
  /\ ids # {}
  /\ \A n \in ids : p[n].deps \subseteq ids \ {n}
  /\ \A S \in SUBSET ids :
       S # {} => \E n \in S : p[n].deps \cap S = {}

\* The submissions that can be built into an ExecutionPlan at all: a refused
\* one never reaches the journal.
Plans == {p \in Submissions : ValidGraph(p)}

\* The nodes of ids that reach S along dependency edges, and S itself: the
\* least set closed under "some dependency is already in it".
Downstream(ids, pay, S) ==
  {n \in ids \cup S :
     \A C \in SUBSET (ids \cup S) :
       (/\ S \subseteq C
        /\ \A m \in ids : pay[m].deps \cap C # {} => m \in C)
         => n \in C}

\* Mutant: one succeeded prerequisite is enough.
ReleasedByAny(st) ==
  [n \in Node |->
     IF n \in active /\ st[n] = "waiting" /\ \E d \in payload[n].deps : st[d] = "succeeded"
     THEN "ready" ELSE st[n]]

\* A success releases every waiting node whose prerequisites all succeeded.
Released(st) ==
  [n \in Node |->
     IF /\ n \in active
        /\ st[n] = "waiting"
        /\ \A d \in payload[n].deps : st[d] = "succeeded"
     THEN "ready" ELSE st[n]]

\* A failure blocks the waiting nodes downstream of the nodes that failed.
Blocked(st, S) ==
  LET hit == Downstream(active, payload, S)
  IN  [m \in Node |->
         IF m \in active \cap hit /\ st[m] = "waiting" THEN "blocked" ELSE st[m]]

\* Mutant: a cancelled or blocked node tells nobody.
AfterFailureOnly(n, target) ==
  LET st == [status EXCEPT ![n] = target]
  IN  CASE target = "succeeded" -> Released(st)
        [] target = "failed"    -> Blocked(st, {n})
        [] OTHER                -> st

\* All the states one transition leaves behind.
After(n, target) ==
  LET st == [status EXCEPT ![n] = target]
  IN  CASE target = "succeeded" -> Released(st)
        [] target \in Dead      -> Blocked(st, {n})
        [] OTHER                -> st

-----------------------------------------------------------------------------
Init ==
  /\ revision = 0
  /\ active = {} /\ retired = {}
  /\ payload = [n \in Node |-> [kind |-> "agent", deps |-> {}, lineage |-> NoLineage]]
  /\ status = [n \in Node |-> "absent"]
  /\ exec = [n \in Node |-> "none"]
  /\ result = [n \in Node |-> "none"]

\* admit_plan: revision one, stored whole with its initial ready frontier.
AdmitPlan(p) ==
  /\ revision = 0
  /\ revision' = 1
  /\ active' = DOMAIN p
  /\ payload' = [n \in Node |-> IF n \in DOMAIN p THEN p[n] ELSE payload[n]]
  /\ status' = [n \in Node |->
                  IF n \notin DOMAIN p THEN status[n]
                  ELSE IF p[n].deps = {} THEN "ready" ELSE "waiting"]
  /\ UNCHANGED <<retired, exec, result>>

\* transition_plan_node_state: compare-and-set on one node, then its effect on
\* the waiting nodes of the current revision.
Transition(n, expected, target) ==
  /\ <<expected, target>> \in LegalTransition
  /\ n \in active
  /\ status[n] = expected
  /\ status' = After(n, target)
  /\ UNCHANGED <<revision, active, retired, payload, exec, result>>

\* begin_plan_node_execution: the row is inserted once.  A later call with the
\* same execution key returns the stored row and writes nothing.
BeginExecution(n) ==
  /\ exec[n] = "none"
  /\ exec' = [exec EXCEPT ![n] = "running"]
  /\ UNCHANGED <<revision, active, retired, payload, status, result>>

\* Mutant: the compare-and-set forgets that the row may be settled.
SettleAgain(n, r) ==
  /\ IF exec[n] # "none"
     THEN /\ exec' = [exec EXCEPT ![n] = "settled"]
          /\ result' = [result EXCEPT ![n] = r]
     ELSE UNCHANGED <<exec, result>>
  /\ UNCHANGED <<revision, active, retired, payload, status>>

\* settle_plan_node_execution: the first result wins; a node that was never
\* begun, or is settled already, is left alone.
SettleExecution(n, r) ==
  /\ IF exec[n] = "running"
     THEN /\ exec' = [exec EXCEPT ![n] = "settled"]
          /\ result' = [result EXCEPT ![n] = r]
     ELSE UNCHANGED <<exec, result>>
  /\ UNCHANGED <<revision, active, retired, payload, status>>

\* retry_approved_plan_tool: the node itself, not what it had blocked.  The
\* operation looks at nothing but the state of the node.
RetryApprovedTool(n) ==
  /\ status[n] = "blocked"
  /\ status' = [status EXCEPT ![n] = "ready"]
  /\ exec' = [exec EXCEPT ![n] = "none"]
  /\ result' = [result EXCEPT ![n] = "none"]
  /\ UNCHANGED <<revision, active, retired, payload>>

\* reconcile_plan_node_executions, for one of the rows it read: a settled row
\* resolves to its recorded state (passing through running in the same
\* transaction), any other launch is ambiguous and blocks.
ReconcileTarget(n) ==
  IF exec[n] = "settled" THEN TargetOf(result[n]) ELSE "blocked"

ReconcileNode(n) ==
  /\ n \in active
  /\ status[n] \in Launched
  /\ status' = After(n, ReconcileTarget(n))
  /\ UNCHANGED <<revision, active, retired, payload, exec, result>>

\* reconcile_plan_node_executions with an allowlist, inside the transaction of
\* a run that stops: launched nodes that were never begun block together.
ReconcileUnlaunched(S) ==
  /\ S \subseteq {n \in active : status[n] = "launching" /\ exec[n] = "none"}
  /\ status' = Blocked([n \in Node |-> IF n \in S THEN "blocked" ELSE status[n]], S)
  /\ UNCHANGED <<revision, active, retired, payload, exec, result>>

-----------------------------------------------------------------------------
\* revise_plan.  The delta check admits exactly one reading of a submission:
\* replaced ids are those it drops, added ids those it introduces, and every
\* id it keeps keeps its payload; the cancelled ids remain part of the plan.
Replaced(p) == active \ DOMAIN p
Added(p) == DOMAIN p \ active

Lineage(n) == IF payload[n].lineage = NoLineage THEN n ELSE payload[n].lineage

\* A replaced agent hands its lineage to an added agent.
LineageKept(p) ==
  \A n \in Replaced(p) :
    payload[n].kind = "agent" =>
      \E m \in Added(p) : p[m].kind = "agent" /\ p[m].lineage = Lineage(n)

RunningCheckpoints ==
  {n \in active : payload[n].kind = "checkpoint" /\ status[n] = "running"}

\* A revision with no delta may only acknowledge one running checkpoint whose
\* prerequisites succeeded and are all cited as evidence.
AcknowledgesCheckpoint(evidence) ==
  \E c \in active :
    /\ RunningCheckpoints = {c}
    /\ payload[c].deps # {}
    /\ payload[c].deps \subseteq evidence
    /\ \A d \in payload[c].deps : status[d] = "succeeded"

\* Mutant: identifiers unique among the rows in use, not among all rows.
FreshAmongActive(p) == Added(p) \cap active = {}

\* UNIQUE(plan_id, local_id): a retired identifier is never inserted again.
FreshIds(p) == Added(p) \cap retired = {}

\* Mutant: what a cancellation blocks may be finished already.
RevisedOverFinished(p, cancelled) ==
  LET gone  == Replaced(p) \cup cancelled
      below == Downstream(active, payload, cancelled) \ cancelled
      kept  == [n \in Node |->
                  IF n \in below THEN "blocked"
                  ELSE IF n \in gone THEN "cancelled" ELSE status[n]]
  IN  [n \in Node |->
         IF n \notin Added(p) THEN kept[n]
         ELSE IF \A d \in p[n].deps : d \in active /\ kept[d] = "succeeded"
              THEN "ready" ELSE "waiting"]

\* Mutant: added nodes get the frontier of a first admission.
RevisedLikeAdmission(p, cancelled) ==
  LET gone  == Replaced(p) \cup cancelled
      below == Downstream(active, payload, cancelled) \ cancelled
  IN  [n \in Node |->
         IF n \in Added(p) THEN IF p[n].deps = {} THEN "ready" ELSE "waiting"
         ELSE IF n \in below /\ status[n] \notin Terminal THEN "blocked"
         ELSE IF n \in gone THEN "cancelled" ELSE status[n]]

RevisedStatus(p, cancelled) ==
  LET gone  == Replaced(p) \cup cancelled
      below == Downstream(active, payload, cancelled) \ cancelled
      kept  == [n \in Node |->
                  IF n \in below /\ status[n] \notin Terminal THEN "blocked"
                  ELSE IF n \in gone THEN "cancelled" ELSE status[n]]
  IN  [n \in Node |->
         IF n \notin Added(p) THEN kept[n]
         ELSE IF \A d \in p[n].deps : d \in active /\ kept[d] = "succeeded"
              THEN "ready" ELSE "waiting"]

RevisePlan(expected, p, cancelled, evidence) ==
  /\ revision > 0 /\ revision = expected
  /\ evidence # {}
  /\ FreshIds(p)
  /\ cancelled \subseteq active \cap DOMAIN p
  /\ LineageKept(p)
  /\ \A n \in active \cap DOMAIN p : p[n] = payload[n]
  /\ (Added(p) = {} /\ Replaced(p) = {} /\ cancelled = {})
       => AcknowledgesCheckpoint(evidence)
  /\ \A n \in Replaced(p) \cup cancelled : status[n] \notin Terminal
  /\ revision' = expected + 1
  /\ active' = DOMAIN p
  /\ retired' = retired \cup Replaced(p)
  /\ payload' = [n \in Node |-> IF n \in Added(p) THEN p[n] ELSE payload[n]]
  /\ status' = RevisedStatus(p, cancelled)
  /\ UNCHANGED <<exec, result>>

-----------------------------------------------------------------------------
(***************************************************************************)
(* The callers.  A coordinator begins an execution only for a node it has  *)
(* moved to launching (run_controller.py:1493-1503, 1570-1582, 1674), and  *)
(* the retry is asked for a tool that was begun, the one an interrupt      *)
(* names (run_controller.py:1817, 3185); the rest of the interface is      *)
(* called here in any order and with any arguments.  Evidence only ever    *)
(* refuses a revision, so the fullest evidence stands for all.             *)
(***************************************************************************)
Next ==
  \/ \E p \in Plans : AdmitPlan(p)
  \/ /\ revision < MaxRevision
     /\ \E p \in Plans, cancelled \in SUBSET active :
          RevisePlan(revision, p, cancelled, active)
  \/ \E n \in Node :
       \/ \E t \in LegalTransition : Transition(n, t[1], t[2])
       \/ status[n] = "launching" /\ BeginExecution(n)
       \/ \E r \in Results : SettleExecution(n, r)
       \/ payload[n].kind = "tool" /\ exec[n] # "none" /\ RetryApprovedTool(n)
       \/ ReconcileNode(n)
  \/ \E S \in SUBSET active : ReconcileUnlaunched(S)

Spec == Init /\ [][Next]_planVars

-----------------------------------------------------------------------------
\* The values the variables take.
TypeOK ==
  /\ revision \in 0..MaxRevision
  /\ active \in SUBSET Node
  /\ retired \in SUBSET Node
  /\ payload \in [Node -> Payload]
  /\ status \in [Node -> States]
  /\ exec \in [Node -> {"none", "running", "settled"}]
  /\ result \in [Node -> Results \cup {"none"}]

\* "Tasks launch only after every dependency succeeds" (FEATURES.md:483): a
\* node that is ready, launched or finished by itself has every prerequisite
\* in the plan and succeeded, whatever was admitted, revised, cancelled,
\* retried or reconciled in between.
DependenciesSucceeded ==
  \A n \in active :
    status[n] \in {"ready", "launching", "running", "succeeded", "failed"}
      => \A d \in payload[n].deps : d \in active /\ status[d] = "succeeded"

\* No wakeup is lost: a node still waiting has a prerequisite that has not
\* succeeded.  Releasing is done only by transition_plan_node_state and by
\* the insertion of revised nodes, so a node missed there would wait for ever.
NoLostRelease ==
  \A n \in active :
    status[n] = "waiting" => \E d \in payload[n].deps : status[d] # "succeeded"

\* "Completed identities remain stable" (ARCHITECTURE.md:130): a terminal
\* node of the plan keeps its row, payload and state in every later step; the
\* one way back is the retry of a blocked tool, whose execution is forgotten.
CompletedNodesStable ==
  [][\A n \in active :
       status[n] \in Terminal =>
         /\ n \in active' /\ payload'[n] = payload[n]
         /\ \/ status'[n] = status[n]
            \/ /\ status[n] = "blocked" /\ status'[n] = "ready"
               /\ payload[n].kind = "tool" /\ exec'[n] = "none"]_planVars

\* A late completion cannot revive a replaced node: once retired, an
\* identifier never becomes active again and its state never moves.
RetiredNodesFrozen ==
  [][\A n \in retired : n \in retired' \ active' /\ status'[n] = status[n]]_planVars

\* When a node of the plan dies, no node that was already depending on it is
\* left waiting by the same transaction (failure and cancellation propagate).
DeathReachesDependents ==
  [][\A n \in active \cap active' :
       (status[n] \notin Dead /\ status'[n] \in Dead) =>
         \A m \in active \cap active' :
           n \in payload[m].deps => status'[m] # "waiting"]_planVars

\* The first settlement of an execution is the one that stays: its result is
\* only ever forgotten with the retry of the blocked tool it belongs to.
FirstResultWins ==
  [][\A n \in Node :
       exec[n] = "settled" =>
         \/ exec'[n] = "settled" /\ result'[n] = result[n]
         \/ exec'[n] = "none" /\ status[n] = "blocked" /\ status'[n] = "ready"]_planVars

\* No operation of the journal rewrites what has happened: a finished node, a
\* retired one and a recorded result stay as they are (settle_plan_node_execution,
\* revise_execution_plan, reconcile_plan_node_executions).
HistoryFrozen == CompletedNodesStable /\ RetiredNodesFrozen /\ FirstResultWins
=============================================================================
