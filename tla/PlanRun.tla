------------------------------- MODULE PlanRun -------------------------------
(***************************************************************************)
(* One planned run of the RunController: the lead that admits and revises  *)
(* the plan, the pump of _dispatch_admitted_plan_agents, one worker per    *)
(* dispatched node, and what a crash, a restart and a resume do to them    *)
(* (src/src/skail/runtime/run_controller.py).                              *)
(*                                                                         *)
(* The controller and its workers are asyncio tasks.  Every journal        *)
(* transaction is a step of its own, so that a crash can fall between any  *)
(* two.  The nodes assign_attempt and evaluate of the task graph are plain *)
(* functions, which LangGraph runs on executor threads: their steps        *)
(* interleave with every other step, and go on after their task has been   *)
(* cancelled.  Tools, the dispatch pump and run_attempt run on the event   *)
(* loop.  Slots, leases and money are the business of other modules: here  *)
(* an operation may start and return at any time.  Questions that the lead *)
(* asks are left out; the one interrupt is the approval of a plan tool.    *)
(***************************************************************************)
EXTENDS Naturals, FiniteSets

CONSTANTS
  Node, NoLineage, Submissions, MaxRevision,   \* as in PlanJournal
  NoNode,         \* no node: an empty slot
  AgentResults,   \* what a child may return
  ToolResults,    \* what a plan tool may return
  MaxCrashes      \* bound on the crashes of the process

ASSUME ResultsAssumption ==
  /\ AgentResults \subseteq {"succeeded", "failed", "blocked", "cancelled"}
  /\ ToolResults \subseteq {"succeeded", "blocked", "approval"}

ASSUME NoNodeAssumption == NoNode \notin Node /\ MaxCrashes \in Nat

\* A reference to the end of a turn is told apart from one that carries the
\* interrupt of a node.
Boundaries == {"none", "stale", "resumed"}

ASSUME BoundaryAssumption == Node \cap Boundaries = {}

VARIABLES
  revision, active, retired, payload, status, exec, result,  \* the plan journal
  bound,     \* nodes with a row in plan_node_task_bindings
  task,      \* tasks.status of the task of an agent node
  run,       \* runs.status; "interrupted" is blocked in an interrupted session
  decision,  \* the execution decision of the run is persisted
  ref        \* latest checkpoint reference: the interrupt it carries, or its boundary

VARIABLES
  main,      \* program counter of the controller
  ret,       \* where the admission in progress returns to
  cur,       \* the node the controller is at
  seen,      \* the state of cur it read before a compare-and-set
  todo,      \* agents the admission in progress has yet to admit
  dispatches,\* _planned_node_dispatches of this process
  admitted,  \* those the pump has not come to yet
  running,   \* the keys of the pump's dict of tasks
  worker, out, view, attempt,   \* each worker: phase, result, state read, attempt number
  slot,      \* _pending_interrupt_payload
  resumed,   \* the controller is in resume_interrupted
  wakeLead   \* _resume_lead_on_recovery

VARIABLES
  ran,       \* history: how many times the work of a node was started
  crashes

planVars == <<revision, active, retired, payload, status, exec, result>>
durable  == <<bound, task, run, decision, ref>>
listVars == <<dispatches, admitted>>
pumpVars == <<ret, cur, seen, todo, listVars, running, slot, resumed, wakeLead>>
workVars == <<worker, out, view, attempt, ran>>
vars == <<planVars, durable, main, pumpVars, workVars, crashes>>

J == INSTANCE PlanJournal

\* What PlanJournal assumes of its constants.
ASSUME JournalAssumption ==
  /\ IsFiniteSet(Node) /\ NoLineage \notin Node
  /\ MaxRevision \in Nat \ {0}
  /\ \A p \in Submissions : DOMAIN p \subseteq Node /\ p \in [DOMAIN p -> J!Payload]

Agents == {n \in active : payload[n].kind = "agent"}
Tools == {n \in active : payload[n].kind = "tool"}
Checkpoints == {n \in active : payload[n].kind = "checkpoint"}
Ready(S) == {n \in S : status[n] = "ready"}

\* _settle_plan_node, second half: the move from the state it read towards the
\* state the result calls for; nothing when the node is not launched.
NextState(from, r) ==
  IF from = "launching" /\ J!TargetOf(r) # "blocked" THEN "running" ELSE J!TargetOf(r)

\* get_plan: the state of a node that is still part of the plan.
ReadState(n) == IF n \in active THEN status[n] ELSE "absent"

-----------------------------------------------------------------------------
Init ==
  /\ J!Init
  /\ bound = {} /\ task = [n \in Node |-> "none"]
  /\ run = "running" /\ decision = FALSE /\ ref = "none"
  /\ main = "lead" /\ ret = "none" /\ cur = NoNode /\ seen = "absent"
  /\ todo = {} /\ dispatches = {} /\ admitted = {} /\ running = {}
  /\ worker = [n \in Node |-> "none"] /\ out = [n \in Node |-> "none"]
  /\ view = [n \in Node |-> "absent"] /\ attempt = [n \in Node |-> 1]
  /\ slot = NoNode /\ resumed = FALSE /\ wakeLead = TRUE
  /\ ran = [n \in Node |-> 0] /\ crashes = 0

Goto(pc) == main' = pc

-----------------------------------------------------------------------------
(* The lead and the admission of ready agents. *)

\* _admit_ready_plan_agents works on the ready agents without a binding that
\* it finds when it starts.
StartAdmission(from) ==
  /\ Goto("admit")
  /\ ret' = from
  /\ todo' = Ready(Agents) \ bound

LeadSubmits ==
  /\ main = "lead"
  /\ \E p \in J!Plans :
       /\ J!AdmitPlan(p)
       /\ todo' = {n \in DOMAIN p : p[n].kind = "agent" /\ p[n].deps = {}}
  /\ Goto("admit") /\ ret' = "persist"
  /\ UNCHANGED <<durable, cur, seen, listVars, running, slot, resumed, wakeLead, workVars, crashes>>

\* create_spec or register_many refuses a task before any node is launched.
\* The lead's gate answers the refusal; elsewhere the exception ends the run.
AdmissionRefused ==
  /\ main = "admit" /\ todo # {} /\ cur = NoNode
  /\ Goto(CASE ret = "persist" -> "lead" [] ret = "rebuild" -> "parked" [] OTHER -> "closing")
  /\ todo' = {}
  /\ UNCHANGED <<planVars, durable, ret, cur, seen, listVars, running, slot, resumed, wakeLead,
                 workVars, crashes>>

AdmitLaunches(n) ==
  /\ main = "admit" /\ n \in todo
  /\ J!Transition(n, "ready", "launching")
  /\ Goto("admitTask") /\ cur' = n
  /\ UNCHANGED <<durable, ret, seen, todo, listVars, running, slot, resumed, wakeLead, workVars, crashes>>

AdmitCreatesTask ==
  /\ main = "admitTask"
  /\ task' = [task EXCEPT ![cur] = "queued"]
  /\ Goto("admitBind")
  /\ UNCHANGED <<planVars, bound, run, decision, ref, pumpVars, workVars, crashes>>

AdmitBinds ==
  /\ main = "admitBind"
  /\ bound' = bound \cup {cur}
  /\ admitted' = admitted \cup {cur} /\ dispatches' = dispatches \cup {cur}
  /\ todo' = todo \ {cur}
  /\ Goto("admit")
  /\ UNCHANGED <<planVars, task, run, decision, ref, ret, cur, seen, running, slot, resumed, wakeLead,
                 workVars, crashes>>

\* Mutant: the pump never concludes that an idle plan is over.
AdmitEndsBusy ==
  /\ main = "admit" /\ todo = {}
  /\ Goto(IF ret = "persist" THEN "persist" ELSE "pump")
  /\ cur' = NoNode /\ ret' = "none"
  /\ UNCHANGED <<planVars, durable, seen, todo, listVars, running, slot, resumed, wakeLead,
                 workVars, crashes>>

AdmitEnds ==
  /\ main = "admit" /\ todo = {}
  /\ Goto(CASE ret = "persist" -> "persist"
            [] ret = "idle" /\ admitted = {} -> "finish"
            [] OTHER -> "pump")
  /\ cur' = NoNode /\ ret' = "none"
  /\ UNCHANGED <<planVars, durable, seen, todo, listVars, running, slot, resumed, wakeLead,
                 workVars, crashes>>

PersistDecision ==
  /\ main = "persist"
  /\ decision' = TRUE
  /\ Goto("lead")
  /\ UNCHANGED <<planVars, bound, task, run, ref, pumpVars, workVars, crashes>>

LeadReturns ==
  /\ main = "lead" /\ revision > 0
  /\ Goto("pump")
  /\ UNCHANGED <<planVars, durable, pumpVars, workVars, crashes>>

\* The lead raises or is cancelled: the terminal statuses and the block of the
\* admitted nodes that never launched are one transaction.
LeadStops ==
  /\ main = "lead"
  /\ J!ReconcileUnlaunched(admitted)
  /\ task' = [n \in Node |-> IF n \in admitted THEN "blocked" ELSE task[n]]
  /\ run' = "failed" /\ admitted' = {} /\ dispatches' = {}
  /\ Goto("off")
  /\ UNCHANGED <<bound, decision, ref, ret, cur, seen, todo, running, slot, resumed, wakeLead,
                 workVars, crashes>>

-----------------------------------------------------------------------------
(* The pump. *)

\* An admitted agent gets its execution row and its task.  A settled one is
\* skipped; one begun before finds its specification taken, and does nothing.
BeginDispatch(n) ==
  /\ main = "pump" /\ n \in admitted
  /\ admitted' = admitted \ {n}
  /\ IF exec[n] = "none" THEN J!BeginExecution(n) ELSE UNCHANGED planVars
  /\ IF exec[n] = "settled"
     THEN UNCHANGED <<running, worker>>
     ELSE /\ running' = running \cup {n}
          /\ worker' = [worker EXCEPT ![n] = IF task[n] = "queued" THEN "spawned" ELSE "done"]
  /\ UNCHANGED <<durable, main, ret, cur, seen, todo, dispatches, slot, resumed, wakeLead, out, view,
                 attempt, ran, crashes>>

ToolLaunches(n) ==
  /\ main = "pump" /\ admitted = {} /\ n \in Ready(Tools)
  /\ J!Transition(n, "ready", "launching")
  /\ Goto("toolBegin") /\ cur' = n
  /\ UNCHANGED <<durable, ret, seen, todo, listVars, running, slot, resumed, wakeLead, workVars, crashes>>

ToolBegins ==
  /\ main = "toolBegin"
  /\ J!BeginExecution(cur)
  /\ worker' = [worker EXCEPT ![cur] = "spawned"]
  /\ running' = running \cup {cur}
  /\ Goto("pump") /\ cur' = NoNode
  /\ UNCHANGED <<durable, ret, seen, todo, listVars, slot, resumed, wakeLead, out, view, attempt, ran,
                 crashes>>

PumpHasNothingToStart == main = "pump" /\ admitted = {} /\ Ready(Tools) = {}

PumpWaits ==
  /\ PumpHasNothingToStart /\ running # {}
  /\ Goto("waiting")
  /\ UNCHANGED <<planVars, durable, pumpVars, workVars, crashes>>

\* Nothing runs: a checkpoint if one is ready, else a last look for agents.
PumpIdles ==
  /\ PumpHasNothingToStart /\ running = {} /\ Ready(Checkpoints) = {}
  /\ StartAdmission("idle")
  /\ UNCHANGED <<planVars, durable, cur, seen, listVars, running, slot, resumed, wakeLead, workVars, crashes>>

\* asyncio.wait returned the tasks that are done.  They are awaited in some
\* order; the first that raised leaves itself and the rest in the dict.
PumpWakes ==
  LET done == {n \in running : worker[n] \in {"done", "raised"}}
      bad  == {n \in done : worker[n] = "raised"}
  IN
  /\ main = "waiting" /\ done # {}
  /\ \E reaped \in SUBSET (done \ bad) :
       /\ bad = {} => reaped = done
       /\ running' = running \ reaped
       /\ worker' = [n \in Node |-> IF n \in reaped THEN "none" ELSE worker[n]]
  /\ IF bad = {}
     THEN StartAdmission("pump")
     ELSE Goto("closing") /\ UNCHANGED <<ret, todo>>
  /\ UNCHANGED <<planVars, durable, cur, seen, listVars, slot, resumed, wakeLead, out, view, attempt, ran,
                 crashes>>

\* The user cancels the run while the pump waits.
PumpCancelled ==
  /\ main = "waiting"
  /\ Goto("closing")
  /\ UNCHANGED <<planVars, durable, pumpVars, workVars, crashes>>

-----------------------------------------------------------------------------
(* A ready checkpoint: the lead is called again, and may revise the plan. *)

CheckpointLaunches(n) ==
  /\ PumpHasNothingToStart /\ running = {} /\ n \in Ready(Checkpoints)
  /\ J!Transition(n, "ready", "launching")
  /\ Goto("ckBegin") /\ cur' = n
  /\ UNCHANGED <<durable, ret, seen, todo, listVars, running, slot, resumed, wakeLead, workVars, crashes>>

CheckpointBegins ==
  /\ main = "ckBegin"
  /\ J!BeginExecution(cur)
  /\ Goto("ckRun")
  /\ UNCHANGED <<durable, pumpVars, workVars, crashes>>

\* The lead's new turn moves its thread past any checkpoint reference.
CheckpointRuns ==
  /\ main = "ckRun"
  /\ J!Transition(cur, "launching", "running")
  /\ ref' = IF ref = "none" THEN ref ELSE "stale"
  /\ out' = [out EXCEPT ![cur] = "blocked"]
  /\ Goto("checkpoint")
  /\ UNCHANGED <<bound, task, run, decision, pumpVars, worker, view, attempt, ran, crashes>>

\* revise_plan: the closure of a lead built for a resume has no active plan,
\* the evidence is what the dependencies of the checkpoint provide, and the
\* checkpoint itself stays in the plan.
CheckpointRevises ==
  /\ main = "checkpoint" /\ ~resumed
  /\ revision < MaxRevision
  /\ \E p \in J!Plans, cancelled \in SUBSET active :
       /\ cur \notin J!Replaced(p) \cup cancelled
       /\ J!RevisePlan(revision, p, cancelled, payload[cur].deps)
  /\ out' = [out EXCEPT ![cur] = "succeeded"]
  /\ UNCHANGED <<durable, main, pumpVars, worker, view, attempt, ran, crashes>>

CheckpointReturns ==
  /\ main = "checkpoint"
  /\ J!SettleExecution(cur, out[cur])
  /\ Goto("ckMove")
  /\ UNCHANGED <<durable, pumpVars, workVars, crashes>>

CheckpointMoves ==
  /\ main = "ckMove"
  /\ J!Transition(cur, "running", out[cur])
  /\ Goto(IF out[cur] = "blocked" THEN "finish" ELSE "ckAdmit")
  /\ cur' = NoNode
  /\ UNCHANGED <<durable, ret, todo, seen, listVars, running, slot, resumed, wakeLead, workVars, crashes>>

CheckpointAdmits ==
  /\ main = "ckAdmit"
  /\ StartAdmission("pump")
  /\ UNCHANGED <<planVars, durable, cur, seen, listVars, running, slot, resumed, wakeLead, workVars, crashes>>

\* The lead raises or is cancelled in its turn; its node is in no dict.
CheckpointFails ==
  /\ main = "checkpoint"
  /\ Goto("closing") /\ cur' = NoNode
  /\ UNCHANGED <<planVars, durable, ret, seen, todo, listVars, running, slot, resumed, wakeLead, workVars,
                 crashes>>

-----------------------------------------------------------------------------
(* The finally clause: tasks are cancelled, then their nodes, one by one. *)

\* Phases in which a worker is a coroutine; in the others it is a thread.
OnLoop == {"spawned", "started", "working", "ranTool", "asked", "toolSettled", "done", "raised"}

\* Cancelling a task stops its coroutine, and no thread.
CloseStops ==
  /\ main = "closing"
  /\ worker' = [n \in Node |->
                  IF n \in running /\ worker[n] \in OnLoop THEN "none" ELSE worker[n]]
  /\ Goto("close")
  /\ UNCHANGED <<planVars, durable, pumpVars, out, view, attempt, ran, crashes>>

CloseSettles(n) ==
  /\ main = "close" /\ n \in running
  /\ J!SettleExecution(n, "cancelled")
  /\ Goto("closeRead") /\ cur' = n
  /\ UNCHANGED <<durable, ret, seen, todo, listVars, running, slot, resumed, wakeLead, workVars,
                 crashes>>

CloseReads ==
  /\ main = "closeRead"
  /\ Goto("closeMove") /\ seen' = ReadState(cur)
  /\ UNCHANGED <<planVars, durable, ret, cur, todo, listVars, running, slot, resumed, wakeLead,
                 workVars, crashes>>

\* Mutant: the finally clause writes the state without the coordinator, so
\* that no dependent hears of it.
CloseOverwrites ==
  /\ main = "closeMove"
  /\ status' = IF cur \in active THEN [status EXCEPT ![cur] = "cancelled"] ELSE status
  /\ Goto("closeTask")
  /\ UNCHANGED <<revision, active, retired, payload, exec, result, durable, pumpVars, workVars,
                 crashes>>

\* A compare-and-set that fails raises out of the finally clause.
CloseMoves ==
  /\ main = "closeMove"
  /\ \/ /\ seen \notin J!Launched
        /\ Goto("closeTask") /\ UNCHANGED <<planVars, seen, running>>
     \/ /\ seen \in J!Launched /\ ReadState(cur) # seen
        /\ Goto("closed") /\ running' = {} /\ UNCHANGED <<planVars, seen>>
     \/ /\ seen \in J!Launched
        /\ J!Transition(cur, seen, NextState(seen, "cancelled"))
        /\ seen' = NextState(seen, "cancelled") /\ UNCHANGED <<main, running>>
  /\ UNCHANGED <<durable, ret, cur, todo, listVars, slot, resumed, wakeLead, workVars, crashes>>

CloseTask ==
  /\ main = "closeTask"
  /\ task' = IF cur \in bound THEN [task EXCEPT ![cur] = "cancelled"] ELSE task
  /\ running' = running \ {cur}
  /\ Goto("close")
  /\ UNCHANGED <<planVars, bound, run, decision, ref, ret, cur, seen, todo, listVars, slot, resumed,
                 wakeLead, workVars, crashes>>

\* The first process writes its terminal statuses; resume_interrupted does not
\* catch the exception and keeps its pending run.
CloseEnds ==
  /\ main = "closed" \/ (main = "close" /\ running = {})
  /\ IF resumed
     THEN Goto("parked") /\ UNCHANGED run
     ELSE Goto("off") /\ run' = "failed"
  /\ cur' = NoNode /\ seen' = "absent"
  /\ UNCHANGED <<planVars, bound, task, decision, ref, ret, todo, listVars, running, slot, resumed,
                 wakeLead, workVars, crashes>>

Closing == {"close", "closeRead", "closeMove", "closeTask", "closed"}

-----------------------------------------------------------------------------
(* Agents: assign_attempt, run_attempt and evaluate of the task graph, with *)
(* record_settle and emit_task of the controller.                           *)

Phase(n, from, to) == worker[n] = from /\ worker' = [worker EXCEPT ![n] = to]

KeepsMain == UNCHANGED <<main, pumpVars, crashes>>

\* The event loop is at an await: no coroutine is between two steps of its own.
LoopIsFree ==
  main = "waiting" /\ \A m \in Node : worker[m] \notin {"started", "toolSettled"}

IsAgent(n) == payload[n].kind = "agent"

\* emit_task "started": the node, then the task and its attempt.
AgentAssigned(n) ==
  /\ LoopIsFree /\ IsAgent(n) /\ Phase(n, "spawned", "started")
  /\ IF ReadState(n) = "launching"
     THEN J!Transition(n, "launching", "running") ELSE UNCHANGED planVars
  /\ UNCHANGED <<durable, out, view, attempt, ran>> /\ KeepsMain

AgentStarts(n) ==
  /\ IsAgent(n) /\ Phase(n, "started", "working")
  /\ task' = [task EXCEPT ![n] = "running"]
  /\ ran' = IF attempt[n] = 1 THEN [ran EXCEPT ![n] = @ + 1] ELSE ran
  /\ UNCHANGED <<planVars, bound, run, decision, ref, out, view, attempt>> /\ KeepsMain

\* A first failed attempt is recorded and goes round again.
AgentFailsOnce(n) ==
  /\ main = "waiting" /\ IsAgent(n) /\ Phase(n, "working", "spawned")
  /\ "failed" \in AgentResults /\ attempt[n] = 1
  /\ attempt' = [attempt EXCEPT ![n] = 2]
  /\ task' = [task EXCEPT ![n] = "failed"]
  /\ UNCHANGED <<planVars, bound, run, decision, ref, out, view, ran>> /\ KeepsMain

\* Mutant: after a retry the plan is told the result of the first attempt.
AgentRecordsFirst(n, r) ==
  /\ IsAgent(n) /\ Phase(n, "working", "recorded")
  /\ r = "failed" => attempt[n] = 2
  /\ out' = [out EXCEPT ![n] = IF attempt[n] = 2 THEN "failed" ELSE r]
  /\ task' = [task EXCEPT ![n] = r]
  /\ UNCHANGED <<planVars, bound, run, decision, ref, view, attempt, ran>> /\ KeepsMain

\* evaluate records any other result: first the rows of the task.
AgentRecords(n, r) ==
  /\ IsAgent(n) /\ Phase(n, "working", "recorded")
  /\ r = "failed" => attempt[n] = 2
  /\ out' = [out EXCEPT ![n] = r]
  /\ task' = [task EXCEPT ![n] = r]
  /\ UNCHANGED <<planVars, bound, run, decision, ref, view, attempt, ran>> /\ KeepsMain

AgentSettles(n) ==
  /\ Phase(n, "recorded", "settled")
  /\ J!SettleExecution(n, out[n])
  /\ UNCHANGED <<durable, out, view, attempt, ran>> /\ KeepsMain

\* assign_attempt finds no route or no money: emit_task "blocked" settles the
\* node first, if it is launched.
AgentUnroutable(n) ==
  /\ IsAgent(n) /\ "blocked" \in AgentResults
  /\ out' = [out EXCEPT ![n] = "blocked"]
  /\ IF ReadState(n) \in J!Launched
     THEN Phase(n, "spawned", "settled") /\ J!SettleExecution(n, "blocked")
     ELSE Phase(n, "spawned", "moved") /\ UNCHANGED planVars
  /\ UNCHANGED <<durable, view, attempt, ran>> /\ KeepsMain

AgentReads(n) ==
  /\ Phase(n, "settled", "moving")
  /\ view' = [view EXCEPT ![n] = ReadState(n)]
  /\ UNCHANGED <<planVars, durable, out, attempt, ran>> /\ KeepsMain

\* The task of a thread that outlives its pump is awaited by nobody.
Ends(n, how) ==
  worker' = [worker EXCEPT ![n] = IF n \in running /\ main \notin Closing THEN how ELSE "none"]

\* The compare-and-set of the thread may lose against the finally clause.
AgentMoves(n) ==
  /\ worker[n] = "moving"
  /\ \/ /\ view[n] \notin J!Launched
        /\ Phase(n, "moving", "moved") /\ UNCHANGED <<planVars, view>>
     \/ /\ view[n] \in J!Launched /\ ReadState(n) # view[n]
        /\ Ends(n, "raised") /\ UNCHANGED <<planVars, view>>
     \/ /\ view[n] \in J!Launched
        /\ J!Transition(n, view[n], NextState(view[n], out[n]))
        /\ view' = [view EXCEPT ![n] = NextState(view[n], out[n])]
        /\ UNCHANGED worker
  /\ UNCHANGED <<durable, out, attempt, ran>> /\ KeepsMain

\* emit_task writes the rows of a blocked task.  Settling the accounts of a
\* recorded attempt comes before, and may raise.
AgentReports(n) ==
  /\ worker[n] = "moved"
  /\ \/ /\ Ends(n, "done")
        /\ task' = IF out[n] = "blocked" THEN [task EXCEPT ![n] = "blocked"] ELSE task
     \/ /\ task[n] = out[n]
        /\ Ends(n, "raised") /\ UNCHANGED task
  /\ UNCHANGED <<planVars, bound, run, decision, ref, out, view, attempt, ran>> /\ KeepsMain

-----------------------------------------------------------------------------
(* Plan tools: execute_tool and _run_plan_tool_node.  All on the event loop  *)
(* but the command itself.                                                   *)

IsTool(n) == payload[n].kind = "tool"

ToolStarts(n) ==
  /\ LoopIsFree /\ IsTool(n) /\ Phase(n, "spawned", "working")
  /\ J!Transition(n, "launching", "running")
  /\ UNCHANGED <<durable, out, view, attempt, ran>> /\ KeepsMain

\* policy.run: the command runs, or asks for an approval first.
ToolRuns(n, r) ==
  /\ IsTool(n) /\ Phase(n, "working", "ranTool")
  /\ out' = [out EXCEPT ![n] = r]
  /\ ran' = IF r = "approval" THEN ran ELSE [ran EXCEPT ![n] = @ + 1]
  /\ UNCHANGED <<planVars, durable, view, attempt>> /\ KeepsMain

\* The command cannot be started at all.
ToolRaises(n) ==
  /\ LoopIsFree /\ IsTool(n) /\ Phase(n, "working", "raised")
  /\ UNCHANGED <<planVars, durable, out, view, attempt, ran>> /\ KeepsMain

\* There is one slot for a pending interrupt.
ToolAsks(n) ==
  /\ LoopIsFree /\ out[n] = "approval" /\ Phase(n, "ranTool", "asked")
  /\ slot' = n
  /\ UNCHANGED <<planVars, durable, main, ret, cur, seen, todo, listVars, running, resumed, wakeLead,
                 out, view, attempt, ran, crashes>>

ToolSettles(n) ==
  /\ LoopIsFree
  /\ Phase(n, IF out[n] = "approval" THEN "asked" ELSE "ranTool", "toolSettled")
  /\ J!SettleExecution(n, out[n])
  /\ UNCHANGED <<durable, out, view, attempt, ran>> /\ KeepsMain

ToolMoves(n) ==
  /\ Phase(n, "toolSettled", "done")
  /\ J!Transition(n, "running", J!TargetOf(out[n]))
  /\ UNCHANGED <<durable, out, view, attempt, ran>> /\ KeepsMain

-----------------------------------------------------------------------------
(* The end of a pump, and the run that is parked at an interrupt. *)

AllSucceeded == \A n \in active : status[n] = "succeeded"

RunCompletes ==
  /\ main = "finish" /\ AllSucceeded
  /\ run' = "completed" /\ slot' = NoNode
  /\ Goto("off")
  /\ UNCHANGED <<planVars, bound, task, decision, ref, ret, cur, seen, todo, listVars, running,
                 resumed, wakeLead, workVars, crashes>>

RunBlocks ==
  /\ main = "finish" /\ ~AllSucceeded /\ (resumed \/ slot = NoNode)
  /\ run' = "blocked" /\ slot' = NoNode
  /\ Goto("off")
  /\ UNCHANGED <<planVars, bound, task, decision, ref, ret, cur, seen, todo, listVars, running,
                 resumed, wakeLead, workVars, crashes>>

\* The first process stops at the approval: the statuses, then the reference
\* that carries the interrupt.
RunInterrupted ==
  /\ main = "finish" /\ ~AllSucceeded /\ ~resumed /\ slot # NoNode
  /\ run' = "interrupted"
  /\ Goto("save")
  /\ UNCHANGED <<planVars, bound, task, decision, ref, pumpVars, workVars, crashes>>

SaveCheckpoint ==
  /\ main = "save"
  /\ ref' = slot
  /\ Goto("parked")
  /\ UNCHANGED <<planVars, bound, task, run, decision, pumpVars, workVars, crashes>>

\* A thread that outlived its pump is over before a person answers.
Quiet == \A n \in Node : worker[n] = "none"

\* resume_interrupted with an approved plan tool.  When the node is not
\* blocked the journal refuses and the run stays parked.
ResumeApproved ==
  /\ main = "parked" /\ Quiet /\ slot # NoNode
  /\ J!RetryApprovedTool(slot)
  /\ slot' = NoNode /\ wakeLead' = FALSE /\ resumed' = TRUE /\ admitted' = dispatches
  /\ Goto("rebuild")
  /\ UNCHANGED <<durable, ret, cur, seen, todo, dispatches, running, workVars, crashes>>

\* resume_interrupted of a run that was merely running when its process died.
ResumeFrontier ==
  /\ main = "parked" /\ Quiet /\ slot = NoNode /\ ~wakeLead
  /\ resumed' = TRUE /\ admitted' = dispatches
  /\ Goto("rebuild")
  /\ UNCHANGED <<planVars, durable, ret, cur, seen, todo, dispatches, running, slot, wakeLead,
                 workVars, crashes>>

\* An interrupted run without its interrupt wakes the lead: it returns and its
\* checkpoint is recorded (once per run), or it fails.
ResumeLead ==
  /\ main = "parked" /\ Quiet /\ slot = NoNode /\ wakeLead
  /\ \/ /\ ref \notin {"resumed", "stale"}
        /\ ref' = "resumed" /\ Goto("rebuild")
        /\ UNCHANGED run
     \/ /\ run' = "failed" /\ Goto("off")
        /\ UNCHANGED ref
  /\ resumed' = TRUE /\ admitted' = dispatches
  /\ UNCHANGED <<planVars, bound, task, decision, ret, cur, seen, todo, dispatches, running, slot,
                 wakeLead, workVars, crashes>>

RejectInterrupted ==
  /\ main = "parked"
  /\ run' = "blocked" /\ slot' = NoNode
  /\ Goto("off")
  /\ UNCHANGED <<planVars, bound, task, decision, ref, ret, cur, seen, todo, listVars, running,
                 resumed, wakeLead, workVars, crashes>>

Ambiguous == {n \in active \ dispatches : status[n] \in J!Launched}

\* Mutant: an ambiguous launch is started over.
RebuildStartsOver(n) ==
  /\ main = "rebuild" /\ n \in Ambiguous
  /\ status' = [status EXCEPT ![n] = "ready"]
  /\ bound' = bound \ {n} /\ exec' = [exec EXCEPT ![n] = "none"]
  /\ UNCHANGED <<revision, active, retired, payload, result, task, run, decision, ref, main,
                 pumpVars, workVars, crashes>>

\* _rebuild_safe_resume_frontier: one transaction per ambiguous launch, with
\* the rows of its task when nothing was settled.
RebuildReconciles(n) ==
  /\ main = "rebuild" /\ n \in Ambiguous
  /\ J!ReconcileNode(n)
  /\ task' = IF n \in bound /\ exec[n] # "settled" THEN [task EXCEPT ![n] = "blocked"] ELSE task
  /\ UNCHANGED <<bound, run, decision, ref, main, pumpVars, workVars, crashes>>

RebuildAdmits ==
  /\ main = "rebuild" /\ Ambiguous = {}
  /\ StartAdmission("rebuild")
  /\ UNCHANGED <<planVars, durable, cur, seen, listVars, running, slot, resumed, wakeLead, workVars,
                 crashes>>

-----------------------------------------------------------------------------
(* The process dies; it is started again with the session to continue. *)

Crash ==
  /\ main \notin {"off", "down"} /\ crashes < MaxCrashes
  /\ crashes' = crashes + 1
  /\ Goto("down") /\ ret' = "none" /\ cur' = NoNode /\ seen' = "absent"
  /\ todo' = {} /\ dispatches' = {} /\ admitted' = {} /\ running' = {}
  /\ worker' = [n \in Node |-> "none"] /\ out' = [n \in Node |-> "none"]
  /\ view' = [n \in Node |-> "absent"] /\ attempt' = [n \in Node |-> 1]
  /\ slot' = NoNode /\ resumed' = FALSE /\ wakeLead' = TRUE
  /\ UNCHANGED <<planVars, durable, ran>>

Restorable == (run = "interrupted" \/ (run = "running" /\ decision)) /\ ref # "stale"

\* restore_interrupted: the run is parked again, with the interrupt that the
\* latest checkpoint reference carries.
RestoreInterrupted ==
  /\ main = "down" /\ Restorable
  /\ Goto("parked")
  /\ slot' = IF ref \in Node THEN ref ELSE NoNode
  /\ wakeLead' = (run = "interrupted")
  /\ UNCHANGED <<planVars, durable, ret, cur, seen, todo, listVars, running, resumed, workVars,
                 crashes>>

NothingToRestore ==
  /\ main = "down" /\ ~Restorable
  /\ Goto("off")
  /\ UNCHANGED <<planVars, durable, pumpVars, workVars, crashes>>

-----------------------------------------------------------------------------
WorkerStep(n) ==
  \/ AgentAssigned(n) \/ AgentStarts(n) \/ AgentFailsOnce(n) \/ AgentSettles(n)
  \/ AgentUnroutable(n) \/ AgentReads(n) \/ AgentMoves(n) \/ AgentReports(n)
  \/ \E r \in AgentResults : AgentRecords(n, r)
  \/ ToolStarts(n) \/ ToolRaises(n) \/ ToolAsks(n) \/ ToolSettles(n) \/ ToolMoves(n)
  \/ \E r \in ToolResults : ToolRuns(n, r)

PumpStep ==
  \/ AdmitCreatesTask \/ AdmitBinds \/ AdmitEnds \/ PersistDecision
  \/ ToolBegins \/ PumpWaits \/ PumpIdles \/ PumpWakes
  \/ CheckpointBegins \/ CheckpointRuns \/ CheckpointReturns \/ CheckpointMoves
  \/ CheckpointAdmits
  \/ CloseStops \/ CloseReads \/ CloseMoves \/ CloseTask \/ CloseEnds
  \/ RunCompletes \/ RunBlocks \/ RunInterrupted \/ SaveCheckpoint \/ RebuildAdmits
  \/ \E n \in Node :
       \/ AdmitLaunches(n) \/ BeginDispatch(n) \/ ToolLaunches(n) \/ CheckpointLaunches(n)
       \/ CloseSettles(n) \/ RebuildReconciles(n)

\* What the lead, the user and chance decide.
OutsideStep ==
  \/ LeadSubmits \/ AdmissionRefused \/ LeadReturns \/ LeadStops
  \/ CheckpointRevises \/ CheckpointFails \/ PumpCancelled
  \/ ResumeApproved \/ ResumeFrontier \/ ResumeLead \/ RejectInterrupted
  \/ Crash \/ RestoreInterrupted \/ NothingToRestore

Next == OutsideStep \/ PumpStep \/ \E n \in Node : WorkerStep(n)

\* Coroutines and threads that can go on do go on: providers and commands
\* answer or time out.
Fairness ==
  /\ WF_vars(PumpStep)
  /\ \A n \in Node : WF_vars(WorkerStep(n))

Spec == Init /\ [][Next]_vars /\ Fairness

-----------------------------------------------------------------------------
Values == {"none", "succeeded", "failed", "blocked", "cancelled", "approval"}

\* The values the variables take.
TypeOK ==
  /\ J!TypeOK
  /\ bound \subseteq Node
  /\ task \in [Node -> {"none", "queued", "running", "succeeded", "failed", "blocked", "cancelled"}]
  /\ run \in {"running", "interrupted", "blocked", "failed", "completed"}
  /\ decision \in BOOLEAN /\ resumed \in BOOLEAN /\ wakeLead \in BOOLEAN
  /\ ref \in Node \cup Boundaries
  /\ cur \in Node \cup {NoNode} /\ slot \in Node \cup {NoNode}
  /\ todo \subseteq Node /\ running \subseteq Node
  /\ dispatches \subseteq Node /\ admitted \subseteq dispatches
  /\ out \in [Node -> Values] /\ attempt \in [Node -> 1..2]
  /\ ran \in [Node -> Nat] /\ crashes \in 0..MaxCrashes

\* The run drives the plan only as the journal's protocol allows: an execution
\* is begun only for a launched node, a retry asked only for a begun tool, and
\* every other write of the controller, its workers, threads and recoveries is
\* one of the coordinator's operations.
ImplementsJournal == J!Spec

\* "Admitted AGENT plan nodes launch exactly once" (FEATURES.md:764): through
\* crashes, restarts, resumes and cancellations, the work of an agent node is
\* never started by a second worker.
AgentLaunchesOnce == \A n \in Node : payload[n].kind = "agent" => ran[n] <= 1

\* When a run ends by itself, the task rows and the plan tell the same story of
\* which agents succeeded.  A crash that cuts a worker off between its task and
\* its node breaks this for good, hence ~resumed.
TasksMatchPlan ==
  (main = "finish" /\ ~resumed) =>
    \A n \in Agents \cap bound : (task[n] = "succeeded") = (status[n] = "succeeded")

\* A pump that started comes to rest: the run ends, or is parked for a person.
PumpRests ==
  (main = "pump") ~> (main \in {"off", "parked", "down"})

=============================================================================
