---------------------------- MODULE PlanRunProofs ----------------------------
(***************************************************************************)
(* A run uses the plan journal as the journal's own specification allows,  *)
(* and starts no agent of the plan twice: proofs about PlanRun, for any    *)
(* nodes, any submissions, any results and any number of crashes.  What    *)
(* PlanJournalProofs proves of the journal then holds of every run.        *)
(***************************************************************************)
EXTENDS PlanRun, TLAPS

JP == INSTANCE PlanJournalProofs

\* What the journal keeps by itself, whoever calls it.
JInv == JP!IInv /\ JP!NotBegun

\* A row of plan_nodes: part of the plan, or replaced.
Known(n) == n \in active \cup retired

Phases == OnLoop \cup {"none", "recorded", "settled", "moving", "moved"}

RunTyped ==
  /\ task \in [Node -> {"none", "queued", "running", "succeeded", "failed", "blocked", "cancelled"}]
  /\ worker \in [Node -> Phases]
  /\ out \in [Node -> Values] /\ attempt \in [Node -> 1..2] /\ ran \in [Node -> Nat]
  /\ dispatches \subseteq Node /\ admitted \subseteq dispatches /\ running \subseteq Node

\* Nobody works on a node that has no execution row.
WorkersBegun == \A n \in Node : worker[n] # "none" => exec[n] # "none"

\* The phases of a command are those of a tool.
CommandsAreTools ==
  \A n \in Node : worker[n] \in {"ranTool", "asked", "toolSettled"} => payload[n].kind = "tool"

\* Who is about to settle a node has a result to settle it with.
HasOutcome ==
  /\ \A n \in Node : worker[n] \in {"recorded", "ranTool", "asked"} => out[n] \in J!Results
  /\ main \in {"checkpoint", "ckMove"} => out[cur] \in {"succeeded", "blocked"}

Admitting == {"admitTask", "admitBind"}
Waking == {"ckBegin", "ckRun", "checkpoint", "ckMove"}

AgentsToAdmit == \A n \in todo : Known(n) /\ payload[n].kind = "agent"

\* The node the controller is at, between one transaction and the next.
CurIs(kind) == cur \in active /\ payload[cur].kind = kind

CurFits ==
  /\ main \in Admitting => CurIs("agent")
  /\ main = "toolBegin" => CurIs("tool")
  /\ main \in Waking => CurIs("checkpoint") /\ admitted = {}
  /\ main \in Admitting \cup {"toolBegin", "ckBegin"} =>
       status[cur] = "launching" /\ exec[cur] = "none"
  /\ main \in {"closeRead", "closeMove", "closeTask"} => cur \in running

RunningBegun ==
  \A n \in running : Known(n) /\ (payload[n].kind = "agent" => exec[n] # "none")

\* A dispatched agent without an execution is launching, and the pump has yet
\* to come to it.
Dispatched ==
  \A n \in dispatches :
    /\ Known(n) /\ payload[n].kind = "agent"
    /\ exec[n] = "none" => n \in admitted /\ n \in active /\ status[n] = "launching"

ToBeApproved(n) == Known(n) /\ payload[n].kind = "tool"

\* The interrupt in the slot is that of a tool that was begun.  Only one that
\* was restored may be older than the retry it asks for; it finds its tool
\* ready or launching again, and no longer blocked.
Slotted ==
  slot # NoNode =>
    /\ ToBeApproved(slot)
    /\ exec[slot] = "none" => main = "parked" /\ status[slot] \in {"ready", "launching"}

\* The same of the interrupt in the latest checkpoint reference.
Referred ==
  /\ ref \in Node =>
       /\ ToBeApproved(ref)
       /\ exec[ref] = "none" =>
            \/ status[ref] = "ready"
            \/ /\ status[ref] = "launching"
               /\ \/ main = "toolBegin" /\ cur = ref
                  \/ main \in {"down", "off"}
                  \/ main = "parked" /\ slot = ref
  /\ main = "checkpoint" => ref \notin Node

\* The work of an agent is started once, by the worker of its one execution:
\* who has yet to start it finds its task queued.
Launches ==
  \A n \in Node :
    /\ ran[n] > 0 => Known(n)
    /\ payload[n].kind = "agent" =>
         /\ ran[n] <= 1
         /\ ran[n] > 0 => exec[n] # "none" /\ task[n] # "queued"
         /\ worker[n] \in {"spawned", "started"} /\ attempt[n] = 1 => ran[n] = 0

IInv ==
  /\ JInv /\ RunTyped /\ WorkersBegun /\ CommandsAreTools /\ HasOutcome
  /\ AgentsToAdmit /\ CurFits /\ RunningBegun /\ Dispatched
  /\ Slotted /\ Referred /\ Launches

-----------------------------------------------------------------------------
(* The journal as its own proofs know it. *)

LEMMA SameOperations ==
  /\ \A n : J!BeginExecution(n) <=> JP!BeginExecution(n)
  /\ \A n : J!RetryApprovedTool(n) <=> JP!RetryApprovedTool(n)
  /\ \A n : J!ReconcileNode(n) <=> JP!ReconcileNode(n)
  /\ \A n, e, t : J!Transition(n, e, t) <=> JP!Transition(n, e, t)
  /\ \A S : J!ReconcileUnlaunched(S) <=> JP!ReconcileUnlaunched(S)
BY DEF J!BeginExecution, JP!BeginExecution, J!RetryApprovedTool,
   JP!RetryApprovedTool, J!ReconcileNode, JP!ReconcileNode, J!Transition, JP!Transition,
   J!ReconcileUnlaunched, JP!ReconcileUnlaunched, J!ReconcileTarget, JP!ReconcileTarget,
   J!TargetOf, JP!TargetOf, J!LegalTransition, JP!LegalTransition, J!After, JP!After,
   J!Released, JP!Released, J!Blocked, JP!Blocked, J!Downstream, JP!Downstream,
   J!Dead, JP!Dead, J!Terminal, JP!Terminal, J!Launched, JP!Launched

LEMMA SameNext == [J!Next]_planVars <=> [JP!Next]_(JP!planVars)
BY DEF planVars, JP!planVars, J!Next, JP!Next, J!AdmitPlan, JP!AdmitPlan, J!Transition, JP!Transition,
   J!BeginExecution, JP!BeginExecution, J!SettleExecution, JP!SettleExecution,
   J!RetryApprovedTool, JP!RetryApprovedTool, J!ReconcileTarget, JP!ReconcileTarget,
   J!ReconcileNode, JP!ReconcileNode, J!ReconcileUnlaunched, JP!ReconcileUnlaunched,
   J!RevisePlan, JP!RevisePlan, J!Replaced, JP!Replaced, J!Added, JP!Added,
   J!Lineage, JP!Lineage, J!LineageKept, JP!LineageKept,
   J!RunningCheckpoints, JP!RunningCheckpoints,
   J!AcknowledgesCheckpoint, JP!AcknowledgesCheckpoint, J!FreshIds, JP!FreshIds,
   J!RevisedStatus, JP!RevisedStatus, J!After, JP!After, J!Released, JP!Released,
   J!Blocked, JP!Blocked, J!Downstream, JP!Downstream, J!Dead, JP!Dead,
   J!Terminal, JP!Terminal, J!Launched, JP!Launched, J!States, JP!States,
   J!Results, JP!Results, J!TargetOf, JP!TargetOf, J!LegalTransition, JP!LegalTransition,
   J!ValidGraph, JP!ValidGraph, J!Plans, JP!Plans

\* The assumptions under which the journal's lemmas are proved hold here.
LEMMA JournalAssumptions ==
  /\ IsFiniteSet(Node) /\ JP!IsFiniteSet(Node) /\ NoLineage \notin Node
  /\ \A p \in Submissions : DOMAIN p \subseteq Node /\ p \in [DOMAIN p -> JP!Payload]
  /\ MaxRevision \in Nat \ {0}
BY JournalAssumption DEF JP!IsFiniteSet, IsFiniteSet, JP!Payload, J!Payload, JP!Kinds, J!Kinds

LEMMA JournalInit == J!Init => JInv
<1>1. J!Init => JP!Init
  BY DEF J!Init, JP!Init
<1>2. JP!Init => JP!IInv
  BY JP!InitIInv, JournalAssumptions
<1>3. J!Init => JP!NotBegun
  BY DEF J!Init, JP!NotBegun
<1> QED BY <1>1, <1>2, <1>3 DEF JInv

LEMMA JournalNext == JInv /\ [J!Next]_planVars => JInv'
<1>1. JInv /\ [J!Next]_planVars => JP!IInv'
  BY JP!NextIInv, JournalAssumptions, SameNext DEF JInv
<1>2. JInv /\ [J!Next]_planVars => JP!NotBegun'
  BY JP!NotBegunStays, JournalAssumptions, SameNext DEF JInv
<1> QED BY <1>1, <1>2 DEF JInv

\* What the proofs below read off the state of the journal.
LEMMA JournalFacts ==
  ASSUME JInv
  PROVE  /\ active \subseteq Node /\ retired \subseteq Node
         /\ status \in [Node -> J!States]
         /\ exec \in [Node -> {"none", "running", "settled"}]
         /\ revision = 0 => active = {} /\ retired = {}
         /\ \A n \in active : payload[n].deps \subseteq active
         /\ \A n \in Node : exec[n] # "none" => Known(n)
         /\ \A n \in Node : status[n] \in {"absent", "waiting", "ready"} => exec[n] = "none"
         /\ \A n \in Node : status[n] \in {"ready", "launching"} => n \in active
BY DEF JInv, JP!IInv, JP!TypeOK, JP!WellFormed, JP!RetiredDead, JP!NotBegun, Known,
   J!States, JP!States, J!Launched, JP!Launched, J!Terminal, JP!Terminal, J!Dead, JP!Dead

\* A row of the plan is never removed or rewritten.
LEMMA JournalKeepsRows ==
  ASSUME JInv, [J!Next]_planVars, NEW n, Known(n)
  PROVE  Known(n)' /\ payload'[n] = payload[n]
BY JP!KnownStays, JournalAssumptions, SameNext DEF JInv, Known

\* A transition moves its node, and beyond it only waiting ones.
LEMMA JournalMoves ==
  ASSUME JInv, NEW n, NEW expected, NEW target, J!Transition(n, expected, target)
  PROVE  /\ n \in active /\ status[n] = expected /\ status'[n] = target
         /\ \A m \in Node \ {n} : status'[m] = status[m] \/ status[m] = "waiting"
         /\ UNCHANGED <<revision, active, retired, payload, exec, result>>
<1>1. JP!Transition(n, expected, target)
  BY SameOperations
<1>2. /\ n \in active /\ status[n] = expected /\ status'[n] = target
      /\ \A m \in Node \ {n} : status'[m] = status[m] \/ status[m] = "waiting"
  BY <1>1, JP!TransitionShape, JournalAssumptions DEF JInv
<1> QED BY <1>2 DEF J!Transition

LEMMA JournalReconciles ==
  ASSUME JInv, NEW n, J!ReconcileNode(n)
  PROVE  /\ n \in active /\ status[n] \in J!Launched
         /\ \A m \in Node \ {n} : status'[m] = status[m] \/ status[m] = "waiting"
         /\ UNCHANGED <<revision, active, retired, payload, exec, result>>
<1>1. JP!ReconcileNode(n)
  BY SameOperations
<1>2. \A m \in Node \ {n} : status'[m] = status[m] \/ status[m] = "waiting"
  BY <1>1, JP!ReconcileShape, JournalAssumptions DEF JInv
<1> QED BY <1>2 DEF J!ReconcileNode

LEMMA JournalUnlaunches ==
  ASSUME JInv, NEW S, J!ReconcileUnlaunched(S)
  PROVE  /\ S \subseteq active
         /\ \A m \in Node \ S : status'[m] = status[m] \/ status[m] = "waiting"
         /\ UNCHANGED <<revision, active, retired, payload, exec, result>>
<1>1. JP!ReconcileUnlaunched(S) /\ S \in SUBSET active
  BY SameOperations DEF J!ReconcileUnlaunched
<1>2. \A m \in Node \ S : status'[m] = status[m] \/ status[m] = "waiting"
  BY <1>1, JP!UnlaunchedShape, JournalAssumptions DEF JInv, JP!IInv
<1> QED BY <1>1, <1>2 DEF J!ReconcileUnlaunched

-----------------------------------------------------------------------------
(* Every step is one of the journal's, or none. *)

\* The steps of the workers that write neither the plan nor the slot.
WorkerOnly(n) ==
  \/ AgentStarts(n) \/ AgentFailsOnce(n) \/ AgentReads(n) \/ AgentReports(n)
  \/ \E r \in AgentResults : AgentRecords(n, r)
  \/ ToolRaises(n) \/ ToolAsks(n) \/ \E r \in ToolResults : ToolRuns(n, r)

\* The steps of the controller, the lead and the user that do not write the plan.
ControlOnly ==
  \/ AdmissionRefused \/ LeadReturns \/ CheckpointFails \/ PumpCancelled
  \/ ResumeFrontier \/ ResumeLead \/ RejectInterrupted
  \/ Crash \/ RestoreInterrupted \/ NothingToRestore
  \/ AdmitCreatesTask \/ AdmitBinds \/ AdmitEnds \/ PersistDecision
  \/ PumpWaits \/ PumpIdles \/ PumpWakes \/ CheckpointAdmits
  \/ CloseStops \/ CloseReads \/ CloseTask \/ CloseEnds
  \/ RunCompletes \/ RunBlocks \/ RunInterrupted \/ SaveCheckpoint \/ RebuildAdmits

LEMMA WorkerOnlyKeepsPlan ==
  ASSUME NEW n \in Node, WorkerOnly(n)
  PROVE  UNCHANGED planVars
BY DEF WorkerOnly, AgentStarts, AgentFailsOnce, AgentReads, AgentReports, AgentRecords,
   ToolRaises, ToolAsks, ToolRuns

LEMMA ControlOnlyKeepsPlan == ControlOnly => UNCHANGED planVars
BY DEF ControlOnly, AdmissionRefused, LeadReturns, CheckpointFails, PumpCancelled, ResumeFrontier,
   ResumeLead, RejectInterrupted, Crash, RestoreInterrupted, NothingToRestore, AdmitCreatesTask,
   AdmitBinds, AdmitEnds, PersistDecision, PumpWaits, PumpIdles, PumpWakes, CheckpointAdmits,
   CloseStops, CloseReads, CloseTask, CloseEnds, RunCompletes, RunBlocks, RunInterrupted,
   SaveCheckpoint, RebuildAdmits

\* The lead's two operations, and the block of what it never launched.
LEMMA LeadAllowed ==
  ASSUME IInv, LeadSubmits \/ LeadStops \/ CheckpointRevises
  PROVE  [J!Next]_planVars
<1>1. CASE LeadSubmits
  BY <1>1 DEF LeadSubmits, J!Next
<1>2. CASE LeadStops
  BY <1>2 DEF LeadStops, J!ReconcileUnlaunched, J!Next
<1>3. ASSUME NEW p \in J!Plans, NEW cancelled \in SUBSET active, main = "checkpoint",
             revision < MaxRevision, J!RevisePlan(revision, p, cancelled, payload[cur].deps)
      PROVE  [J!Next]_planVars
  <2>1. payload[cur].deps \subseteq active
    BY <1>3, JournalFacts DEF IInv, CurFits, Waking, CurIs
  <2>2. J!RevisePlan(revision, p, cancelled, active)
    BY <1>3, <2>1 DEF J!RevisePlan, J!AcknowledgesCheckpoint
  <2> QED BY <1>3, <2>2 DEF J!Next
<1> QED BY <1>1, <1>2, <1>3 DEF CheckpointRevises

\* A moved node is one of the plan, and its move is a legal one.
LEMMA MoveAllowed ==
  ASSUME IInv, NEW n, NEW expected, NEW target, J!Transition(n, expected, target)
  PROVE  J!Next
<1>1. n \in Node
  BY JournalFacts DEF IInv, J!Transition
<1>2. \E t \in J!LegalTransition : J!Transition(n, t[1], t[2])
  BY DEF J!Transition
<1> QED BY <1>1, <1>2 DEF J!Next

\* An execution is begun where the node was moved to launching before.
LEMMA BeginAllowed ==
  ASSUME IInv, ToolBegins \/ CheckpointBegins \/ \E n \in Node : BeginDispatch(n)
  PROVE  [J!Next]_planVars
<1>1. CASE ToolBegins \/ CheckpointBegins
  <2>1. cur \in Node /\ status[cur] = "launching" /\ J!BeginExecution(cur)
    BY <1>1, JournalFacts DEF ToolBegins, CheckpointBegins, IInv, CurFits, CurIs, Waking
  <2> QED BY <2>1 DEF J!Next
<1>2. ASSUME NEW n \in Node, BeginDispatch(n)
      PROVE  [J!Next]_planVars
  <2>1. exec[n] = "none" => status[n] = "launching"
    BY <1>2 DEF BeginDispatch, IInv, RunTyped, Dispatched
  <2> QED BY <1>2, <2>1 DEF BeginDispatch, J!Next
<1> QED BY <1>1, <1>2

LEMMA SettleAllowed ==
  ASSUME IInv,
         \/ CheckpointReturns
         \/ \E n \in Node : AgentSettles(n) \/ AgentUnroutable(n) \/ ToolSettles(n) \/ CloseSettles(n)
  PROVE  [J!Next]_planVars
<1>1. ASSUME NEW n \in Node, AgentSettles(n) \/ ToolSettles(n)
      PROVE  [J!Next]_planVars
  <2>1. out[n] \in J!Results /\ J!SettleExecution(n, out[n])
    BY <1>1 DEF AgentSettles, ToolSettles, Phase, IInv, HasOutcome
  <2> QED BY <2>1 DEF J!Next
<1>2. CASE CheckpointReturns
  <2>1. cur \in Node /\ out[cur] \in J!Results /\ J!SettleExecution(cur, out[cur])
    BY <1>2, JournalFacts
       DEF CheckpointReturns, IInv, CurFits, CurIs, Waking, HasOutcome, J!Results
  <2> QED BY <2>1 DEF J!Next
<1>3. ASSUME NEW n \in Node, AgentUnroutable(n) \/ CloseSettles(n)
      PROVE  [J!Next]_planVars
  BY <1>3 DEF AgentUnroutable, CloseSettles, J!Results, J!Next
<1> QED BY <1>1, <1>2, <1>3

\* The interrupt in the slot is that of a tool with an execution.
LEMMA RetryAllowed ==
  ASSUME IInv, ResumeApproved
  PROVE  /\ slot \in Node /\ payload[slot].kind = "tool" /\ exec[slot] # "none"
         /\ J!Next
<1>1. slot \in Node /\ payload[slot].kind = "tool" /\ status[slot] = "blocked"
  BY JournalFacts DEF ResumeApproved, J!RetryApprovedTool, IInv, Slotted, ToBeApproved, Known
<1>2. exec[slot] # "none"
  BY <1>1 DEF ResumeApproved, IInv, Slotted
<1> QED BY <1>1, <1>2 DEF ResumeApproved, J!Next

LEMMA StepIsJournal == IInv /\ [Next]_vars => [J!Next]_planVars
<1> SUFFICES ASSUME IInv, [Next]_vars PROVE [J!Next]_planVars
  OBVIOUS
<1>1. CASE ControlOnly \/ \E n \in Node : WorkerOnly(n)
  BY <1>1, ControlOnlyKeepsPlan, WorkerOnlyKeepsPlan
<1>2. CASE LeadSubmits \/ LeadStops \/ CheckpointRevises \/ ResumeApproved
  BY <1>2, LeadAllowed, RetryAllowed
<1>3. CASE ToolBegins \/ CheckpointBegins \/ \E n \in Node : BeginDispatch(n)
  BY <1>3, BeginAllowed
<1>4. CASE \/ CheckpointRuns \/ CheckpointMoves \/ CloseMoves
           \/ \E n \in Node : AdmitLaunches(n) \/ ToolLaunches(n) \/ CheckpointLaunches(n)
           \/ \E n \in Node : AgentAssigned(n) \/ AgentMoves(n) \/ ToolStarts(n) \/ ToolMoves(n)
  BY <1>4, MoveAllowed
     DEF CheckpointRuns, CheckpointMoves, CloseMoves, AdmitLaunches, ToolLaunches, CheckpointLaunches,
         AgentAssigned, AgentMoves, ToolStarts, ToolMoves
<1>5. CASE \/ CheckpointReturns
           \/ \E n \in Node : \/ AgentSettles(n) \/ AgentUnroutable(n) \/ ToolSettles(n)
                             \/ CloseSettles(n)
  BY <1>5, SettleAllowed
<1>6. CASE \E n \in Node : RebuildReconciles(n)
  BY <1>6 DEF RebuildReconciles, J!Next
<1>7. CASE UNCHANGED vars
  BY <1>7 DEF vars, planVars
<1> QED
  BY <1>1, <1>2, <1>3, <1>4, <1>5, <1>6, <1>7
     DEF Next, OutsideStep, PumpStep, WorkerStep, ControlOnly, WorkerOnly

-----------------------------------------------------------------------------
(* What a step leaves alone. *)

LEMMA RowsStay ==
  ASSUME IInv, [Next]_vars, NEW n, Known(n)
  PROVE  Known(n)' /\ payload'[n] = payload[n]
BY StepIsJournal, JournalKeepsRows DEF IInv

\* Only the approved retry removes an execution row.
LEMMA ExecutionsStay ==
  ASSUME IInv, [Next]_vars, NEW n \in Node, exec[n] # "none"
  PROVE  exec'[n] # "none" \/ (ResumeApproved /\ n = slot)
<1>0. exec \in [Node -> {"none", "running", "settled"}]
  BY JournalFacts DEF IInv
<1>1. CASE ControlOnly \/ \E m \in Node : WorkerOnly(m)
  BY <1>1, ControlOnlyKeepsPlan, WorkerOnlyKeepsPlan DEF planVars
<1>2. CASE LeadSubmits \/ LeadStops \/ CheckpointRevises
  BY <1>2 DEF LeadSubmits, LeadStops, CheckpointRevises, J!AdmitPlan, J!ReconcileUnlaunched, J!RevisePlan
<1>3. CASE ToolBegins \/ CheckpointBegins \/ \E m \in Node : BeginDispatch(m)
  BY <1>0, <1>3 DEF ToolBegins, CheckpointBegins, BeginDispatch, J!BeginExecution, planVars
<1>4. CASE \/ CheckpointRuns \/ CheckpointMoves \/ CloseMoves
           \/ \E m \in Node : AdmitLaunches(m) \/ ToolLaunches(m) \/ CheckpointLaunches(m)
           \/ \E m \in Node : AgentAssigned(m) \/ AgentMoves(m) \/ ToolStarts(m) \/ ToolMoves(m)
  BY <1>4
     DEF CheckpointRuns, CheckpointMoves, CloseMoves, AdmitLaunches, ToolLaunches, CheckpointLaunches,
         AgentAssigned, AgentMoves, ToolStarts, ToolMoves, J!Transition, planVars
<1>5. CASE \/ CheckpointReturns
           \/ \E m \in Node : \/ AgentSettles(m) \/ AgentUnroutable(m) \/ ToolSettles(m)
                             \/ CloseSettles(m)
  BY <1>0, <1>5
     DEF CheckpointReturns, AgentSettles, AgentUnroutable, ToolSettles, CloseSettles,
         J!SettleExecution, planVars
<1>6. CASE \E m \in Node : RebuildReconciles(m)
  BY <1>6 DEF RebuildReconciles, J!ReconcileNode
<1>7. CASE ResumeApproved
  BY <1>0, <1>7 DEF ResumeApproved, J!RetryApprovedTool
<1>8. CASE UNCHANGED vars
  BY <1>8 DEF vars, planVars
<1> QED
  BY <1>1, <1>2, <1>3, <1>4, <1>5, <1>6, <1>7, <1>8
     DEF Next, OutsideStep, PumpStep, WorkerStep, ControlOnly, WorkerOnly

\* The steps that may move a node which is ready or launching and not begun.
Moves(n) ==
  \/ AdmitLaunches(n) \/ ToolLaunches(n) \/ CheckpointLaunches(n) \/ BeginDispatch(n)
  \/ RebuildReconciles(n) \/ CheckpointRevises
  \/ cur = n /\ (ToolBegins \/ CheckpointBegins \/ CheckpointRuns \/ CheckpointMoves \/ CloseMoves)
  \/ n \in admitted /\ LeadStops

LEMMA UnbegunStays ==
  ASSUME IInv, [Next]_vars, NEW n \in Node,
         exec[n] = "none", status[n] \in {"ready", "launching"}, ~Moves(n)
  PROVE  exec'[n] = "none" /\ status'[n] = status[n] /\ n \in active'
<1>0. /\ exec \in [Node -> {"none", "running", "settled"}]
      /\ n \in active /\ revision # 0 /\ JInv
  BY JournalFacts DEF IInv
<1>1. CASE ControlOnly \/ \E m \in Node : WorkerOnly(m)
  BY <1>0, <1>1, ControlOnlyKeepsPlan, WorkerOnlyKeepsPlan DEF planVars
<1>2. CASE LeadSubmits \/ LeadStops \/ CheckpointRevises
  <2>1. LeadStops
    BY <1>0, <1>2 DEF Moves, LeadSubmits, J!AdmitPlan
  <2> QED BY <1>0, <2>1, JournalUnlaunches DEF Moves, LeadStops
<1>3. CASE ToolBegins \/ CheckpointBegins \/ \E m \in Node : BeginDispatch(m)
  BY <1>0, <1>3 DEF Moves, ToolBegins, CheckpointBegins, BeginDispatch, J!BeginExecution, planVars
<1>4. CASE CheckpointRuns \/ CheckpointMoves \/ CloseMoves
  <2>1. \/ UNCHANGED planVars
        \/ \E e, t : J!Transition(cur, e, t)
    BY <1>4 DEF CheckpointRuns, CheckpointMoves, CloseMoves
  <2> QED BY <1>0, <1>4, <2>1, JournalMoves DEF Moves, planVars
<1>5. ASSUME NEW m \in Node,
             \/ AdmitLaunches(m) \/ ToolLaunches(m) \/ CheckpointLaunches(m)
             \/ AgentAssigned(m) \/ AgentMoves(m) \/ ToolStarts(m) \/ ToolMoves(m)
      PROVE  exec'[n] = "none" /\ status'[n] = status[n] /\ n \in active'
  <2>1. m # n
    BY <1>5 DEF Moves, AgentAssigned, AgentMoves, ToolStarts, ToolMoves, Phase, IInv, WorkersBegun
  <2>2. \/ UNCHANGED planVars
        \/ \E e, t : J!Transition(m, e, t)
    BY <1>5 DEF AdmitLaunches, ToolLaunches, CheckpointLaunches, AgentAssigned, AgentMoves,
         ToolStarts, ToolMoves
  <2> QED BY <1>0, <2>1, <2>2, JournalMoves DEF planVars
<1>6. CASE \/ CheckpointReturns
           \/ \E m \in Node : \/ AgentSettles(m) \/ AgentUnroutable(m) \/ ToolSettles(m)
                             \/ CloseSettles(m)
  BY <1>0, <1>6
     DEF CheckpointReturns, AgentSettles, AgentUnroutable, ToolSettles, CloseSettles,
         J!SettleExecution, planVars
<1>7. ASSUME NEW m \in Node, RebuildReconciles(m)
      PROVE  exec'[n] = "none" /\ status'[n] = status[n] /\ n \in active'
  <2>1. m # n /\ J!ReconcileNode(m)
    BY <1>7 DEF Moves, RebuildReconciles
  <2> QED BY <1>0, <2>1, JournalReconciles
<1>8. CASE ResumeApproved
  BY <1>0, <1>8 DEF ResumeApproved, J!RetryApprovedTool
<1>9. CASE UNCHANGED vars
  BY <1>0, <1>9 DEF vars, planVars
<1> QED
  BY <1>1, <1>2, <1>3, <1>4, <1>5, <1>6, <1>7, <1>8, <1>9
     DEF Next, OutsideStep, PumpStep, WorkerStep, ControlOnly, WorkerOnly

-----------------------------------------------------------------------------
(* The invariant, part by part. *)

LEMMA RunTypedStays ==
  ASSUME IInv, [Next]_vars
  PROVE  RunTyped'
<1> USE DEF IInv, RunTyped, durable, listVars, pumpVars, workVars
<1>1. CASE LeadSubmits \/ LeadStops \/ CheckpointRevises \/ ResumeApproved \/ ResumeFrontier \/ ResumeLead
  BY <1>1 DEF LeadSubmits, LeadStops, CheckpointRevises, ResumeApproved, ResumeFrontier, ResumeLead,
       Values
<1>2. CASE Crash
  BY <1>2 DEF Crash, Values, Phases
<1>3. CASE \/ AdmissionRefused \/ LeadReturns \/ CheckpointFails \/ PumpCancelled
           \/ RejectInterrupted \/ RestoreInterrupted \/ NothingToRestore
           \/ AdmitEnds \/ PersistDecision \/ PumpWaits \/ PumpIdles \/ CheckpointAdmits
           \/ CheckpointBegins \/ CheckpointReturns \/ CheckpointMoves \/ CloseReads \/ CloseEnds
           \/ RunCompletes \/ RunBlocks \/ RunInterrupted \/ SaveCheckpoint \/ RebuildAdmits
  BY <1>3 DEF AdmissionRefused, LeadReturns, CheckpointFails, PumpCancelled, RejectInterrupted,
       RestoreInterrupted, NothingToRestore, AdmitEnds, PersistDecision, PumpWaits, PumpIdles,
       CheckpointAdmits, CheckpointBegins, CheckpointReturns, CheckpointMoves, CloseReads, CloseEnds,
       RunCompletes, RunBlocks, RunInterrupted, SaveCheckpoint, RebuildAdmits
<1>4. CASE AdmitCreatesTask \/ AdmitBinds \/ ToolBegins \/ CheckpointRuns
  <2>1. cur \in Node
    BY <1>4, JournalFacts DEF AdmitCreatesTask, AdmitBinds, ToolBegins, CheckpointRuns, CurFits,
         CurIs, Admitting, Waking
  <2> QED BY <1>4, <2>1 DEF AdmitCreatesTask, AdmitBinds, ToolBegins, CheckpointRuns, Phases, OnLoop,
         Values
<1>5. CASE PumpWakes \/ CloseStops \/ CloseMoves \/ CloseTask
  BY <1>5 DEF PumpWakes, CloseStops, CloseMoves, CloseTask, Phases
<1>6. CASE \E n \in Node : \/ AdmitLaunches(n) \/ BeginDispatch(n) \/ ToolLaunches(n)
                           \/ CheckpointLaunches(n) \/ CloseSettles(n) \/ RebuildReconciles(n)
  BY <1>6 DEF AdmitLaunches, BeginDispatch, ToolLaunches, CheckpointLaunches, CloseSettles,
       RebuildReconciles, Phases, OnLoop
<1>7. ASSUME NEW n \in Node, WorkerStep(n)
      PROVE  RunTyped'
  <2>1. CASE \/ AgentAssigned(n) \/ AgentStarts(n) \/ AgentFailsOnce(n) \/ AgentSettles(n)
             \/ AgentUnroutable(n) \/ AgentReads(n) \/ ToolStarts(n) \/ ToolRaises(n)
             \/ ToolAsks(n) \/ ToolSettles(n) \/ ToolMoves(n)
    BY <2>1 DEF AgentAssigned, AgentStarts, AgentFailsOnce, AgentSettles, AgentUnroutable, AgentReads,
         ToolStarts, ToolRaises, ToolAsks, ToolSettles, ToolMoves, Phase, KeepsMain, Phases, OnLoop,
         Values
  <2>2. CASE AgentMoves(n) \/ AgentReports(n)
    BY <2>2 DEF AgentMoves, AgentReports, Phase, Ends, KeepsMain, Phases, OnLoop
  <2>3. CASE \/ \E r \in AgentResults : AgentRecords(n, r)
             \/ \E r \in ToolResults : ToolRuns(n, r)
    BY <2>3, ResultsAssumption DEF AgentRecords, ToolRuns, Phase, KeepsMain, Phases, OnLoop, Values
  <2> QED BY <1>7, <2>1, <2>2, <2>3 DEF WorkerStep
<1>8. CASE UNCHANGED vars
  BY <1>8 DEF vars
<1> QED
  BY <1>1, <1>2, <1>3, <1>4, <1>5, <1>6, <1>7, <1>8 DEF Next, OutsideStep, PumpStep

\* Who moves a worker, unless it ends: the worker, or who starts it.
LEMMA WhoMovesAWorker ==
  ASSUME IInv, [Next]_vars, NEW n \in Node, worker'[n] # worker[n]
  PROVE  \/ worker'[n] = "none"
         \/ BeginDispatch(n)
         \/ ToolBegins /\ cur = n
         \/ WorkerStep(n)
<1> USE DEF IInv, RunTyped, durable, listVars, pumpVars, workVars
<1>1. CASE ControlOnly
  BY <1>1
     DEF ControlOnly, AdmissionRefused, LeadReturns, CheckpointFails, PumpCancelled, ResumeFrontier,
       ResumeLead, RejectInterrupted, Crash, RestoreInterrupted, NothingToRestore, AdmitCreatesTask,
       AdmitBinds, AdmitEnds, PersistDecision, PumpWaits, PumpIdles, PumpWakes, CheckpointAdmits,
       CloseStops, CloseReads, CloseTask, CloseEnds, RunCompletes, RunBlocks, RunInterrupted,
       SaveCheckpoint, RebuildAdmits
<1>2. CASE \/ LeadSubmits \/ LeadStops \/ CheckpointRevises \/ ResumeApproved
           \/ CheckpointBegins \/ CheckpointRuns \/ CheckpointReturns \/ CheckpointMoves \/ CloseMoves
           \/ \E m \in Node : \/ AdmitLaunches(m) \/ ToolLaunches(m) \/ CheckpointLaunches(m)
                             \/ CloseSettles(m) \/ RebuildReconciles(m)
  BY <1>2
     DEF LeadSubmits, LeadStops, CheckpointRevises, ResumeApproved, CheckpointBegins, CheckpointRuns,
       CheckpointReturns, CheckpointMoves, CloseMoves, AdmitLaunches, ToolLaunches,
       CheckpointLaunches, CloseSettles, RebuildReconciles
<1>3. CASE ToolBegins \/ \E m \in Node : BeginDispatch(m)
  BY <1>3 DEF ToolBegins, BeginDispatch
<1>4. ASSUME NEW m \in Node, WorkerStep(m)
      PROVE  m = n
  BY <1>4
     DEF WorkerStep, AgentAssigned, AgentStarts, AgentFailsOnce, AgentSettles, AgentUnroutable,
       AgentReads, AgentMoves, AgentReports, AgentRecords, ToolStarts, ToolRaises, ToolAsks,
       ToolSettles, ToolMoves, ToolRuns, Phase, Ends
<1>5. CASE UNCHANGED vars
  BY <1>5 DEF vars
<1> QED BY <1>1, <1>2, <1>3, <1>4, <1>5 DEF Next, OutsideStep, PumpStep, ControlOnly

LEMMA WorkersBegunStays ==
  ASSUME IInv, [Next]_vars
  PROVE  WorkersBegun'
<1> USE DEF IInv, WorkersBegun
<1> SUFFICES ASSUME NEW n \in Node, worker'[n] # "none", exec'[n] = "none"
             PROVE  FALSE
  OBVIOUS
<1>1. worker[n] = "none"
  BY ExecutionsStay DEF ResumeApproved, Quiet
<1>2. (BeginDispatch(n) \/ (ToolBegins /\ cur = n)) => exec'[n] # "none"
  BY JournalFacts DEF BeginDispatch, ToolBegins, J!BeginExecution, planVars
<1>3. WorkerStep(n)
  BY <1>1, <1>2, WhoMovesAWorker
<1> QED
  BY <1>1, <1>3
     DEF WorkerStep, AgentAssigned, AgentStarts, AgentFailsOnce, AgentSettles, AgentUnroutable,
       AgentReads, AgentMoves, AgentReports, AgentRecords, ToolStarts, ToolRaises, ToolAsks,
       ToolSettles, ToolMoves, ToolRuns, Phase

\* A worker works on a row of the plan, whose payload stays.
LEMMA WorkersRowStays ==
  ASSUME IInv, [Next]_vars, NEW n \in Node, worker[n] # "none"
  PROVE  Known(n) /\ Known(n)' /\ payload'[n] = payload[n]
<1>1. Known(n)
  BY JournalFacts DEF IInv, WorkersBegun
<1> QED BY <1>1, RowsStay

LEMMA CommandsAreToolsStays ==
  ASSUME IInv, [Next]_vars
  PROVE  CommandsAreTools'
<1> USE DEF CommandsAreTools
<1> SUFFICES ASSUME NEW n \in Node, worker'[n] \in {"ranTool", "asked", "toolSettled"}
             PROVE  payload'[n].kind = "tool"
  OBVIOUS
<1>1. CASE worker[n] \in {"ranTool", "asked", "toolSettled"}
  BY <1>1, WorkersRowStays DEF IInv
<1>2. CASE worker[n] \notin {"ranTool", "asked", "toolSettled"}
  <2>1. WorkerStep(n)
    BY <1>2, WhoMovesAWorker DEF BeginDispatch, ToolBegins, IInv, RunTyped
  <2>2. \E r \in ToolResults : ToolRuns(n, r)
    BY <1>2, <2>1
       DEF WorkerStep, AgentAssigned, AgentStarts, AgentFailsOnce, AgentSettles, AgentUnroutable,
         AgentReads, AgentMoves, AgentReports, AgentRecords, ToolStarts, ToolRaises, ToolAsks,
         ToolSettles, ToolMoves, Phase, Ends, IInv, RunTyped
  <2> QED BY <2>2, WorkersRowStays DEF ToolRuns, IsTool, Phase
<1> QED BY <1>1, <1>2

\* Who writes the result of a node, unless it is forgotten in a crash.
LEMMA WhoWritesAResult ==
  ASSUME IInv, [Next]_vars, NEW n \in Node, out'[n] # out[n]
  PROVE  \/ Crash
         \/ (CheckpointRuns \/ CheckpointRevises) /\ cur = n
         \/ WorkerStep(n)
<1> USE DEF IInv, RunTyped, durable, listVars, pumpVars, workVars
<1>1. CASE \/ LeadSubmits \/ AdmissionRefused \/ LeadReturns \/ LeadStops \/ CheckpointFails
           \/ PumpCancelled \/ ResumeApproved \/ ResumeFrontier \/ ResumeLead \/ RejectInterrupted
           \/ RestoreInterrupted \/ NothingToRestore \/ AdmitCreatesTask \/ AdmitBinds \/ AdmitEnds
           \/ PersistDecision \/ ToolBegins \/ PumpWaits \/ PumpIdles \/ PumpWakes \/ CheckpointBegins
           \/ CheckpointReturns \/ CheckpointMoves \/ CheckpointAdmits
  BY <1>1
     DEF LeadSubmits, AdmissionRefused, LeadReturns, LeadStops, CheckpointFails, PumpCancelled,
       ResumeApproved, ResumeFrontier, ResumeLead, RejectInterrupted, RestoreInterrupted,
       NothingToRestore, AdmitCreatesTask, AdmitBinds, AdmitEnds, PersistDecision, ToolBegins,
       PumpWaits, PumpIdles, PumpWakes, CheckpointBegins, CheckpointReturns, CheckpointMoves,
       CheckpointAdmits
<1>2. CASE \/ CloseStops \/ CloseReads \/ CloseMoves \/ CloseTask \/ CloseEnds
           \/ RunCompletes \/ RunBlocks \/ RunInterrupted \/ SaveCheckpoint \/ RebuildAdmits
           \/ \E m \in Node : \/ AdmitLaunches(m) \/ BeginDispatch(m) \/ ToolLaunches(m)
                             \/ CheckpointLaunches(m) \/ CloseSettles(m) \/ RebuildReconciles(m)
  BY <1>2
     DEF CloseStops, CloseReads, CloseMoves, CloseTask, CloseEnds, RunCompletes, RunBlocks,
       RunInterrupted, SaveCheckpoint, RebuildAdmits, AdmitLaunches, BeginDispatch, ToolLaunches,
       CheckpointLaunches, CloseSettles, RebuildReconciles
<1>3. CASE CheckpointRuns \/ CheckpointRevises
  BY <1>3 DEF CheckpointRuns, CheckpointRevises
<1>4. ASSUME NEW m \in Node, WorkerStep(m)
      PROVE  m = n
  BY <1>4
     DEF WorkerStep, AgentAssigned, AgentStarts, AgentFailsOnce, AgentSettles, AgentUnroutable,
       AgentReads, AgentMoves, AgentReports, AgentRecords, ToolStarts, ToolRaises, ToolAsks,
       ToolSettles, ToolMoves, ToolRuns
<1>5. CASE UNCHANGED vars
  BY <1>5 DEF vars
<1> QED BY <1>1, <1>2, <1>3, <1>4, <1>5 DEF Next, OutsideStep, PumpStep

\* Where the controller is with a node, and how it came there.
LEMMA ControllerIsAt ==
  ASSUME [Next]_vars
  PROVE  /\ main' \in Admitting =>
              \/ \E n \in Node : AdmitLaunches(n)
              \/ main \in Admitting /\ cur' = cur
         /\ main' = "toolBegin" =>
              \/ \E n \in Node : ToolLaunches(n)
              \/ main = "toolBegin" /\ cur' = cur
         /\ main' \in Waking =>
              \/ \E n \in Node : CheckpointLaunches(n)
              \/ main \in Waking /\ cur' = cur
         /\ main' = "ckBegin" => (\E n \in Node : CheckpointLaunches(n)) \/ main = "ckBegin"
         /\ main' \in {"checkpoint", "ckMove"} => CheckpointRuns \/ main \in {"checkpoint", "ckMove"}
         /\ main' = "checkpoint" => CheckpointRuns \/ main = "checkpoint"
         /\ main' \in {"closeRead", "closeMove", "closeTask"} =>
              \/ \E n \in Node : CloseSettles(n)
              \/ main \in {"closeRead", "closeMove"} /\ UNCHANGED <<cur, running>>
              \/ main = "closeTask" /\ UNCHANGED <<main, cur, running>>
<1> USE DEF durable, listVars, pumpVars, workVars, Goto, StartAdmission, Admitting, Waking
<1>1. CASE OutsideStep
  BY <1>1
     DEF OutsideStep, LeadSubmits, AdmissionRefused, LeadReturns, LeadStops, CheckpointFails,
       PumpCancelled, ResumeApproved, ResumeFrontier, ResumeLead, RejectInterrupted,
       RestoreInterrupted, NothingToRestore, CheckpointRevises, Crash
<1>2. CASE \/ AdmitCreatesTask \/ AdmitBinds \/ AdmitEnds \/ PersistDecision
           \/ ToolBegins \/ PumpWaits \/ PumpIdles \/ PumpWakes
           \/ CheckpointBegins \/ CheckpointRuns \/ CheckpointReturns \/ CheckpointMoves
           \/ CheckpointAdmits
           \/ CloseStops \/ CloseReads \/ CloseMoves \/ CloseTask \/ CloseEnds
           \/ RunCompletes \/ RunBlocks \/ RunInterrupted \/ SaveCheckpoint \/ RebuildAdmits
  BY <1>2
     DEF AdmitCreatesTask, AdmitBinds, AdmitEnds, PersistDecision, ToolBegins, PumpWaits,
       PumpIdles, PumpWakes, PumpHasNothingToStart, CheckpointBegins, CheckpointReturns,
       CheckpointMoves, CheckpointAdmits, CheckpointRuns, CloseStops, CloseReads, CloseMoves,
       CloseTask, CloseEnds, RunCompletes, RunBlocks, RunInterrupted, SaveCheckpoint, RebuildAdmits
<1>3. ASSUME NEW n \in Node
      PROVE  /\ AdmitLaunches(n) => main' = "admitTask"
             /\ ToolLaunches(n) => main' = "toolBegin"
             /\ CheckpointLaunches(n) => main' = "ckBegin"
             /\ CloseSettles(n) => main' = "closeRead"
             /\ BeginDispatch(n) => main' = "pump"
             /\ RebuildReconciles(n) => main' = "rebuild"
  BY DEF AdmitLaunches, ToolLaunches, CheckpointLaunches, CloseSettles, BeginDispatch,
       RebuildReconciles
<1>4. ASSUME NEW n \in Node, WorkerStep(n)
      PROVE  UNCHANGED <<main, cur, running>>
  BY <1>4
     DEF WorkerStep, KeepsMain, AgentAssigned, AgentStarts, AgentFailsOnce, AgentSettles,
       AgentUnroutable, AgentReads, AgentMoves, AgentReports, AgentRecords, ToolStarts, ToolRaises,
       ToolAsks, ToolSettles, ToolMoves, ToolRuns
<1>5. CASE UNCHANGED vars
  BY <1>5 DEF vars
<1> QED BY <1>1, <1>2, <1>3, <1>4, <1>5 DEF Next, PumpStep

LEMMA HasOutcomeStays ==
  ASSUME IInv, [Next]_vars
  PROVE  HasOutcome'
<1> USE DEF IInv, RunTyped
<1>1. ASSUME NEW n \in Node, worker'[n] \in {"recorded", "ranTool", "asked"}
      PROVE  out'[n] \in J!Results
  <2>1. CASE WorkerStep(n)
    BY <1>1, <2>1, ResultsAssumption
       DEF WorkerStep, AgentAssigned, AgentStarts, AgentFailsOnce, AgentSettles, AgentUnroutable,
         AgentReads, AgentMoves, AgentReports, AgentRecords, ToolStarts, ToolRaises, ToolAsks,
         ToolSettles, ToolMoves, ToolRuns, Phase, Ends, HasOutcome, J!Results
  <2>2. CASE ~WorkerStep(n)
    <3>1. worker'[n] = worker[n]
      BY <1>1, <2>2, WhoMovesAWorker DEF BeginDispatch, ToolBegins
    <3>2. ~Crash
      BY <1>1 DEF Crash
    <3>3. out'[n] = out[n] \/ out'[n] \in {"succeeded", "blocked"}
      BY <2>2, <3>2, WhoWritesAResult DEF CheckpointRuns, CheckpointRevises
    <3> QED BY <1>1, <3>1, <3>3 DEF HasOutcome, J!Results
  <2> QED BY <2>1, <2>2
<1>2. ASSUME main' \in {"checkpoint", "ckMove"}
      PROVE  out'[cur'] \in {"succeeded", "blocked"}
  <2>1. CASE CheckpointRuns
    BY <2>1, JournalFacts DEF CheckpointRuns, CurFits, CurIs, Waking, pumpVars
  <2>2. CASE main \in {"checkpoint", "ckMove"} /\ ~CheckpointRuns
    <3>1. /\ cur' = cur /\ cur \in Node /\ Known(cur) /\ payload[cur].kind = "checkpoint"
          /\ out[cur] \in {"succeeded", "blocked"}
      BY <1>2, <2>2, ControllerIsAt, JournalFacts
         DEF CurFits, CurIs, Waking, HasOutcome, Known, CheckpointLaunches, PumpHasNothingToStart
    <3>2. ~Crash
      BY <1>2 DEF Crash, Goto
    <3>3. WorkerStep(cur) => out'[cur] = out[cur]
      BY <3>1
         DEF WorkerStep, AgentAssigned, AgentStarts, AgentFailsOnce, AgentSettles, AgentUnroutable,
           AgentReads, AgentMoves, AgentReports, AgentRecords, ToolStarts, ToolRaises, ToolAsks,
           ToolSettles, ToolMoves, ToolRuns, IsAgent, IsTool
    <3>4. CheckpointRevises => out'[cur] \in {"succeeded", "blocked"}
      BY <3>1 DEF CheckpointRevises
    <3> QED BY <2>2, <3>1, <3>2, <3>3, <3>4, WhoWritesAResult
  <2> QED BY <1>2, <2>1, <2>2, ControllerIsAt
<1> QED BY <1>1, <1>2 DEF HasOutcome

\* Only agents of the plan are admitted: those of the plan just submitted, or
\* those that an admission finds ready.
LEMMA AgentsToAdmitStays ==
  ASSUME IInv, [Next]_vars
  PROVE  AgentsToAdmit'
<1> SUFFICES ASSUME NEW n, n \in todo'
             PROVE  Known(n)' /\ payload'[n].kind = "agent"
  BY DEF AgentsToAdmit
<1>1. CASE n \in todo
  BY <1>1, RowsStay DEF IInv, AgentsToAdmit
<1>2. CASE LeadSubmits
  BY <1>2, JournalAssumption DEF LeadSubmits, J!AdmitPlan, J!Plans, Known
<1>3. CASE n \notin todo /\ ~LeadSubmits
  <2>1. n \in Agents
    <3> USE DEF durable, listVars, pumpVars, workVars, StartAdmission, Ready
    <3>1. CASE OutsideStep
      BY <1>3, <3>1
         DEF OutsideStep, AdmissionRefused, LeadReturns, LeadStops, CheckpointFails, PumpCancelled,
           ResumeApproved, ResumeFrontier, ResumeLead, RejectInterrupted, RestoreInterrupted,
           NothingToRestore, CheckpointRevises, Crash
    <3>2. CASE PumpStep
      BY <1>3, <3>2
         DEF PumpStep, AdmitCreatesTask, AdmitBinds, AdmitEnds, PersistDecision, ToolBegins,
           PumpWaits, PumpIdles, PumpWakes, CheckpointBegins, CheckpointReturns, CheckpointRuns,
           CheckpointMoves, CheckpointAdmits, CloseStops, CloseReads, CloseMoves, CloseTask, CloseEnds,
           RunCompletes, RunBlocks, RunInterrupted, SaveCheckpoint, RebuildAdmits, AdmitLaunches,
           BeginDispatch, ToolLaunches, CheckpointLaunches, CloseSettles, RebuildReconciles
    <3>3. ASSUME NEW m \in Node, WorkerStep(m)
          PROVE  todo' = todo
      BY <3>3
         DEF WorkerStep, KeepsMain, AgentAssigned, AgentStarts, AgentFailsOnce, AgentSettles,
           AgentUnroutable, AgentReads, AgentMoves, AgentReports, AgentRecords, ToolStarts,
           ToolRaises, ToolAsks, ToolSettles, ToolMoves, ToolRuns
    <3>4. CASE UNCHANGED vars
      BY <1>3, <3>4 DEF vars
    <3> QED BY <1>3, <3>1, <3>2, <3>3, <3>4 DEF Next
  <2>2. Known(n) /\ payload[n].kind = "agent"
    BY <2>1 DEF Agents, Known
  <2> QED BY <2>2, RowsStay
<1> QED BY <1>1, <1>2, <1>3

\* Only the lead changes what is part of the plan.
LEMMA PlanStays ==
  ASSUME [Next]_vars
  PROVE  active' = active \/ LeadSubmits \/ CheckpointRevises
<1>1. CASE ControlOnly \/ \E m \in Node : WorkerOnly(m)
  BY <1>1, ControlOnlyKeepsPlan, WorkerOnlyKeepsPlan DEF planVars
<1>2. CASE \/ LeadStops \/ ResumeApproved \/ ToolBegins
           \/ CheckpointBegins \/ CheckpointRuns \/ CheckpointReturns \/ CheckpointMoves \/ CloseMoves
           \/ \E m \in Node : \/ BeginDispatch(m) \/ AdmitLaunches(m) \/ ToolLaunches(m)
                             \/ CheckpointLaunches(m) \/ CloseSettles(m) \/ RebuildReconciles(m)
           \/ \E m \in Node : \/ AgentAssigned(m) \/ AgentSettles(m) \/ AgentUnroutable(m)
                             \/ AgentMoves(m) \/ ToolStarts(m) \/ ToolSettles(m) \/ ToolMoves(m)
  BY <1>2
     DEF LeadStops, ResumeApproved, ToolBegins, CheckpointBegins, CheckpointRuns, CheckpointReturns,
       CheckpointMoves, CloseMoves, BeginDispatch, AdmitLaunches, ToolLaunches, CheckpointLaunches,
       CloseSettles, RebuildReconciles, AgentAssigned, AgentSettles, AgentUnroutable, AgentMoves,
       ToolStarts, ToolSettles, ToolMoves, J!ReconcileUnlaunched, J!RetryApprovedTool,
       J!BeginExecution, J!Transition, J!SettleExecution, J!ReconcileNode, planVars
<1>3. CASE UNCHANGED vars
  BY <1>3 DEF vars, planVars
<1> QED
  BY <1>1, <1>2, <1>3 DEF Next, OutsideStep, PumpStep, WorkerStep, ControlOnly, WorkerOnly

\* How the two lists of dispatched agents change.
LEMMA ListsMove ==
  ASSUME [Next]_vars, admitted \subseteq dispatches
  PROVE  /\ \A n \in dispatches' : n \in dispatches \/ (AdmitBinds /\ n = cur /\ n \in admitted')
         /\ \A n \in admitted \cap dispatches' : n \in admitted' \/ BeginDispatch(n)
         /\ \A n \in admitted' : n \in admitted \/ AdmitBinds \/ main = "parked"
<1> USE DEF durable, listVars, pumpVars, workVars
<1>1. CASE OutsideStep
  BY <1>1
     DEF OutsideStep, LeadSubmits, AdmissionRefused, LeadReturns, LeadStops, CheckpointFails,
       PumpCancelled, ResumeApproved, ResumeFrontier, ResumeLead, RejectInterrupted,
       RestoreInterrupted, NothingToRestore, CheckpointRevises, Crash
<1>2. CASE AdmitBinds
  BY <1>2 DEF AdmitBinds
<1>3. CASE \E n \in Node : BeginDispatch(n)
  BY <1>3 DEF BeginDispatch
<1>4. CASE PumpStep /\ ~AdmitBinds /\ ~\E n \in Node : BeginDispatch(n)
  BY <1>4
     DEF PumpStep, AdmitCreatesTask, AdmitEnds, PersistDecision, ToolBegins, PumpWaits,
       PumpIdles, PumpWakes, CheckpointBegins, CheckpointReturns, CheckpointRuns,
       CheckpointMoves, CheckpointAdmits, CloseStops, CloseReads, CloseMoves, CloseTask, CloseEnds,
       RunCompletes, RunBlocks, RunInterrupted, SaveCheckpoint, RebuildAdmits, AdmitLaunches,
       ToolLaunches, CheckpointLaunches, CloseSettles, RebuildReconciles
<1>5. ASSUME NEW n \in Node, WorkerStep(n)
      PROVE  UNCHANGED listVars
  BY <1>5
     DEF WorkerStep, KeepsMain, AgentAssigned, AgentStarts, AgentFailsOnce, AgentSettles,
       AgentUnroutable, AgentReads, AgentMoves, AgentReports, AgentRecords, ToolStarts,
       ToolRaises, ToolAsks, ToolSettles, ToolMoves, ToolRuns
<1>6. CASE UNCHANGED vars
  BY <1>6 DEF vars
<1> QED BY <1>1, <1>2, <1>3, <1>4, <1>5, <1>6 DEF Next

\* The controller is at a node it has launched and not begun.
AtUnbegun == main \in Admitting \cup {"toolBegin", "ckBegin"}

LEMMA CurStaysUnbegun ==
  ASSUME IInv, [Next]_vars, AtUnbegun, main' \in Admitting \cup {"toolBegin", "ckBegin"}, cur' = cur
  PROVE  /\ cur \in active' /\ payload'[cur] = payload[cur]
         /\ status'[cur] = "launching" /\ exec'[cur] = "none"
<1>1. cur \in Node /\ Known(cur) /\ status[cur] = "launching" /\ exec[cur] = "none"
  BY JournalFacts DEF IInv, CurFits, CurIs, AtUnbegun, Admitting, Waking, Known
<1>2. ~Moves(cur)
  BY <1>1
     DEF Moves, AtUnbegun, Admitting, AdmitLaunches, ToolLaunches, CheckpointLaunches, BeginDispatch,
       PumpHasNothingToStart, RebuildReconciles, CheckpointRevises, ToolBegins, CheckpointBegins,
       CheckpointRuns, CheckpointMoves, CloseMoves, LeadStops, Goto
<1> QED BY <1>1, <1>2, UnbegunStays, RowsStay

LEMMA CurFitsStays ==
  ASSUME IInv, [Next]_vars
  PROVE  CurFits'
<1> USE DEF IInv, CurFits, CurIs
<1>0. CurFits
  OBVIOUS
<1>1. ASSUME main' \in Admitting
      PROVE  /\ CurIs("agent")' /\ status'[cur'] = "launching" /\ exec'[cur'] = "none"
  <2>1. ASSUME NEW n \in Node, AdmitLaunches(n)
        PROVE  /\ CurIs("agent")' /\ status'[cur'] = "launching" /\ exec'[cur'] = "none"
    <3>1. payload[n].kind = "agent" /\ J!Transition(n, "ready", "launching") /\ cur' = n
      BY <2>1 DEF AdmitLaunches, AgentsToAdmit
    <3> QED BY <3>1, JournalMoves, JournalFacts
  <2>2. CASE main \in Admitting /\ cur' = cur
    BY <1>0, <1>1, <2>2, CurStaysUnbegun DEF AtUnbegun
  <2> QED BY <1>1, <2>1, <2>2, ControllerIsAt
<1>2. ASSUME main' = "toolBegin"
      PROVE  /\ CurIs("tool")' /\ status'[cur'] = "launching" /\ exec'[cur'] = "none"
  <2>1. ASSUME NEW n \in Node, ToolLaunches(n)
        PROVE  /\ CurIs("tool")' /\ status'[cur'] = "launching" /\ exec'[cur'] = "none"
    <3>1. payload[n].kind = "tool" /\ J!Transition(n, "ready", "launching") /\ cur' = n
      BY <2>1 DEF ToolLaunches, Ready, Tools
    <3> QED BY <3>1, JournalMoves, JournalFacts
  <2>2. CASE main = "toolBegin" /\ cur' = cur
    BY <1>0, <1>2, <2>2, CurStaysUnbegun DEF AtUnbegun
  <2> QED BY <1>2, <2>1, <2>2, ControllerIsAt
<1>3. ASSUME main' \in Waking
      PROVE  /\ CurIs("checkpoint")' /\ admitted' = {}
             /\ main' = "ckBegin" => status'[cur'] = "launching" /\ exec'[cur'] = "none"
  <2>1. ASSUME NEW n \in Node, CheckpointLaunches(n)
        PROVE  /\ CurIs("checkpoint")' /\ admitted' = {}
               /\ status'[cur'] = "launching" /\ exec'[cur'] = "none"
    <3>1. /\ payload[n].kind = "checkpoint" /\ J!Transition(n, "ready", "launching") /\ cur' = n
          /\ admitted' = {}
      BY <2>1 DEF CheckpointLaunches, PumpHasNothingToStart, Ready, Checkpoints, listVars
    <3> QED BY <3>1, JournalMoves, JournalFacts
  <2>2. CASE main \in Waking /\ cur' = cur /\ ~\E n \in Node : CheckpointLaunches(n)
    <3>1. cur \in active /\ payload[cur].kind = "checkpoint" /\ admitted = {}
      BY <1>0, <2>2
    <3>2. cur \in active'
      BY <2>2, <3>1, PlanStays
         DEF Waking, LeadSubmits, CheckpointRevises, J!RevisePlan, J!Replaced
    <3>3. payload'[cur] = payload[cur]
      BY <3>1, RowsStay DEF Known
    <3>4. admitted' = {}
      BY <2>2, <3>1, ListsMove DEF RunTyped, Waking, AdmitBinds
    <3>5. main' = "ckBegin" => status'[cur] = "launching" /\ exec'[cur] = "none"
      BY <2>2, ControllerIsAt, CurStaysUnbegun DEF AtUnbegun
    <3> QED BY <2>2, <3>1, <3>2, <3>3, <3>4, <3>5
  <2> QED BY <1>3, <2>1, <2>2, ControllerIsAt
<1>4. ASSUME main' \in {"closeRead", "closeMove", "closeTask"}
      PROVE  cur' \in running'
  BY <1>0, <1>4, ControllerIsAt DEF CloseSettles
<1> QED BY <1>1, <1>2, <1>3, <1>4 DEF Waking

\* What the pump's dict takes in.
LEMMA RunningGrows ==
  ASSUME [Next]_vars, NEW n, n \in running'
  PROVE  n \in running \/ (n \in Node /\ BeginDispatch(n)) \/ (ToolBegins /\ n = cur)
<1> USE DEF durable, listVars, pumpVars, workVars
<1>1. CASE OutsideStep
  BY <1>1
     DEF OutsideStep, LeadSubmits, AdmissionRefused, LeadReturns, LeadStops, CheckpointFails,
       PumpCancelled, ResumeApproved, ResumeFrontier, ResumeLead, RejectInterrupted,
       RestoreInterrupted, NothingToRestore, CheckpointRevises, Crash
<1>2. CASE ToolBegins \/ \E m \in Node : BeginDispatch(m)
  BY <1>2 DEF ToolBegins, BeginDispatch
<1>3. CASE PumpStep /\ ~ToolBegins /\ ~\E m \in Node : BeginDispatch(m)
  BY <1>3
     DEF PumpStep, AdmitCreatesTask, AdmitBinds, AdmitEnds, PersistDecision, PumpWaits,
       PumpIdles, PumpWakes, CheckpointBegins, CheckpointReturns, CheckpointRuns,
       CheckpointMoves, CheckpointAdmits, CloseStops, CloseReads, CloseMoves, CloseTask, CloseEnds,
       RunCompletes, RunBlocks, RunInterrupted, SaveCheckpoint, RebuildAdmits, AdmitLaunches,
       ToolLaunches, CheckpointLaunches, CloseSettles, RebuildReconciles
<1>4. ASSUME NEW m \in Node, WorkerStep(m)
      PROVE  running' = running
  BY <1>4
     DEF WorkerStep, KeepsMain, AgentAssigned, AgentStarts, AgentFailsOnce, AgentSettles,
       AgentUnroutable, AgentReads, AgentMoves, AgentReports, AgentRecords, ToolStarts,
       ToolRaises, ToolAsks, ToolSettles, ToolMoves, ToolRuns
<1>5. CASE UNCHANGED vars
  BY <1>5 DEF vars
<1> QED BY <1>1, <1>2, <1>3, <1>4, <1>5 DEF Next

\* An agent keeps its execution row: the retry is of the tool in the slot.
LEMMA AgentsExecutionStays ==
  ASSUME IInv, [Next]_vars, NEW n \in Node, payload[n].kind = "agent", exec[n] # "none"
  PROVE  exec'[n] # "none"
BY ExecutionsStay, RetryAllowed

LEMMA RunningBegunStays ==
  ASSUME IInv, [Next]_vars
  PROVE  RunningBegun'
<1> USE DEF IInv, RunningBegun
<1> SUFFICES ASSUME NEW n, n \in running'
             PROVE  Known(n)' /\ (payload'[n].kind = "agent" => exec'[n] # "none")
  OBVIOUS
<1>1. CASE n \in running
  BY <1>1, RowsStay, AgentsExecutionStays DEF RunTyped
<1>2. CASE n \in Node /\ BeginDispatch(n)
  <2>1. Known(n)
    BY <1>2 DEF BeginDispatch, RunTyped, Dispatched
  <2>2. exec'[n] # "none"
    BY <1>2, JournalFacts DEF BeginDispatch, J!BeginExecution, planVars
  <2> QED BY <2>1, <2>2, RowsStay
<1>3. CASE ToolBegins /\ n = cur
  <2>1. Known(n) /\ payload[n].kind = "tool"
    BY <1>3 DEF ToolBegins, CurFits, CurIs, Known
  <2> QED BY <2>1, RowsStay
<1> QED BY <1>1, <1>2, <1>3, RunningGrows

LEMMA DispatchedStays ==
  ASSUME IInv, [Next]_vars
  PROVE  Dispatched'
<1> USE DEF IInv
<1> SUFFICES ASSUME NEW n, n \in dispatches'
             PROVE  /\ Known(n)' /\ payload'[n].kind = "agent"
                    /\ exec'[n] = "none" =>
                         n \in admitted' /\ n \in active' /\ status'[n] = "launching"
  BY DEF Dispatched
<1>1. CASE n \in dispatches
  <2>1. n \in Node /\ Known(n) /\ payload[n].kind = "agent"
    BY <1>1 DEF Dispatched, RunTyped
  <2>2. Known(n)' /\ payload'[n] = payload[n]
    BY <2>1, RowsStay
  <2>3. ASSUME exec'[n] = "none"
        PROVE  n \in admitted' /\ n \in active' /\ status'[n] = "launching"
    <3>1. exec[n] = "none"
      BY <2>1, <2>3, AgentsExecutionStays
    <3>2. n \in admitted /\ n \in active /\ status[n] = "launching"
      BY <1>1, <3>1 DEF Dispatched
    <3>3. ~BeginDispatch(n)
      BY <2>3, <3>1, JournalFacts, <2>1 DEF BeginDispatch, J!BeginExecution
    <3>4. ~Moves(n)
      <4>1. ~(AdmitLaunches(n) \/ ToolLaunches(n) \/ CheckpointLaunches(n) \/ BeginDispatch(n))
        BY <3>2, <3>3 DEF AdmitLaunches, ToolLaunches, CheckpointLaunches, Ready, J!Transition
      <4>2. ~RebuildReconciles(n)
        BY <1>1 DEF RebuildReconciles, Ambiguous
      <4>3. ~CheckpointRevises
        BY <3>2 DEF CheckpointRevises, CurFits, Waking
      <4>4. cur # n \/ ~(ToolBegins \/ CheckpointBegins \/ CheckpointRuns \/ CheckpointMoves)
        BY <2>1
           DEF ToolBegins, CheckpointBegins, CheckpointRuns, CheckpointMoves, CurFits, CurIs, Waking
      <4>5. cur # n \/ ~CloseMoves
        BY <2>1, <3>1 DEF CloseMoves, CurFits, RunningBegun
      <4>6. ~LeadStops
        BY DEF LeadStops
      <4> QED BY <4>1, <4>2, <4>3, <4>4, <4>5, <4>6 DEF Moves
    <3>5. n \in admitted'
      BY <3>2, <3>3, ListsMove DEF RunTyped
    <3> QED BY <2>1, <3>1, <3>2, <3>4, <3>5, UnbegunStays
  <2> QED BY <2>1, <2>2, <2>3
<1>2. CASE AdmitBinds /\ n = cur /\ n \in admitted'
  BY <1>2, JournalFacts
     DEF AdmitBinds, CurFits, CurIs, Admitting, Known, planVars
<1> QED BY <1>1, <1>2, ListsMove DEF RunTyped

\* How an interrupt comes into the slot; while it waits there the run that is
\* parked with it stays parked.
LEMMA SlotMoves ==
  ASSUME [Next]_vars, slot' # NoNode
  PROVE  \/ \E n \in Node : ToolAsks(n) /\ slot' = n
         \/ RestoreInterrupted
         \/ slot' = slot /\ (main = "parked" => main' = "parked")
<1> USE DEF durable, listVars, pumpVars, workVars, Goto
<1>1. CASE OutsideStep
  BY <1>1
     DEF OutsideStep, LeadSubmits, AdmissionRefused, LeadReturns, LeadStops, CheckpointFails,
       PumpCancelled, ResumeApproved, ResumeFrontier, ResumeLead, RejectInterrupted,
       NothingToRestore, CheckpointRevises, Crash
<1>2. CASE PumpStep
  BY <1>2
     DEF PumpStep, AdmitCreatesTask, AdmitBinds, AdmitEnds, PersistDecision, ToolBegins, PumpWaits,
       PumpIdles, PumpWakes, PumpHasNothingToStart, CheckpointBegins, CheckpointReturns,
       CheckpointRuns, CheckpointMoves, CheckpointAdmits, CloseStops, CloseReads, CloseMoves,
       CloseTask, CloseEnds, RunCompletes, RunBlocks, RunInterrupted, SaveCheckpoint, RebuildAdmits,
       AdmitLaunches, BeginDispatch, ToolLaunches, CheckpointLaunches, CloseSettles,
       RebuildReconciles, StartAdmission
<1>3. ASSUME NEW n \in Node, WorkerStep(n)
      PROVE  (ToolAsks(n) /\ slot' = n) \/ UNCHANGED <<main, slot>>
  BY <1>3
     DEF WorkerStep, KeepsMain, AgentAssigned, AgentStarts, AgentFailsOnce, AgentSettles,
       AgentUnroutable, AgentReads, AgentMoves, AgentReports, AgentRecords, ToolStarts,
       ToolRaises, ToolAsks, ToolSettles, ToolMoves, ToolRuns
<1>4. CASE UNCHANGED vars
  BY <1>4 DEF vars
<1> QED BY <1>1, <1>2, <1>3, <1>4 DEF Next

LEMMA SlottedStays ==
  ASSUME IInv, [Next]_vars
  PROVE  Slotted'
<1> USE DEF IInv
<1> SUFFICES ASSUME slot' # NoNode
             PROVE  /\ ToBeApproved(slot)'
                    /\ exec'[slot'] = "none" =>
                         main' = "parked" /\ status'[slot'] \in {"ready", "launching"}
  BY DEF Slotted
<1>1. ASSUME NEW n \in Node, ToolAsks(n), slot' = n
      PROVE  ToBeApproved(n)' /\ exec'[n] # "none"
  <2>1. worker[n] = "ranTool" /\ exec[n] # "none" /\ payload[n].kind = "tool"
    BY <1>1 DEF ToolAsks, Phase, WorkersBegun, CommandsAreTools
  <2> QED BY <1>1, <2>1, WorkersRowStays DEF ToolAsks, planVars, ToBeApproved
<1>2. CASE RestoreInterrupted
  <2>1. /\ UNCHANGED planVars /\ slot' = ref /\ ref \in Node /\ main = "down" /\ main' = "parked"
        /\ ToBeApproved(ref)
    BY <1>2 DEF RestoreInterrupted, Goto, Referred
  <2>2. ToBeApproved(slot)'
    BY <2>1 DEF ToBeApproved, Known, planVars
  <2> QED BY <2>1, <2>2 DEF Referred, planVars
<1>3. CASE slot' = slot /\ (main = "parked" => main' = "parked")
  <2>1. slot \in Node /\ Known(slot) /\ payload[slot].kind = "tool"
    BY <1>3, JournalFacts DEF Slotted, ToBeApproved, Known
  <2>2. ToBeApproved(slot)'
    BY <1>3, <2>1, RowsStay DEF ToBeApproved
  <2>3. ASSUME exec'[slot] = "none"
        PROVE  main' = "parked" /\ status'[slot] \in {"ready", "launching"}
    <3>1. exec[slot] = "none"
      BY <1>3, <2>1, <2>3, ExecutionsStay, NoNodeAssumption DEF ResumeApproved
    <3>2. main = "parked" /\ status[slot] \in {"ready", "launching"}
      BY <1>3, <3>1 DEF Slotted
    <3>3. ~Moves(slot)
      BY <3>2
         DEF Moves, AdmitLaunches, ToolLaunches, CheckpointLaunches, BeginDispatch,
           PumpHasNothingToStart, RebuildReconciles, CheckpointRevises, ToolBegins, CheckpointBegins,
           CheckpointRuns, CheckpointMoves, CloseMoves, LeadStops
    <3> QED BY <1>3, <2>1, <3>1, <3>2, <3>3, UnbegunStays
  <2> QED BY <1>3, <2>2, <2>3
<1> QED BY <1>1, <1>2, <1>3, SlotMoves

\* The latest checkpoint reference is rewritten at the end of a turn, or with
\* the interrupt in the slot.
LEMMA RefMoves ==
  ASSUME [Next]_vars, ref' \in Node
  PROVE  ref' = ref \/ (SaveCheckpoint /\ ref' = slot)
<1> USE BoundaryAssumption DEF Boundaries, durable
<1>1. CASE OutsideStep
  BY <1>1
     DEF OutsideStep, LeadSubmits, AdmissionRefused, LeadReturns, LeadStops, CheckpointFails,
       PumpCancelled, ResumeApproved, ResumeFrontier, ResumeLead, RejectInterrupted,
       RestoreInterrupted, NothingToRestore, CheckpointRevises, Crash
<1>2. CASE PumpStep
  BY <1>2
     DEF PumpStep, AdmitCreatesTask, AdmitBinds, AdmitEnds, PersistDecision, ToolBegins, PumpWaits,
       PumpIdles, PumpWakes, CheckpointBegins, CheckpointReturns,
       CheckpointRuns, CheckpointMoves, CheckpointAdmits, CloseStops, CloseReads, CloseMoves,
       CloseTask, CloseEnds, RunCompletes, RunBlocks, RunInterrupted, SaveCheckpoint, RebuildAdmits,
       AdmitLaunches, BeginDispatch, ToolLaunches, CheckpointLaunches, CloseSettles,
       RebuildReconciles
<1>3. ASSUME NEW n \in Node, WorkerStep(n)
      PROVE  ref' = ref
  BY <1>3
     DEF WorkerStep, KeepsMain, AgentAssigned, AgentStarts, AgentFailsOnce, AgentSettles,
       AgentUnroutable, AgentReads, AgentMoves, AgentReports, AgentRecords, ToolStarts,
       ToolRaises, ToolAsks, ToolSettles, ToolMoves, ToolRuns
<1>4. CASE UNCHANGED vars
  BY <1>4 DEF vars
<1> QED BY <1>1, <1>2, <1>3, <1>4 DEF Next

\* The ways out of the places where a tool may be left launching.
LEMMA LaunchingIsLeft ==
  ASSUME [Next]_vars
  PROVE  /\ main = "toolBegin" => ToolBegins \/ main' = "down" \/ UNCHANGED <<main, cur>>
         /\ main \in {"down", "off"} => main' \in {"down", "off"} \/ RestoreInterrupted
         /\ main = "parked" /\ slot # NoNode =>
              ResumeApproved \/ main' \in {"down", "off"} \/ UNCHANGED <<main, slot>>
<1> USE DEF durable, listVars, pumpVars, workVars, Goto
<1>1. CASE OutsideStep
  BY <1>1
     DEF OutsideStep, LeadSubmits, AdmissionRefused, LeadReturns, LeadStops, CheckpointFails,
       PumpCancelled, ResumeFrontier, ResumeLead, RejectInterrupted,
       RestoreInterrupted, NothingToRestore, CheckpointRevises, Crash, ResumeApproved
<1>2. CASE PumpStep
  BY <1>2
     DEF PumpStep, AdmitCreatesTask, AdmitBinds, AdmitEnds, PersistDecision, PumpWaits, ToolBegins,
       PumpIdles, PumpWakes, PumpHasNothingToStart, CheckpointBegins, CheckpointReturns,
       CheckpointRuns, CheckpointMoves, CheckpointAdmits, CloseStops, CloseReads, CloseMoves,
       CloseTask, CloseEnds, RunCompletes, RunBlocks, RunInterrupted, SaveCheckpoint, RebuildAdmits,
       AdmitLaunches, BeginDispatch, ToolLaunches, CheckpointLaunches, CloseSettles,
       RebuildReconciles, StartAdmission
<1>3. ASSUME NEW n \in Node, WorkerStep(n)
      PROVE  UNCHANGED <<main, cur, slot>> \/ (main = "waiting" /\ main' = main)
  BY <1>3
     DEF WorkerStep, KeepsMain, AgentAssigned, AgentStarts, AgentFailsOnce, AgentSettles,
       AgentUnroutable, AgentReads, AgentMoves, AgentReports, AgentRecords, ToolStarts,
       ToolRaises, ToolAsks, ToolSettles, ToolMoves, ToolRuns, LoopIsFree
<1>4. CASE UNCHANGED vars
  BY <1>4 DEF vars
<1> QED BY <1>1, <1>2, <1>3, <1>4 DEF Next

LEMMA ReferredStays ==
  ASSUME IInv, [Next]_vars
  PROVE  Referred'
<1> USE DEF IInv
<1>1. ASSUME main' = "checkpoint"
      PROVE  ref' \notin Node
  <2>1. CASE CheckpointRuns
    BY <2>1, BoundaryAssumption DEF CheckpointRuns, Boundaries
  <2>2. CASE main = "checkpoint"
    BY <2>2, RefMoves DEF Referred, SaveCheckpoint
  <2> QED BY <1>1, <2>1, <2>2, ControllerIsAt
<1>2. ASSUME ref' \in Node, SaveCheckpoint, ref' = slot
      PROVE  ToBeApproved(ref)' /\ exec'[ref'] # "none"
  <2>1. slot # NoNode /\ ToBeApproved(slot) /\ exec[slot] # "none" /\ UNCHANGED planVars
    BY <1>2, NoNodeAssumption DEF SaveCheckpoint, Slotted
  <2> QED BY <1>2, <2>1 DEF planVars, ToBeApproved, Known
<1>3. ASSUME ref' \in Node, ref' = ref
      PROVE  /\ ToBeApproved(ref)'
             /\ exec'[ref] = "none" =>
                  \/ status'[ref] = "ready"
                  \/ /\ status'[ref] = "launching"
                     /\ \/ main' = "toolBegin" /\ cur' = ref
                        \/ main' \in {"down", "off"}
                        \/ main' = "parked" /\ slot' = ref
  <2>1. ref \in Node /\ Known(ref) /\ payload[ref].kind = "tool" /\ ref # NoNode
    BY <1>3, NoNodeAssumption DEF Referred, ToBeApproved
  <2>2. ToBeApproved(ref)'
    BY <1>3, <2>1, RowsStay DEF ToBeApproved
  <2>3. CASE exec[ref] # "none"
    <3>1. exec'[ref] # "none" \/ (ResumeApproved /\ slot = ref)
      BY <2>1, <2>3, ExecutionsStay
    <3>2. ResumeApproved /\ slot = ref => status'[ref] = "ready"
      BY <2>1, JournalFacts DEF ResumeApproved, J!RetryApprovedTool
    <3> QED BY <2>2, <3>1, <3>2
  <2>4. CASE exec[ref] = "none" /\ ToolLaunches(ref)
    BY <2>2, <2>4, JournalMoves DEF ToolLaunches, Goto
  <2>5. CASE exec[ref] = "none" /\ cur = ref /\ CloseMoves
    <3>1. status[ref] = "ready"
      BY <1>3, <2>5 DEF CloseMoves, Referred
    <3>2. status' = status
      BY <2>5, <3>1 DEF CloseMoves, J!Transition, J!Launched, planVars
    <3> QED BY <2>2, <3>1, <3>2
  <2>6. CASE exec[ref] = "none" /\ cur = ref /\ ToolBegins
    BY <2>1, <2>2, <2>6, JournalFacts DEF ToolBegins, J!BeginExecution
  <2>7. CASE /\ exec[ref] = "none" /\ ~ToolLaunches(ref)
             /\ ~(cur = ref /\ (CloseMoves \/ ToolBegins))
    <3>1. \/ status[ref] = "ready"
          \/ /\ status[ref] = "launching"
             /\ \/ main = "toolBegin" /\ cur = ref
                \/ main \in {"down", "off"}
                \/ main = "parked" /\ slot = ref
      BY <1>3, <2>7 DEF Referred
    <3>2. ~Moves(ref)
      <4>1. ~AdmitLaunches(ref) /\ ~CheckpointLaunches(ref) /\ ~BeginDispatch(ref)
        BY <2>1 DEF AdmitLaunches, AgentsToAdmit, CheckpointLaunches, Ready, Checkpoints,
             BeginDispatch, RunTyped, Dispatched
      <4>2. ~RebuildReconciles(ref)
        BY <3>1 DEF RebuildReconciles, Ambiguous, J!Launched
      <4>3. ~CheckpointRevises
        BY <1>3 DEF CheckpointRevises, Referred
      <4>4. cur # ref \/ ~(CheckpointBegins \/ CheckpointRuns \/ CheckpointMoves)
        BY <2>1 DEF CheckpointBegins, CheckpointRuns, CheckpointMoves, CurFits, CurIs, Waking
      <4>5. ref \notin admitted
        BY <2>1 DEF RunTyped, Dispatched
      <4> QED BY <2>7, <4>1, <4>2, <4>3, <4>4, <4>5 DEF Moves
    <3>3. exec'[ref] = "none" /\ status'[ref] = status[ref]
      BY <2>1, <2>7, <3>1, <3>2, UnbegunStays
    <3>4. ASSUME status[ref] = "launching"
          PROVE  \/ main' = "toolBegin" /\ cur' = ref
                 \/ main' \in {"down", "off"}
                 \/ main' = "parked" /\ slot' = ref
      <4>1. CASE main = "toolBegin" /\ cur = ref
        BY <2>7, <4>1, LaunchingIsLeft
      <4>2. CASE main \in {"down", "off"}
        BY <1>3, <4>2, LaunchingIsLeft DEF RestoreInterrupted, Goto
      <4>3. CASE main = "parked" /\ slot = ref
        BY <2>1, <3>4, <4>3, LaunchingIsLeft DEF ResumeApproved, J!RetryApprovedTool
      <4> QED BY <3>1, <3>4, <4>1, <4>2, <4>3
    <3> QED BY <2>2, <3>1, <3>3, <3>4
  <2> QED BY <2>3, <2>4, <2>5, <2>6, <2>7
<1> QED BY <1>1, <1>2, <1>3, RefMoves DEF Referred

\* Who counts a start, queues a task, and sets an attempt back to the first.
LEMMA CountsMove ==
  ASSUME IInv, [Next]_vars, NEW n \in Node
  PROVE  /\ ran'[n] = ran[n] \/ WorkerStep(n)
         /\ task'[n] = "queued" => task[n] = "queued" \/ (AdmitCreatesTask /\ n = cur)
         /\ attempt'[n] = attempt[n] \/ AgentFailsOnce(n) \/ worker'[n] = "none"
<1> USE DEF IInv, RunTyped, durable, listVars, pumpVars, workVars
<1>1. CASE OutsideStep
  BY <1>1
     DEF OutsideStep, LeadSubmits, AdmissionRefused, LeadReturns, LeadStops, CheckpointFails,
       PumpCancelled, ResumeApproved, ResumeFrontier, ResumeLead, RejectInterrupted,
       RestoreInterrupted, NothingToRestore, CheckpointRevises, Crash
<1>2. CASE AdmitCreatesTask
  BY <1>2 DEF AdmitCreatesTask
<1>3. CASE PumpStep /\ ~AdmitCreatesTask
  BY <1>3
     DEF PumpStep, AdmitBinds, AdmitEnds, PersistDecision, ToolBegins, PumpWaits,
       PumpIdles, PumpWakes, CheckpointBegins, CheckpointReturns,
       CheckpointRuns, CheckpointMoves, CheckpointAdmits, CloseStops, CloseReads, CloseMoves,
       CloseTask, CloseEnds, RunCompletes, RunBlocks, RunInterrupted, SaveCheckpoint, RebuildAdmits,
       AdmitLaunches, BeginDispatch, ToolLaunches, CheckpointLaunches, CloseSettles,
       RebuildReconciles
<1>4. ASSUME NEW m \in Node, WorkerStep(m)
      PROVE  /\ ran'[n] = ran[n] \/ m = n
             /\ task'[n] = "queued" => task[n] = "queued"
             /\ attempt'[n] = attempt[n] \/ AgentFailsOnce(n)
  <2>1. CASE ~\E r \in AgentResults : AgentRecords(m, r)
    BY <1>4, <2>1
       DEF WorkerStep, AgentAssigned, AgentStarts, AgentFailsOnce, AgentSettles, AgentUnroutable,
         AgentReads, AgentMoves, AgentReports, ToolStarts, ToolRaises, ToolAsks, ToolSettles,
         ToolMoves, ToolRuns
  <2>2. CASE \E r \in AgentResults : AgentRecords(m, r)
    BY <2>2, ResultsAssumption DEF AgentRecords
  <2> QED BY <2>1, <2>2
<1>5. CASE UNCHANGED vars
  BY <1>5 DEF vars
<1> QED BY <1>1, <1>2, <1>3, <1>4, <1>5 DEF Next

LEMMA LaunchesStays ==
  ASSUME IInv, [Next]_vars
  PROVE  Launches'
<1> USE DEF IInv
<1> SUFFICES ASSUME NEW n \in Node
             PROVE  /\ ran'[n] > 0 => Known(n)'
                    /\ payload'[n].kind = "agent" =>
                         /\ ran'[n] <= 1
                         /\ ran'[n] > 0 => exec'[n] # "none" /\ task'[n] # "queued"
                         /\ worker'[n] \in {"spawned", "started"} /\ attempt'[n] = 1 => ran'[n] = 0
  BY DEF Launches
<1>1. ran[n] \in Nat /\ attempt[n] \in 1..2
  BY DEF RunTyped
<1>2. WorkerStep(n) => worker[n] # "none"
  BY DEF WorkerStep, AgentAssigned, AgentStarts, AgentFailsOnce, AgentSettles, AgentUnroutable,
    AgentReads, AgentMoves, AgentReports, AgentRecords, ToolStarts, ToolRaises, ToolAsks,
    ToolSettles, ToolMoves, ToolRuns, Phase
<1>3. CASE ~Known(n)
  <2>1. ran[n] = 0 /\ worker[n] = "none"
    BY <1>1, <1>3, WorkersRowStays DEF Launches
  <2>2. ran'[n] = 0
    BY <1>2, <2>1, CountsMove
  <2> QED BY <2>2
<1>4. CASE Known(n)
  <2>1. Known(n)' /\ payload'[n] = payload[n]
    BY <1>4, RowsStay
  <2> SUFFICES ASSUME payload[n].kind = "agent"
               PROVE  /\ ran'[n] <= 1
                      /\ ran'[n] > 0 => exec'[n] # "none" /\ task'[n] # "queued"
                      /\ worker'[n] \in {"spawned", "started"} /\ attempt'[n] = 1 => ran'[n] = 0
    BY <2>1
  <2>2. /\ ran[n] <= 1
        /\ ran[n] > 0 => exec[n] # "none" /\ task[n] # "queued"
        /\ worker[n] \in {"spawned", "started"} /\ attempt[n] = 1 => ran[n] = 0
    BY DEF Launches
  <2>3. exec[n] # "none" => exec'[n] # "none"
    BY AgentsExecutionStays
  <2>4. CASE AgentStarts(n)
    <3>1. exec[n] # "none"
      BY <2>4 DEF AgentStarts, Phase, WorkersBegun
    <3> QED BY <1>1, <2>2, <2>3, <2>4, <3>1 DEF AgentStarts, Phase, RunTyped
  <2>5. CASE ~AgentStarts(n)
    <3>1. ran'[n] = ran[n]
      BY <2>5, CountsMove
         DEF WorkerStep, AgentAssigned, AgentFailsOnce, AgentSettles, AgentUnroutable,
           AgentReads, AgentMoves, AgentReports, AgentRecords, ToolStarts, ToolRaises, ToolAsks,
           ToolSettles, ToolMoves, ToolRuns, IsTool
    <3>2. ran[n] > 0 => task'[n] # "queued"
      BY <2>2, CountsMove DEF AdmitCreatesTask, CurFits, Admitting
    <3>3. ASSUME worker'[n] \in {"spawned", "started"}, attempt'[n] = 1
          PROVE  ran[n] = 0
      <4>1. attempt[n] = 1
        BY <3>3, CountsMove DEF AgentFailsOnce, RunTyped
      <4>2. CASE BeginDispatch(n)
        BY <1>1, <2>2, <3>3, <4>2 DEF BeginDispatch, RunTyped
      <4>3. CASE ToolBegins /\ cur = n
        BY <4>3 DEF ToolBegins, CurFits, CurIs
      <4>4. CASE WorkerStep(n) \/ worker'[n] = worker[n]
        <5>1. worker[n] \in {"spawned", "started"}
          BY <2>5, <3>3, <4>1, <4>4
             DEF WorkerStep, AgentAssigned, AgentFailsOnce, AgentSettles, AgentUnroutable,
               AgentReads, AgentMoves, AgentReports, AgentRecords, ToolStarts, ToolRaises, ToolAsks,
               ToolSettles, ToolMoves, ToolRuns, Phase, Ends, RunTyped
        <5> QED BY <2>2, <4>1, <5>1
      <4> QED BY <3>3, <4>2, <4>3, <4>4, WhoMovesAWorker
    <3> QED BY <2>2, <2>3, <3>1, <3>2, <3>3
  <2> QED BY <2>4, <2>5
<1> QED BY <1>3, <1>4

-----------------------------------------------------------------------------
LEMMA InitIInv == Init => IInv
<1> SUFFICES ASSUME Init PROVE IInv
  OBVIOUS
<1>1. JInv
  BY JournalInit DEF Init
<1> QED
  BY <1>1, BoundaryAssumption
     DEF Init, IInv, RunTyped, Phases, Values, WorkersBegun, CommandsAreTools, HasOutcome,
       AgentsToAdmit, CurFits, Admitting, Waking, RunningBegun, Dispatched, Slotted, Referred,
       Boundaries, Launches

LEMMA NextIInv == IInv /\ [Next]_vars => IInv'
<1> SUFFICES ASSUME IInv, [Next]_vars PROVE IInv'
  OBVIOUS
<1>1. JInv'
  BY StepIsJournal, JournalNext DEF IInv
<1> QED
  BY <1>1, RunTypedStays, WorkersBegunStays, CommandsAreToolsStays, HasOutcomeStays,
     AgentsToAdmitStays, CurFitsStays, RunningBegunStays, DispatchedStays, SlottedStays,
     ReferredStays, LaunchesStays
     DEF IInv

THEOREM Invariance == Spec => []IInv
BY InitIInv, NextIInv, PTL DEF Spec

\* The run is an implementation of the journal's specification, with the
\* identity for a refinement mapping: whatever crashes, restarts, resumes and
\* threads that outlive their pump do, an execution is only begun for a
\* launched node and only a begun tool is retried.
THEOREM RunImplementsJournal == Spec => ImplementsJournal
<1>1. Init => J!Init
  BY DEF Init
<1>2. IInv /\ [Next]_vars => [J!Next]_planVars
  BY StepIsJournal
<1> QED BY <1>1, <1>2, Invariance, PTL DEF Spec, ImplementsJournal, J!Spec, planVars, J!planVars

\* No agent of the plan is started twice, through any number of crashes and
\* resumes (FEATURES.md:764).
THEOREM AgentsLaunchOnce == Spec => []AgentLaunchesOnce
<1>1. IInv => AgentLaunchesOnce
  BY DEF IInv, Launches, AgentLaunchesOnce
<1> QED BY <1>1, Invariance, PTL

\* Hence what the journal guarantees holds of a run: no node is launched before
\* its prerequisites succeeded, and none is left waiting for ones that have.
THEOREM RunRespectsDependencies ==
  Spec => [](J!DependenciesSucceeded /\ J!NoLostRelease)
<1>1. IInv => J!DependenciesSucceeded /\ J!NoLostRelease
  BY DEF IInv, JInv, JP!IInv, JP!DependenciesSucceeded, JP!NoLostRelease,
    J!DependenciesSucceeded, J!NoLostRelease
<1> QED BY <1>1, Invariance, PTL

-----------------------------------------------------------------------------
(* The task rows and the plan, in a run that was never resumed.              *)

FirstStages ==
  {"lead", "admit", "admitTask", "admitBind", "persist", "pump", "toolBegin", "waiting", "ckBegin",
   "ckRun", "checkpoint", "ckMove", "ckAdmit", "finish"}

\* The first process drives the run, and neither stops nor closes it.
First == main \in FirstStages /\ ~resumed

\* What the task row, or the node, says of success is what the worker has to say.
TaskTold(n) == (task[n] = "succeeded") <=> (out[n] = "succeeded")
NodeTold(n) == (status[n] = "succeeded") <=> (out[n] = "succeeded")

\* Where the task row and the node of an agent stand, by the phase of its worker: the task
\* is written first, and the node moves while the worker settles.
Agree(n) ==
  /\ worker[n] \in {"none", "done", "raised"} =>
       ((task[n] = "succeeded") <=> (status[n] = "succeeded"))
  /\ worker[n] \in {"spawned", "started", "working"} => task[n] # "succeeded"
  /\ worker[n] \in {"spawned", "started", "working", "recorded", "settled"} =>
       status[n] \in J!Launched
  /\ worker[n] \in {"recorded", "settled", "moving", "moved"} => TaskTold(n)
  /\ worker[n] = "moving" => view[n] = status[n] /\ (status[n] \in J!Launched \/ NodeTold(n))
  /\ worker[n] = "moved" => NodeTold(n)

BoundAgree ==
  First => \A n \in Agents \cap bound :
             status[n] \notin {"absent", "waiting", "ready"} /\ Agree(n)

BoundKnown == \A n \in bound : Known(n)

\* The pump comes to a dispatched agent once, and finds it as it was admitted.
QueuedOnce ==
  First => /\ \A n \in admitted : n \in bound /\ exec[n] = "none" /\ task[n] = "queued"
           /\ main = "admitBind" => task[cur] = "queued"

\* A worker is in the pump's dict, which is empty when the lead is called again and at
\* the end.
WorkersListed == First => \A n \in Node : worker[n] # "none" => n \in running
PumpRested ==
  /\ First /\ main \in Waking \cup {"ckAdmit", "finish"} => running = {}
  /\ First /\ main \in Admitting \cup {"admit"} /\ ret = "idle" => running = {}

\* Only a resumption rebuilds.
RebuildResumed == main = "rebuild" => resumed

TInv ==
  /\ BoundAgree /\ BoundKnown /\ QueuedOnce /\ WorkersListed /\ PumpRested /\ RebuildResumed
  /\ DOMAIN view = Node

\* The steps of a run that goes on by itself: those that write neither plan nor tasks, those
\* of the plan's other nodes, and the rest.
QuietSteps ==
  \/ AdmissionRefused \/ LeadReturns \/ AdmitEnds \/ PersistDecision \/ PumpWaits \/ PumpIdles
  \/ CheckpointAdmits
CheckpointSteps ==
  CheckpointBegins \/ CheckpointRuns \/ CheckpointReturns \/ CheckpointMoves \/ CheckpointRevises
LaunchSteps(n) == AdmitLaunches(n) \/ ToolLaunches(n) \/ CheckpointLaunches(n)

LEMMA FirstSteps ==
  ASSUME [Next]_vars, RebuildResumed, First'
  PROVE  /\ First
         /\ \/ QuietSteps \/ CheckpointSteps \/ LeadSubmits
            \/ AdmitCreatesTask \/ AdmitBinds \/ ToolBegins \/ PumpWakes
            \/ \E n \in Node : LaunchSteps(n) \/ BeginDispatch(n) \/ WorkerStep(n)
            \/ UNCHANGED vars
<1> USE DEF First, FirstStages, Goto, pumpVars
<1>1. CASE OutsideStep
  BY <1>1
     DEF OutsideStep, LeadSubmits, AdmissionRefused, LeadReturns, LeadStops, CheckpointRevises,
       CheckpointFails, PumpCancelled, ResumeApproved, ResumeFrontier, ResumeLead, RejectInterrupted,
       Crash, RestoreInterrupted, NothingToRestore, QuietSteps, CheckpointSteps
<1>2. CASE QuietSteps
  BY <1>2
     DEF QuietSteps, AdmissionRefused, LeadReturns, AdmitEnds, PersistDecision, PumpWaits, PumpIdles,
       CheckpointAdmits, StartAdmission, PumpHasNothingToStart
<1>3. CASE CheckpointSteps \/ AdmitCreatesTask \/ AdmitBinds \/ ToolBegins \/ PumpWakes
  BY <1>3
     DEF CheckpointSteps, CheckpointBegins, CheckpointRuns, CheckpointReturns, CheckpointMoves,
       CheckpointRevises, AdmitCreatesTask, AdmitBinds, ToolBegins, PumpWakes
<1>4. CASE \E n \in Node : LaunchSteps(n) \/ BeginDispatch(n)
  BY <1>4
     DEF LaunchSteps, AdmitLaunches, ToolLaunches, CheckpointLaunches, BeginDispatch,
       PumpHasNothingToStart
<1>5. CASE \/ CloseStops \/ CloseReads \/ CloseMoves \/ CloseTask \/ CloseEnds
           \/ RunCompletes \/ RunBlocks \/ RunInterrupted \/ SaveCheckpoint \/ RebuildAdmits
           \/ \E n \in Node : CloseSettles(n) \/ RebuildReconciles(n)
  BY <1>5
     DEF RebuildResumed, CloseStops, CloseReads, CloseMoves, CloseTask, CloseEnds, RunCompletes,
       RunBlocks, RunInterrupted, SaveCheckpoint, RebuildAdmits, CloseSettles, RebuildReconciles
<1>6. ASSUME NEW n \in Node, WorkerStep(n)
      PROVE  First
  BY <1>6
     DEF WorkerStep, KeepsMain, AgentAssigned, AgentStarts, AgentFailsOnce, AgentSettles,
       AgentUnroutable, AgentReads, AgentMoves, AgentReports, AgentRecords, ToolStarts,
       ToolRaises, ToolAsks, ToolSettles, ToolMoves, ToolRuns
<1>7. CASE UNCHANGED vars
  BY <1>7 DEF vars
<1> QED
  BY <1>1, <1>2, <1>3, <1>4, <1>5, <1>6, <1>7
     DEF Next, PumpStep, QuietSteps, CheckpointSteps, LaunchSteps

LEMMA RebuildResumedStays == ASSUME [Next]_vars, RebuildResumed PROVE RebuildResumed'
<1> USE DEF RebuildResumed, Goto, pumpVars
<1>1. CASE OutsideStep
  BY <1>1
     DEF OutsideStep, LeadSubmits, AdmissionRefused, LeadReturns, LeadStops, CheckpointRevises,
       CheckpointFails, PumpCancelled, ResumeApproved, ResumeFrontier, ResumeLead, RejectInterrupted,
       Crash, RestoreInterrupted, NothingToRestore
<1>2. CASE PumpStep
  BY <1>2
     DEF PumpStep, AdmitCreatesTask, AdmitBinds, AdmitEnds, PersistDecision, ToolBegins, PumpWaits,
       PumpIdles, PumpWakes, CheckpointBegins, CheckpointReturns, CheckpointRuns,
       CheckpointMoves, CheckpointAdmits, CloseStops, CloseReads, CloseMoves, CloseTask, CloseEnds,
       RunCompletes, RunBlocks, RunInterrupted, SaveCheckpoint, RebuildAdmits, AdmitLaunches,
       ToolLaunches, CheckpointLaunches, CloseSettles, RebuildReconciles, BeginDispatch,
       StartAdmission
<1>3. ASSUME NEW n \in Node, WorkerStep(n)
      PROVE  UNCHANGED <<main, resumed>>
  BY <1>3
     DEF WorkerStep, KeepsMain, AgentAssigned, AgentStarts, AgentFailsOnce, AgentSettles,
       AgentUnroutable, AgentReads, AgentMoves, AgentReports, AgentRecords, ToolStarts,
       ToolRaises, ToolAsks, ToolSettles, ToolMoves, ToolRuns
<1>4. CASE UNCHANGED vars
  BY <1>4 DEF vars
<1> QED BY <1>1, <1>2, <1>3, <1>4 DEF Next


\* Only an admission binds a task to a node.
LEMMA BoundGrows == ASSUME [Next]_vars PROVE bound' = bound \/ AdmitBinds
<1> USE DEF durable
<1>1. CASE OutsideStep
  BY <1>1
     DEF OutsideStep, LeadSubmits, AdmissionRefused, LeadReturns, LeadStops, CheckpointRevises,
       CheckpointFails, PumpCancelled, ResumeApproved, ResumeFrontier, ResumeLead, RejectInterrupted,
       Crash, RestoreInterrupted, NothingToRestore
<1>2. CASE PumpStep
  BY <1>2
     DEF PumpStep, AdmitCreatesTask, AdmitEnds, PersistDecision, ToolBegins, PumpWaits,
       PumpIdles, PumpWakes, CheckpointBegins, CheckpointReturns, CheckpointRuns,
       CheckpointMoves, CheckpointAdmits, CloseStops, CloseReads, CloseMoves, CloseTask, CloseEnds,
       RunCompletes, RunBlocks, RunInterrupted, SaveCheckpoint, RebuildAdmits, AdmitLaunches,
       ToolLaunches, CheckpointLaunches, CloseSettles, RebuildReconciles, BeginDispatch
<1>3. ASSUME NEW n \in Node, WorkerStep(n)
      PROVE  bound' = bound
  BY <1>3
     DEF WorkerStep, AgentAssigned, AgentStarts, AgentFailsOnce, AgentSettles,
       AgentUnroutable, AgentReads, AgentMoves, AgentReports, AgentRecords, ToolStarts,
       ToolRaises, ToolAsks, ToolSettles, ToolMoves, ToolRuns
<1>4. CASE UNCHANGED vars
  BY <1>4 DEF vars
<1> QED BY <1>1, <1>2, <1>3, <1>4 DEF Next

LEMMA BoundKnownStays == ASSUME IInv, BoundKnown, [Next]_vars PROVE BoundKnown'
<1> SUFFICES ASSUME NEW n \in bound' PROVE Known(n)'
  BY DEF BoundKnown
<1>1. n \in bound \/ (AdmitBinds /\ n = cur)
  BY BoundGrows DEF AdmitBinds
<1>2. Known(n)
  BY <1>1 DEF BoundKnown, AdmitBinds, IInv, CurFits, CurIs, Admitting, Known
<1> QED BY <1>2, RowsStay

LEMMA WorkersListedStays ==
  ASSUME IInv, WorkersListed, RebuildResumed, [Next]_vars
  PROVE  WorkersListed'
<1> SUFFICES ASSUME First', NEW n \in Node, worker'[n] # "none" PROVE n \in running'
  BY DEF WorkersListed
<1>1. /\ \A m \in Node : worker[m] # "none" => m \in running
      /\ worker \in [Node -> Phases]
  BY FirstSteps DEF WorkersListed, IInv, RunTyped
<1>2. CASE worker' = worker /\ running' = running
  BY <1>1, <1>2
<1>3. CASE ToolBegins \/ PumpWakes \/ \E m \in Node : BeginDispatch(m)
  BY <1>1, <1>3 DEF ToolBegins, PumpWakes, BeginDispatch
<1>4. ASSUME NEW m \in Node, WorkerStep(m)
      PROVE  n \in running'
  <2>1. running' = running
    BY <1>4
       DEF WorkerStep, KeepsMain, AgentAssigned, AgentStarts, AgentFailsOnce, AgentSettles,
         AgentUnroutable, AgentReads, AgentMoves, AgentReports, AgentRecords, ToolStarts,
         ToolRaises, ToolAsks, ToolSettles, ToolMoves, ToolRuns, pumpVars
  <2>2. worker[m] # "none" /\ (m # n => worker'[n] = worker[n])
    BY <1>1, <1>4
       DEF WorkerStep, AgentAssigned, AgentStarts, AgentFailsOnce, AgentSettles,
         AgentUnroutable, AgentReads, AgentMoves, AgentReports, AgentRecords, ToolStarts,
         ToolRaises, ToolAsks, ToolSettles, ToolMoves, ToolRuns, Phase, Ends
  <2> QED BY <1>1, <2>1, <2>2
<1>5. CASE \/ QuietSteps \/ CheckpointSteps \/ LeadSubmits \/ AdmitCreatesTask \/ AdmitBinds
           \/ \E m \in Node : LaunchSteps(m)
  BY <1>2, <1>5
     DEF QuietSteps, AdmissionRefused, LeadReturns, AdmitEnds, PersistDecision, PumpWaits, PumpIdles,
       CheckpointAdmits, CheckpointSteps, CheckpointBegins, CheckpointRuns, CheckpointReturns,
       CheckpointMoves, CheckpointRevises, LeadSubmits, AdmitCreatesTask, AdmitBinds, LaunchSteps,
       AdmitLaunches, ToolLaunches, CheckpointLaunches, pumpVars, workVars
<1>6. CASE UNCHANGED vars
  BY <1>2, <1>6 DEF vars, pumpVars, workVars
<1> QED BY <1>3, <1>4, <1>5, <1>6, FirstSteps

LEMMA PumpRestedStays ==
  ASSUME PumpRested, RebuildResumed, [Next]_vars
  PROVE  PumpRested'
<1> USE DEF PumpRested, First, Waking, Admitting, Goto, listVars, pumpVars
<1> SUFFICES ASSUME First' PROVE PumpRested'
  OBVIOUS
<1>0. First
  BY FirstSteps
<1>1. CASE QuietSteps
  BY <1>0, <1>1
     DEF QuietSteps, AdmissionRefused, LeadReturns, AdmitEnds, PersistDecision, PumpWaits, PumpIdles,
       CheckpointAdmits, StartAdmission, PumpHasNothingToStart
<1>2. CASE CheckpointSteps
  BY <1>0, <1>2
     DEF CheckpointSteps, CheckpointBegins, CheckpointRuns, CheckpointReturns, CheckpointMoves,
       CheckpointRevises
<1>3. CASE LeadSubmits \/ AdmitCreatesTask \/ AdmitBinds \/ ToolBegins \/ PumpWakes
  BY <1>0, <1>3
     DEF LeadSubmits, AdmitCreatesTask, AdmitBinds, ToolBegins, PumpWakes, StartAdmission
<1>4. CASE \E n \in Node : LaunchSteps(n) \/ BeginDispatch(n)
  BY <1>0, <1>4
     DEF LaunchSteps, AdmitLaunches, ToolLaunches, CheckpointLaunches, BeginDispatch,
       PumpHasNothingToStart
<1>5. ASSUME NEW n \in Node, WorkerStep(n)
      PROVE  UNCHANGED <<main, ret, running>>
  BY <1>5
     DEF WorkerStep, KeepsMain, AgentAssigned, AgentStarts, AgentFailsOnce, AgentSettles,
       AgentUnroutable, AgentReads, AgentMoves, AgentReports, AgentRecords, ToolStarts,
       ToolRaises, ToolAsks, ToolSettles, ToolMoves, ToolRuns
<1>6. CASE UNCHANGED vars
  BY <1>0, <1>6 DEF vars
<1> QED BY <1>0, <1>1, <1>2, <1>3, <1>4, <1>5, <1>6, FirstSteps


\* While the first process drives the run, a task row is written by the worker of its node.
LEMMA TaskMoves ==
  ASSUME IInv, RebuildResumed, [Next]_vars, First', NEW n \in Node, task'[n] # task[n]
  PROVE  (AdmitCreatesTask /\ n = cur) \/ WorkerStep(n)
<1>0. task \in [Node -> {"none", "queued", "running", "succeeded", "failed", "blocked", "cancelled"}]
  BY DEF IInv, RunTyped
<1>1. CASE AdmitCreatesTask
  BY <1>0, <1>1 DEF AdmitCreatesTask
<1>2. ASSUME NEW m \in Node, WorkerStep(m)
      PROVE  m = n
  BY <1>0, <1>2
     DEF WorkerStep, AgentAssigned, AgentStarts, AgentFailsOnce, AgentSettles,
       AgentUnroutable, AgentReads, AgentMoves, AgentReports, AgentRecords, ToolStarts,
       ToolRaises, ToolAsks, ToolSettles, ToolMoves, ToolRuns, durable
<1>3. CASE \/ QuietSteps \/ CheckpointSteps \/ LeadSubmits \/ AdmitBinds \/ ToolBegins \/ PumpWakes
           \/ \E m \in Node : LaunchSteps(m) \/ BeginDispatch(m)
  BY <1>3
     DEF QuietSteps, AdmissionRefused, LeadReturns, AdmitEnds, PersistDecision, PumpWaits, PumpIdles,
       CheckpointAdmits, CheckpointSteps, CheckpointBegins, CheckpointRuns, CheckpointReturns,
       CheckpointMoves, CheckpointRevises, LeadSubmits, AdmitBinds, ToolBegins, PumpWakes,
       LaunchSteps, AdmitLaunches, ToolLaunches, CheckpointLaunches, BeginDispatch, durable
<1>4. CASE UNCHANGED vars
  BY <1>4 DEF vars, durable
<1> QED BY <1>1, <1>2, <1>3, <1>4, FirstSteps

\* Every step of a worker is one of a node that was begun.
LEMMA WorkersOnBegun ==
  ASSUME IInv, NEW n \in Node, WorkerStep(n)
  PROVE  worker[n] # "none" /\ exec[n] # "none"
BY DEF IInv, WorkersBegun, WorkerStep, AgentAssigned, AgentStarts, AgentFailsOnce, AgentSettles,
   AgentUnroutable, AgentReads, AgentMoves, AgentReports, AgentRecords, ToolStarts, ToolRaises,
   ToolAsks, ToolSettles, ToolMoves, ToolRuns, Phase

LEMMA BindsAfterTask ==
  ASSUME [Next]_vars, RebuildResumed, First', main' = "admitBind"
  PROVE  AdmitCreatesTask \/ (main = "admitBind" /\ cur' = cur)
<1> USE DEF Goto, pumpVars
<1>1. CASE \/ QuietSteps \/ CheckpointSteps \/ LeadSubmits \/ AdmitBinds \/ ToolBegins \/ PumpWakes
           \/ \E n \in Node : LaunchSteps(n) \/ BeginDispatch(n)
  BY <1>1
     DEF QuietSteps, AdmissionRefused, LeadReturns, AdmitEnds, PersistDecision, PumpWaits, PumpIdles,
       CheckpointAdmits, CheckpointSteps, CheckpointBegins, CheckpointRuns, CheckpointReturns,
       CheckpointMoves, CheckpointRevises, LeadSubmits, AdmitBinds, ToolBegins, PumpWakes,
       LaunchSteps, AdmitLaunches, ToolLaunches, CheckpointLaunches, BeginDispatch, StartAdmission,
       PumpHasNothingToStart
<1>2. ASSUME NEW n \in Node, WorkerStep(n)
      PROVE  UNCHANGED <<main, cur>>
  BY <1>2
     DEF WorkerStep, KeepsMain, AgentAssigned, AgentStarts, AgentFailsOnce, AgentSettles,
       AgentUnroutable, AgentReads, AgentMoves, AgentReports, AgentRecords, ToolStarts,
       ToolRaises, ToolAsks, ToolSettles, ToolMoves, ToolRuns
<1>3. CASE UNCHANGED vars
  BY <1>3 DEF vars
<1> QED BY <1>1, <1>2, <1>3, FirstSteps

LEMMA QueuedOnceStays ==
  ASSUME IInv, QueuedOnce, RebuildResumed, [Next]_vars
  PROVE  QueuedOnce'
<1> SUFFICES ASSUME First' PROVE QueuedOnce'
  BY DEF QueuedOnce
<1>0. /\ First /\ RunTyped
      /\ \A n \in admitted : n \in bound /\ exec[n] = "none" /\ task[n] = "queued"
      /\ main = "admitBind" => task[cur] = "queued"
  BY FirstSteps DEF QueuedOnce, IInv
<1>1. ASSUME NEW n \in admitted, n \in admitted'
      PROVE  n \in bound' /\ exec'[n] = "none" /\ task'[n] = "queued"
  <2>1. n \in Node /\ n \in active /\ status[n] = "launching" /\ payload[n].kind = "agent"
    BY <1>0 DEF IInv, RunTyped, Dispatched
  <2>2. ~Moves(n)
    <3>1. ~AdmitLaunches(n) /\ ~ToolLaunches(n) /\ ~CheckpointLaunches(n)
      BY <2>1 DEF AdmitLaunches, ToolLaunches, CheckpointLaunches, J!Transition
    <3>2. ~BeginDispatch(n)
      BY <1>1 DEF BeginDispatch
    <3>3. ~RebuildReconciles(n) /\ ~CloseMoves /\ ~LeadStops
      BY <1>0 DEF First, FirstStages, RebuildReconciles, CloseMoves, LeadStops, Goto
    <3>4. ~CheckpointRevises /\ ~CheckpointBegins /\ ~CheckpointRuns /\ ~CheckpointMoves
      BY DEF IInv, CurFits, Waking, CheckpointRevises, CheckpointBegins, CheckpointRuns,
         CheckpointMoves
    <3>5. ~(cur = n /\ ToolBegins)
      BY <2>1 DEF IInv, CurFits, CurIs, ToolBegins
    <3> QED BY <3>1, <3>2, <3>3, <3>4, <3>5 DEF Moves
  <2>3. exec'[n] = "none"
    BY <1>0, <2>1, <2>2, UnbegunStays
  <2>4. n \in bound'
    BY <1>0, BoundGrows DEF AdmitBinds
  <2>5. task'[n] = "queued"
    BY <1>0, <2>1, TaskMoves, WorkersOnBegun DEF AdmitCreatesTask, RunTyped
  <2> QED BY <2>3, <2>4, <2>5
<1>2. ASSUME AdmitBinds
      PROVE  cur \in bound' /\ exec'[cur] = "none" /\ task'[cur] = "queued"
  BY <1>0, <1>2 DEF AdmitBinds, IInv, CurFits, Admitting, planVars
<1>3. ASSUME NEW n \in admitted'
      PROVE  n \in bound' /\ exec'[n] = "none" /\ task'[n] = "queued"
  <2>1. n \in admitted \/ (AdmitBinds /\ n = cur)
    BY <1>0, ListsMove DEF RunTyped, First, FirstStages, AdmitBinds
  <2> QED BY <1>1, <1>2, <2>1
<1>4. ASSUME main' = "admitBind"
      PROVE  task'[cur'] = "queued"
  <2>1. main' \in Admitting
    BY <1>4 DEF Admitting
  <2>2. CASE AdmitCreatesTask
    <3>1. cur \in Node /\ cur' = cur
      BY <2>2, JournalFacts DEF AdmitCreatesTask, IInv, CurFits, CurIs, Admitting, pumpVars
    <3> QED BY <1>0, <2>2, <3>1 DEF AdmitCreatesTask, RunTyped
  <2>3. CASE main = "admitBind" /\ cur' = cur
    <3>1. cur \in Node /\ exec[cur] = "none"
      BY <2>3, JournalFacts DEF IInv, CurFits, CurIs, Admitting
    <3> QED BY <1>0, <2>3, <3>1, TaskMoves, WorkersOnBegun DEF AdmitCreatesTask
  <2>4. (main = "admitBind" /\ cur' = cur) \/ AdmitCreatesTask
    BY <1>0, <1>4, BindsAfterTask
  <2> QED BY <2>2, <2>3, <2>4
<1> QED BY <1>3, <1>4 DEF QueuedOnce


\* What a worker has read of its node is its own, until the process dies.
LEMMA ViewsStay ==
  ASSUME [Next]_vars
  PROVE  Crash \/ view' = view \/ \E n \in Node : AgentReads(n) \/ AgentMoves(n)
<1> USE DEF workVars
<1>1. CASE OutsideStep
  BY <1>1
     DEF OutsideStep, LeadSubmits, AdmissionRefused, LeadReturns, LeadStops, CheckpointRevises,
       CheckpointFails, PumpCancelled, ResumeApproved, ResumeFrontier, ResumeLead, RejectInterrupted,
       RestoreInterrupted, NothingToRestore
<1>2. CASE PumpStep
  BY <1>2
     DEF PumpStep, AdmitCreatesTask, AdmitBinds, AdmitEnds, PersistDecision, ToolBegins, PumpWaits,
       PumpIdles, PumpWakes, CheckpointBegins, CheckpointReturns, CheckpointRuns,
       CheckpointMoves, CheckpointAdmits, CloseStops, CloseReads, CloseMoves, CloseTask, CloseEnds,
       RunCompletes, RunBlocks, RunInterrupted, SaveCheckpoint, RebuildAdmits, AdmitLaunches,
       ToolLaunches, CheckpointLaunches, CloseSettles, RebuildReconciles, BeginDispatch
<1>3. ASSUME NEW n \in Node, WorkerStep(n)
      PROVE  view' = view \/ AgentReads(n) \/ AgentMoves(n)
  BY <1>3
     DEF WorkerStep, AgentAssigned, AgentStarts, AgentFailsOnce, AgentSettles,
       AgentUnroutable, AgentReports, AgentRecords, ToolStarts,
       ToolRaises, ToolAsks, ToolSettles, ToolMoves, ToolRuns
<1>4. CASE UNCHANGED vars
  BY <1>4 DEF vars
<1> QED BY <1>1, <1>2, <1>3, <1>4 DEF Next

LEMMA ViewTypedStays == ASSUME DOMAIN view = Node, [Next]_vars PROVE DOMAIN view' = Node
BY ViewsStay DEF Crash, AgentReads, AgentMoves

\* The phases of an agent, as its worker goes through them.
LEMMA AgreeByWorker ==
  ASSUME IInv, TInv, First, NEW n \in Agents \cap bound, WorkerStep(n)
  PROVE  status'[n] \notin {"absent", "waiting", "ready"} /\ Agree(n)'
<1>0. /\ n \in Node /\ n \in active /\ payload[n].kind = "agent" /\ JInv
      /\ status[n] \notin {"absent", "waiting", "ready"} /\ Agree(n)
      /\ task \in [Node -> {"none", "queued", "running", "succeeded", "failed", "blocked", "cancelled"}]
      /\ worker \in [Node -> Phases] /\ out \in [Node -> Values] /\ DOMAIN view = Node
  BY JournalFacts DEF IInv, TInv, BoundAgree, RunTyped, Agents
<1> USE <1>0 DEF Agree, TaskTold, NodeTold, J!Launched, planVars, durable
<1>1. CASE AgentAssigned(n)
  <2>1. (status'[n] = "running" /\ status[n] = "launching") \/ UNCHANGED status
    BY <1>1, JournalMoves DEF AgentAssigned
  <2> QED BY <1>1, <2>1 DEF AgentAssigned, Phase
<1>2. CASE AgentStarts(n) \/ AgentFailsOnce(n)
  BY <1>2 DEF AgentStarts, AgentFailsOnce, Phase
<1>3. ASSUME NEW r \in AgentResults, AgentRecords(n, r)
      PROVE  status'[n] \notin {"absent", "waiting", "ready"} /\ Agree(n)'
  BY <1>3 DEF AgentRecords, Phase
<1>4. CASE AgentSettles(n)
  BY <1>4 DEF AgentSettles, Phase, J!SettleExecution
<1>5. CASE AgentUnroutable(n)
  <2>1. worker[n] = "spawned" /\ ReadState(n) \in J!Launched
    BY <1>5 DEF AgentUnroutable, Phase, ReadState
  <2> QED BY <1>5, <2>1 DEF AgentUnroutable, Phase, J!SettleExecution
<1>6. CASE AgentReads(n)
  BY <1>6 DEF AgentReads, Phase, ReadState
<1>7. CASE AgentMoves(n)
  <2>1. worker[n] = "moving" /\ view[n] = status[n] /\ ReadState(n) = status[n]
    BY <1>7 DEF AgentMoves, ReadState
  <2>2. CASE view[n] \notin J!Launched /\ Phase(n, "moving", "moved") /\ UNCHANGED <<planVars, view>>
    BY <1>7, <2>1, <2>2 DEF AgentMoves, Phase
  <2>3. CASE /\ J!Transition(n, view[n], NextState(view[n], out[n]))
             /\ view' = [view EXCEPT ![n] = NextState(view[n], out[n])]
             /\ view[n] \in J!Launched /\ UNCHANGED worker
    <3>1. status'[n] = NextState(status[n], out[n]) /\ view'[n] = status'[n]
      BY <2>1, <2>3, JournalMoves
    <3>2. /\ NextState(status[n], out[n]) \notin {"absent", "waiting", "ready"}
          /\ \/ NextState(status[n], out[n]) = "running"
             \/ (NextState(status[n], out[n]) = "succeeded") <=> (out[n] = "succeeded")
      BY <2>1, <2>3
         DEF NextState, J!TargetOf, J!Transition, J!LegalTransition, J!Terminal, J!Dead
    <3> QED BY <1>7, <2>1, <2>3, <3>1, <3>2 DEF AgentMoves
  <2> QED BY <1>7, <2>1, <2>2, <2>3 DEF AgentMoves
<1>8. CASE AgentReports(n)
  BY <1>8 DEF AgentReports, Ends
<1>9. ~ToolStarts(n) /\ ~ToolRaises(n) /\ ~ToolAsks(n) /\ ~ToolSettles(n) /\ ~ToolMoves(n)
      /\ \A r \in ToolResults : ~ToolRuns(n, r)
  BY DEF IInv, CommandsAreTools, ToolStarts, ToolRaises, ToolAsks, ToolSettles, ToolMoves, ToolRuns,
     IsTool, Phase
<1> QED BY <1>1, <1>2, <1>3, <1>4, <1>5, <1>6, <1>7, <1>8, <1>9 DEF WorkerStep


\* The node of an agent with a task is moved by its own worker only, or by a revision.
LEMMA StatusStays ==
  ASSUME IInv, TInv, [Next]_vars, First', NEW n \in Agents \cap bound, ~WorkerStep(n),
         ~CheckpointRevises
  PROVE  status'[n] = status[n]
<1>0. /\ n \in Node /\ n \in active /\ payload[n].kind = "agent" /\ JInv /\ revision # 0
      /\ status[n] \notin {"absent", "waiting", "ready"}
  BY JournalFacts, FirstSteps DEF IInv, TInv, BoundAgree, Agents
<1>1. CASE \/ QuietSteps \/ AdmitCreatesTask \/ AdmitBinds \/ PumpWakes \/ UNCHANGED vars
  BY <1>1
     DEF QuietSteps, AdmissionRefused, LeadReturns, AdmitEnds, PersistDecision, PumpWaits, PumpIdles,
       CheckpointAdmits, AdmitCreatesTask, AdmitBinds, PumpWakes, planVars, vars
<1>2. CASE \/ ToolBegins \/ CheckpointBegins \/ CheckpointReturns
           \/ \E m \in Node : BeginDispatch(m)
  BY <1>2
     DEF ToolBegins, CheckpointBegins, CheckpointReturns, BeginDispatch, J!BeginExecution,
       J!SettleExecution, planVars
<1>3. CASE LeadSubmits
  BY <1>0, <1>3 DEF LeadSubmits, J!AdmitPlan
<1>4. CASE CheckpointRuns \/ CheckpointMoves
  <2>1. cur # n /\ \E e, t : J!Transition(cur, e, t)
    BY <1>0, <1>4 DEF CheckpointRuns, CheckpointMoves, IInv, CurFits, CurIs, Waking
  <2> QED BY <1>0, <2>1, JournalMoves
<1>5. ASSUME NEW m \in Node, LaunchSteps(m)
      PROVE  status'[n] = status[n]
  <2>1. J!Transition(m, "ready", "launching")
    BY <1>5 DEF LaunchSteps, AdmitLaunches, ToolLaunches, CheckpointLaunches
  <2> QED BY <1>0, <2>1, JournalMoves
<1>6. ASSUME NEW m \in Node, WorkerStep(m)
      PROVE  status'[n] = status[n]
  <2>1. \/ UNCHANGED status
        \/ \E e, t : J!Transition(m, e, t)
    BY <1>6
       DEF WorkerStep, AgentAssigned, AgentStarts, AgentFailsOnce, AgentSettles, AgentUnroutable,
         AgentReads, AgentMoves, AgentReports, AgentRecords, ToolStarts, ToolRaises, ToolAsks,
         ToolSettles, ToolMoves, ToolRuns, J!SettleExecution, planVars
  <2>2. m # n
    BY <1>6
  <2> QED BY <1>0, <2>1, <2>2, JournalMoves
<1> QED
  BY <1>1, <1>2, <1>3, <1>4, <1>5, <1>6, FirstSteps DEF CheckpointSteps, TInv

\* A revision finishes no node, and undoes none that is finished.
LEMMA RevisionKeepsSuccess ==
  ASSUME IInv, TInv, CheckpointRevises, First, NEW n \in Agents \cap bound
  PROVE  /\ status'[n] \notin {"absent", "waiting", "ready"}
         /\ (status'[n] = "succeeded") <=> (status[n] = "succeeded")
<1>0. n \in Node /\ n \in active /\ status[n] \notin {"absent", "waiting", "ready"}
  BY JournalFacts DEF IInv, TInv, BoundAgree, Agents
<1>1. PICK p, cancelled : J!RevisePlan(revision, p, cancelled, payload[cur].deps)
  BY DEF CheckpointRevises
<1>2. n \notin J!Added(p) /\ status' = J!RevisedStatus(p, cancelled)
  BY <1>0, <1>1 DEF J!Added, J!RevisePlan
<1>3. n \in J!Replaced(p) \cup cancelled => status[n] # "succeeded"
  BY <1>1 DEF J!RevisePlan, J!Terminal
<1>4. \/ status'[n] = "blocked" /\ status[n] \notin J!Terminal
      \/ status'[n] = "cancelled" /\ n \in J!Replaced(p) \cup cancelled
      \/ status'[n] = status[n]
  BY <1>0, <1>2, Zenon DEF J!RevisedStatus
<1> QED BY <1>0, <1>3, <1>4 DEF J!Terminal

\* Who is retired does not return, and who is known keeps its kind.
LEMMA BoundWereActive ==
  ASSUME IInv, TInv, [Next]_vars, NEW n \in bound, n \in Agents'
  PROVE  n \in Agents
<1>1. Known(n) /\ payload'[n] = payload[n] /\ n \in active'
  BY RowsStay DEF TInv, BoundKnown, Agents
<1>2. n \in active
  <2>1. CASE LeadSubmits
    BY <1>1, <2>1, JournalFacts DEF IInv, Known, LeadSubmits, J!AdmitPlan
  <2>2. CASE CheckpointRevises
    BY <1>1, <2>2 DEF Known, CheckpointRevises, J!RevisePlan, J!FreshIds, J!Added
  <2> QED BY <1>1, <2>1, <2>2, PlanStays
<1> QED BY <1>1, <1>2 DEF Agents


\* The pump takes in what has ended.
LEMMA WhoEndsAWorker ==
  ASSUME IInv, TInv, [Next]_vars, First', NEW n \in Node, ~WorkerStep(n),
         worker'[n] # worker[n], worker'[n] = "none"
  PROVE  worker[n] \in {"done", "raised"}
<1>0. worker \in [Node -> Phases]
  BY DEF IInv, RunTyped
<1>1. CASE PumpWakes
  BY <1>0, <1>1 DEF PumpWakes
<1>2. CASE \/ QuietSteps \/ CheckpointSteps \/ LeadSubmits \/ AdmitCreatesTask \/ AdmitBinds
           \/ \E m \in Node : LaunchSteps(m)
  BY <1>2
     DEF QuietSteps, AdmissionRefused, LeadReturns, AdmitEnds, PersistDecision, PumpWaits, PumpIdles,
       CheckpointAdmits, CheckpointSteps, CheckpointBegins, CheckpointRuns, CheckpointReturns,
       CheckpointMoves, CheckpointRevises, LeadSubmits, AdmitCreatesTask, AdmitBinds, LaunchSteps,
       AdmitLaunches, ToolLaunches, CheckpointLaunches, workVars
<1>3. CASE ToolBegins \/ \E m \in Node : BeginDispatch(m)
  BY <1>0, <1>3 DEF ToolBegins, BeginDispatch
<1>4. ASSUME NEW m \in Node, WorkerStep(m)
      PROVE  m = n
  BY <1>0, <1>4
     DEF WorkerStep, AgentAssigned, AgentStarts, AgentFailsOnce, AgentSettles,
       AgentUnroutable, AgentReads, AgentMoves, AgentReports, AgentRecords, ToolStarts,
       ToolRaises, ToolAsks, ToolSettles, ToolMoves, ToolRuns, Phase, Ends
<1>5. CASE UNCHANGED vars
  BY <1>5 DEF vars, workVars
<1> QED BY <1>1, <1>2, <1>3, <1>4, <1>5, FirstSteps DEF TInv

LEMMA BoundAgreeStays ==
  ASSUME IInv, TInv, [Next]_vars
  PROVE  BoundAgree'
<1> SUFFICES ASSUME First', NEW n \in Agents' \cap bound'
             PROVE  status'[n] \notin {"absent", "waiting", "ready"} /\ Agree(n)'
  BY DEF BoundAgree
<1>0. /\ First /\ RunTyped /\ JInv /\ DOMAIN view = Node
      /\ \A m \in Agents \cap bound :
           status[m] \notin {"absent", "waiting", "ready"} /\ Agree(m)
  BY FirstSteps DEF TInv, BoundAgree, IInv
\* A task is bound to its node.
<1>1. CASE AdmitBinds /\ n = cur
  <2>1. /\ n \in Node /\ status'[n] = "launching" /\ worker'[n] = "none" /\ task'[n] = "queued"
    BY <1>0, <1>1, JournalFacts
       DEF AdmitBinds, IInv, TInv, QueuedOnce, CurFits, CurIs, Admitting, WorkersBegun, planVars,
           workVars
  <2> QED BY <2>1 DEF Agree, J!Launched
<1>2. CASE ~(AdmitBinds /\ n = cur)
  <2>0. n \in Agents \cap bound
    BY <1>2, BoundGrows, BoundWereActive DEF AdmitBinds
  <2>1. /\ n \in Node /\ n \in active /\ payload[n].kind = "agent"
        /\ status[n] \notin {"absent", "waiting", "ready"} /\ Agree(n)
    BY <1>0, <2>0, JournalFacts DEF Agents
  <2>2. CASE WorkerStep(n)
    BY <1>0, <2>0, <2>2, AgreeByWorker
\* A revision finds no worker.
  <2>3. CASE CheckpointRevises
    <3>1. worker[n] = "none" /\ worker'[n] = "none" /\ task'[n] = task[n]
      BY <1>0, <2>1, <2>3
         DEF TInv, PumpRested, WorkersListed, Waking, CheckpointRevises, durable
    <3>2. /\ status'[n] \notin {"absent", "waiting", "ready"}
          /\ (status'[n] = "succeeded") <=> (status[n] = "succeeded")
      BY <1>0, <2>0, <2>3, RevisionKeepsSuccess
    <3> QED BY <2>1, <3>1, <3>2 DEF Agree
  <2>4. CASE BeginDispatch(n)
    <3>1. n \in admitted /\ exec[n] = "none" /\ task[n] = "queued" /\ status[n] = "launching"
      BY <1>0, <2>4 DEF BeginDispatch, TInv, QueuedOnce, IInv, Dispatched, RunTyped
    <3>2. status'[n] = "launching" /\ task'[n] = "queued" /\ worker'[n] \in {"spawned", "none"}
      BY <1>0, <2>1, <3>1, <2>4
         DEF BeginDispatch, J!BeginExecution, durable, RunTyped, IInv, WorkersBegun
    <3> QED BY <3>2 DEF Agree, J!Launched
  <2>5. CASE AdmitCreatesTask /\ n = cur
    <3>1. /\ status'[n] = "launching" /\ worker'[n] = "none" /\ task'[n] = "queued"
      BY <1>0, <2>1, <2>5
         DEF AdmitCreatesTask, IInv, CurFits, CurIs, Admitting, WorkersBegun, RunTyped, planVars,
             workVars
    <3> QED BY <3>1 DEF Agree, J!Launched
\* Any other step leaves the node, its task and its worker as they are.
  <2>6. CASE /\ ~WorkerStep(n) /\ ~CheckpointRevises /\ ~BeginDispatch(n)
             /\ ~(AdmitCreatesTask /\ n = cur)
    <3>1. status'[n] = status[n]
      BY <2>0, <2>6, StatusStays
    <3>2. task'[n] = task[n]
      BY <2>1, <2>6, TaskMoves DEF TInv
    <3>3. out'[n] = out[n]
      <4>1. ~Crash /\ ~(CheckpointRuns /\ cur = n)
        BY <1>0, <2>1
           DEF Crash, CheckpointRuns, IInv, CurFits, CurIs, Waking, First, FirstStages, Goto
      <4> QED BY <2>1, <2>6, <4>1, WhoWritesAResult
    <3>4. view'[n] = view[n]
      <4>1. ~Crash
        BY DEF Crash, First, FirstStages, Goto
      <4>2. \A m \in Node : AgentReads(m) \/ AgentMoves(m) => m # n
        BY <2>6 DEF WorkerStep
      <4> QED BY <1>0, <2>1, <4>1, <4>2, ViewsStay DEF AgentReads, AgentMoves
    <3>5. worker'[n] = worker[n] \/ (worker'[n] = "none" /\ worker[n] \in {"done", "raised"})
      <4>1. ~(ToolBegins /\ cur = n)
        BY <2>1 DEF ToolBegins, IInv, CurFits, CurIs
      <4> QED BY <2>1, <2>6, <4>1, WhoMovesAWorker, WhoEndsAWorker
    <3> QED BY <2>1, <3>1, <3>2, <3>3, <3>4, <3>5 DEF Agree, TaskTold, NodeTold
  <2> QED BY <2>2, <2>3, <2>4, <2>5, <2>6
<1> QED BY <1>1, <1>2

\* When a run ends by itself in the process that began it, its task rows and its plan agree
\* on which agents succeeded (evaluate and _settle_plan_node write them one after the other,
\* on threads), for any plan, revisions, retries and order of the workers.
THEOREM TasksFollowPlan == Spec => []TasksMatchPlan
<1>1. Init => TInv
  BY DEF Init, TInv, BoundAgree, BoundKnown, QueuedOnce, WorkersListed, PumpRested, RebuildResumed,
         Waking, Admitting
<1>2. IInv /\ TInv /\ [Next]_vars => TInv'
  BY BoundAgreeStays, BoundKnownStays, QueuedOnceStays, WorkersListedStays, PumpRestedStays,
     RebuildResumedStays, ViewTypedStays
     DEF TInv
<1>3. IInv /\ TInv => TasksMatchPlan
  <2> SUFFICES ASSUME IInv, TInv, main = "finish", ~resumed, NEW n \in Agents \cap bound
               PROVE  (task[n] = "succeeded") = (status[n] = "succeeded")
    BY DEF TasksMatchPlan
  <2>1. First /\ n \in Node
    BY JournalFacts DEF First, FirstStages, IInv, Agents
  <2>2. worker[n] = "none"
    BY <2>1 DEF TInv, PumpRested, WorkersListed
  <2> QED BY <2>1, <2>2 DEF TInv, BoundAgree, Agree
<1> QED BY <1>1, <1>2, <1>3, Invariance, PTL DEF Spec


=============================================================================
