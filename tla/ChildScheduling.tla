--------------------------- MODULE ChildScheduling ---------------------------
(***************************************************************************)
(* Who may run, and who may write: the ChildScheduler with its gate, the   *)
(* WorkspaceLeaseManager, and the children of one run that use them: the   *)
(* task graph of an agent (run_attempt, a second attempt after a failure)  *)
(* and the plan tools.                                                     *)
(*                                                                         *)
(* In a shared workspace (serialize) a writing agent holds the lease for   *)
(* its whole attempt, takes it BEFORE its slot, and shields its attempt    *)
(* from cancellation.  In worktree mode it writes to a copy and takes the  *)
(* lease, inside its slot, for the integration of its change set.  A plan  *)
(* tool that writes takes the lease inside its slot in both modes.         *)
(*                                                                         *)
(* Coroutines share one event loop; commands and file writes of agents run *)
(* on threads, which no cancellation stops.  A wait on a condition is a    *)
(* guard, since every change of what it waits for is notified.             *)
(***************************************************************************)
EXTENDS Naturals, FiniteSets, SequencesExt

CONSTANTS
  Child,    \* tasks and tool nodes of the run
  Nobody,   \* the holder of a free lease
  Setups    \* workloads and modes: records [max, serialize, routable, work]

Kinds == {"reader", "writer", "readTool", "writeTool"}

ASSUME SetupsAssumption ==
  /\ Nobody \notin Child
  /\ \A s \in Setups :
       /\ s.max \in 1..3 /\ s.serialize \in BOOLEAN /\ s.routable \in BOOLEAN
       /\ \A c \in Child :
            /\ s.work[c].kind \in Kinds /\ s.work[c].priority \in Nat
            /\ s.work[c].deps \subseteq Child \ {c}

VARIABLES
  setup,      \* the workload; never changes
  submitted,  \* _children, in creation order
  completed, failed, blocked, running,   \* the sets of the scheduler
  gate,       \* children inside the gate's semaphore
  holder, depth,  \* the lease
  phase,      \* where the coroutine of each child is
  attempt, out,   \* its attempt number, the outcome of its last attempt
  writing,    \* children with a thread inside a file write
  commands,   \* children with a thread that runs a command
  cancelled   \* the pump was cancelled

sets  == <<completed, failed, blocked>>
lease == <<holder, depth>>
threads == <<writing, commands>>
vars == <<setup, submitted, sets, running, gate, lease, phase, attempt, out, threads, cancelled>>

Work(c) == setup.work[c]
IsTool(c) == Work(c).kind \in {"readTool", "writeTool"}
\* Agents that take the lease before their slot, and are shielded.
Serialized(c) == setup.serialize /\ Work(c).kind = "writer"
Isolated(c) == ~setup.serialize /\ Work(c).kind = "writer"

Init ==
  /\ setup \in Setups
  /\ submitted = <<>>
  /\ completed = {} /\ failed = {} /\ blocked = {} /\ running = {} /\ gate = {}
  /\ holder = Nobody /\ depth = 0
  /\ phase = [c \in Child |-> "idle"]
  /\ attempt = [c \in Child |-> 1] /\ out = [c \in Child |-> "none"]
  /\ writing = {} /\ commands = {} /\ cancelled = FALSE

-----------------------------------------------------------------------------
(* The scheduler. *)

Before(x, y) ==
  LET Created(c) == CHOOSE i \in DOMAIN submitted : submitted[i] = c IN
  \/ Work(x).priority > Work(y).priority
  \/ Work(x).priority = Work(y).priority /\ Created(x) < Created(y)

\* ready(), as a set: Before orders it.
Ready ==
  {c \in ToSet(submitted) \ (completed \cup failed \cup running \cup blocked) :
     Work(c).deps \subseteq completed}

\* The index of the child in ready() is below the number of free slots.
HasSlot(c) ==
  /\ c \in Ready
  /\ Cardinality({x \in Ready : Before(x, c)}) + Cardinality(running) < setup.max

\* _block_dependents calls itself for every dependent it finds: the least set that
\* holds, with those of S, the dependents of its own members.
DependentsOf(S) ==
  LET known == ToSet(submitted) IN
  {c \in known :
     \A C \in SUBSET known :
       (\A d \in known : Work(d).deps \cap (S \cup C) # {} => d \in C) => c \in C}

\* finish, for a set of children with one verdict.
FinishFailed(S) ==
  /\ failed' = failed \cup S /\ blocked' = blocked \cup DependentsOf(S)
  /\ UNCHANGED completed

FinishSucceeded(c) == completed' = completed \cup {c} /\ UNCHANGED <<failed, blocked>>

\* Mutant: a result that is not a failure of the second attempt has no verdict.
VerdictOfFinalFailures(c, r) ==
  CASE r = "succeeded" -> FinishSucceeded(c)
    [] r \in {"failed", "raised"} /\ attempt[c] = 2 -> FinishFailed({c})
    [] OTHER -> UNCHANGED sets

\* Mutant: completed on return, whatever was returned, and failed as well.
VerdictTwice(c, r) ==
  /\ completed' = completed \cup {c}
  /\ IF r = "succeeded" THEN UNCHANGED <<failed, blocked>>
     ELSE failed' = failed \cup {c} /\ blocked' = blocked \cup DependentsOf({c})

\* execute: a first failed attempt of an agent has no verdict yet, an exception
\* always has one.
Verdict(c, r) ==
  CASE r = "succeeded" -> FinishSucceeded(c)
    [] r = "failed" /\ attempt[c] = 1 /\ ~IsTool(c) -> UNCHANGED sets
    [] OTHER -> FinishFailed({c})

\* retry, at the start of a second attempt.
Retried(c) == IF attempt[c] = 2 THEN failed \ {c} ELSE failed

-----------------------------------------------------------------------------
(* The lease: re-entrant for its owner. *)

Takes(c) ==
  /\ holder \in {Nobody, c}
  /\ holder' = c /\ depth' = depth + 1

\* Mutant: release drops the lease at any depth.
ReleasesAll(c) ==
  IF holder = c THEN holder' = Nobody /\ depth' = 0 ELSE UNCHANGED lease

Releases(c) ==
  IF holder = c
  THEN depth' = depth - 1 /\ holder' = IF depth = 1 THEN Nobody ELSE holder
  ELSE UNCHANGED lease

-----------------------------------------------------------------------------
(* The life of a child. *)

Goes(c, from, to) == phase[c] = from /\ phase' = [phase EXCEPT ![c] = to]

\* Admission submits a batch of agents before their coroutines exist.  What a
\* task depends on is in the batch before it, or of an earlier turn of the lead:
\* then the registry refuses dependencies that did not succeed.
Submit ==
  /\ ~cancelled
  /\ \E batch \in SUBSET {c \in Child : ~IsTool(c)} : \E new \in SetToSeqs(batch) :
       /\ batch # {} /\ batch \cap ToSet(submitted) = {}
       /\ \A i \in DOMAIN new : \A d \in Work(new[i]).deps :
            \/ phase[d] = "ended" /\ out[d] = "succeeded"
            \/ \E j \in 1..(i - 1) : new[j] = d
       /\ submitted' = submitted \o new
  /\ UNCHANGED <<setup, sets, running, gate, lease, phase, attempt, out, threads, cancelled>>

Spawn(c) ==
  /\ ~cancelled /\ c \in ToSet(submitted) /\ Goes(c, "idle", "assigning")
  /\ UNCHANGED <<setup, submitted, sets, running, gate, lease, attempt, out, threads, cancelled>>

\* A tool is submitted by its own coroutine.
ToolSpawns(c) ==
  /\ ~cancelled /\ IsTool(c) /\ Goes(c, "idle", "queued")
  /\ submitted' = Append(submitted, c)
  /\ UNCHANGED <<setup, sets, running, gate, lease, attempt, out, threads, cancelled>>

\* assign_attempt finds no route: the scheduler is not told.
RouteFails(c) ==
  /\ ~setup.routable /\ Goes(c, "assigning", "ended")
  /\ out' = [out EXCEPT ![c] = "blocked"]
  /\ UNCHANGED <<setup, submitted, sets, running, gate, lease, attempt, threads, cancelled>>

AttemptStarts(c) ==
  /\ Goes(c, "assigning", IF Serialized(c) THEN "wantLease" ELSE "queued")
  /\ failed' = IF Serialized(c) THEN failed ELSE Retried(c)
  /\ UNCHANGED <<setup, submitted, completed, blocked, running, gate, lease, attempt, out, threads,
                 cancelled>>

GetsLease(c) ==
  /\ Goes(c, "wantLease", "queued") /\ Takes(c)
  /\ failed' = Retried(c)
  /\ UNCHANGED <<setup, submitted, completed, blocked, running, gate, attempt, out, threads, cancelled>>

AfterSlot(c) ==
  CASE Serialized(c) -> "releasing" [] IsTool(c) -> "ended" [] OTHER -> "deciding"

\* execute wakes up: a dependency died, or there is a slot.
Denied(c) ==
  /\ c \in blocked /\ Goes(c, "queued", AfterSlot(c))
  /\ out' = [out EXCEPT ![c] = "blocked"]
  /\ UNCHANGED <<setup, submitted, sets, running, gate, lease, attempt, threads, cancelled>>

Granted(c) ==
  /\ c \notin blocked /\ HasSlot(c) /\ Goes(c, "queued", "granted")
  /\ running' = running \cup {c}
  /\ UNCHANGED <<setup, submitted, sets, gate, lease, attempt, out, threads, cancelled>>

EntersGate(c) ==
  /\ Cardinality(gate) < setup.max
  /\ Goes(c, "granted", CASE Work(c).kind = "writeTool" -> "wantCommand"
                          [] Work(c).kind = "readTool" -> "command"
                          [] OTHER -> "working")
  /\ gate' = gate \cup {c}
  /\ commands' = IF Work(c).kind = "readTool" THEN commands \cup {c} ELSE commands
  /\ UNCHANGED <<setup, submitted, sets, running, lease, attempt, out, writing, cancelled>>

\* The operation returned r, or raised: the gate, then finish.
Returns(c, r) ==
  /\ out' = [out EXCEPT ![c] = r]
  /\ gate' = gate \ {c}
  /\ Verdict(c, r)

\* The backend of a writing agent takes the lease for each file, on a thread.
\* One write per attempt is enough to tell the orders apart.
WriteBegins(c) ==
  /\ Work(c).kind = "writer" /\ Goes(c, "working", "writing") /\ Takes(c)
  /\ writing' = writing \cup {c}
  /\ UNCHANGED <<setup, submitted, sets, running, gate, attempt, out, commands, cancelled>>

WriteEnds(c) ==
  /\ c \in writing
  /\ writing' = writing \ {c} /\ Releases(c)
  /\ phase' = IF phase[c] = "writing" THEN [phase EXCEPT ![c] = "wrote"] ELSE phase
  /\ UNCHANGED <<setup, submitted, sets, running, gate, attempt, out, commands, cancelled>>

\* A child that succeeded on a copy of the workspace integrates its changes
\* while it still has its slot.
AgentReturns(c, r) ==
  /\ \E at \in {"working", "wrote"} :
       IF r = "succeeded" /\ Isolated(c)
       THEN Goes(c, at, "wantIntegrate") /\ UNCHANGED <<out, gate, sets>>
       ELSE Goes(c, at, "leaving") /\ Returns(c, r)
  /\ UNCHANGED <<setup, submitted, running, lease, attempt, threads, cancelled>>

IntegrationBegins(c) ==
  /\ Goes(c, "wantIntegrate", "integrating") /\ Takes(c)
  /\ UNCHANGED <<setup, submitted, sets, running, gate, attempt, out, threads, cancelled>>

IntegrationEnds(c, r) ==
  /\ r \in {"succeeded", "blocked", "raised"}
  /\ Goes(c, "integrating", "leaving") /\ Releases(c) /\ Returns(c, r)
  /\ UNCHANGED <<setup, submitted, running, attempt, threads, cancelled>>

CommandBegins(c) ==
  /\ Goes(c, "wantCommand", "command") /\ Takes(c)
  /\ commands' = commands \cup {c}
  /\ UNCHANGED <<setup, submitted, sets, running, gate, attempt, out, writing, cancelled>>

CommandReturns(c, r) ==
  /\ r \in {"succeeded", "blocked", "raised"}
  /\ Goes(c, "command", "leaving") /\ Releases(c) /\ Returns(c, r)
  /\ commands' = commands \ {c}
  /\ UNCHANGED <<setup, submitted, running, attempt, writing, cancelled>>

\* The command of a cancelled tool ends.
CommandThreadEnds(c) ==
  /\ phase[c] = "ended" /\ c \in commands
  /\ commands' = commands \ {c}
  /\ UNCHANGED <<setup, submitted, sets, running, gate, lease, phase, attempt, out, writing, cancelled>>

\* The finally clause of execute, which waits for the condition's lock.
Leaves(c) ==
  /\ Goes(c, "leaving", AfterSlot(c))
  /\ running' = running \ {c}
  /\ UNCHANGED <<setup, submitted, sets, gate, lease, attempt, out, threads, cancelled>>

LeaseReturned(c) ==
  /\ Goes(c, "releasing", IF cancelled THEN "ended" ELSE "deciding")
  /\ Releases(c)
  /\ UNCHANGED <<setup, submitted, sets, running, gate, attempt, out, threads, cancelled>>

\* evaluate: an exception counts as a failure, and there are two attempts.
Decides(c) ==
  /\ IF out[c] \in {"failed", "raised"} /\ attempt[c] = 1
     THEN Goes(c, "deciding", "assigning") /\ attempt' = [attempt EXCEPT ![c] = 2]
     ELSE Goes(c, "deciding", "ended") /\ UNCHANGED attempt
  /\ UNCHANGED <<setup, submitted, sets, running, gate, lease, out, threads, cancelled>>

-----------------------------------------------------------------------------
(* The pump cancels all its tasks. *)

InSlot == {"granted", "working", "writing", "wrote", "wantIntegrate", "wantCommand", "command", "leaving"}

Shielded(c) == Serialized(c) /\ phase[c] \in InSlot \cup {"queued", "releasing"}

\* Mutant: a cancelled tool keeps its lease.
CancelKeepsLease ==
  LET hit  == {c \in Child : phase[c] \notin {"idle", "ended"} /\ ~Shielded(c)}
      dead == {c \in hit : phase[c] \in InSlot \ {"leaving"}}
  IN
  /\ ~cancelled /\ cancelled' = TRUE
  /\ \A c \in Child : phase[c] # "integrating"
  /\ phase' = [c \in Child |-> IF c \in hit THEN "ended" ELSE phase[c]]
  /\ running' = running \ hit /\ gate' = gate \ hit
  /\ FinishFailed(dead)
  /\ UNCHANGED <<setup, submitted, lease, attempt, out, threads>>

\* A coroutine in its slot counts as failed; one that waits for its slot leaves
\* no trace in the scheduler; a shielded attempt goes on to its end.  The lease
\* of a command is released at once, that of a file write when it is done.
\* Integration has no await in it.
Cancel ==
  LET hit  == {c \in Child : phase[c] \notin {"idle", "ended"} /\ ~Shielded(c)}
      dead == {c \in hit : phase[c] \in InSlot \ {"leaving"}}
  IN
  /\ ~cancelled /\ cancelled' = TRUE
  /\ \A c \in Child : phase[c] # "integrating"
  /\ phase' = [c \in Child |-> IF c \in hit THEN "ended" ELSE phase[c]]
  /\ running' = running \ hit /\ gate' = gate \ hit
  /\ FinishFailed(dead)
  /\ IF holder \in hit /\ phase[holder] = "command"
     THEN holder' = Nobody /\ depth' = 0 ELSE UNCHANGED lease
  /\ UNCHANGED <<setup, submitted, attempt, out, threads>>

-----------------------------------------------------------------------------
Results == {"succeeded", "failed", "blocked", "raised"}

ChildStep(c) ==
  \/ Spawn(c) \/ AttemptStarts(c) \/ GetsLease(c) \/ Denied(c) \/ Granted(c) \/ EntersGate(c)
  \/ WriteEnds(c) \/ IntegrationBegins(c) \/ CommandBegins(c) \/ CommandThreadEnds(c)
  \/ Leaves(c) \/ LeaseReturned(c) \/ Decides(c)
  \/ \E r \in Results : AgentReturns(c, r) \/ IntegrationEnds(c, r) \/ CommandReturns(c, r)

Next ==
  \/ \E c \in Child :
       \/ ToolSpawns(c) \/ RouteFails(c) \/ WriteBegins(c)
       \/ ChildStep(c)
  \/ Submit \/ Cancel

\* The pump spawns what was admitted; models, commands and writes end.
Fairness == \A c \in Child : WF_vars(ChildStep(c))

Spec == Init /\ [][Next]_vars /\ Fairness

-----------------------------------------------------------------------------
Phases == InSlot \cup
  {"idle", "assigning", "wantLease", "queued", "integrating", "releasing", "deciding", "ended"}

\* The values the variables take.
TypeOK ==
  /\ setup \in Setups
  /\ submitted \in Seq(Child) /\ IsInjective(submitted)
  /\ completed \cup failed \cup blocked \cup running \cup gate \cup writing \cup commands
       \subseteq ToSet(submitted)
  /\ holder \in Child \cup {Nobody} /\ depth \in 0..2 /\ (holder = Nobody <=> depth = 0)
  /\ phase \in [Child -> Phases] /\ attempt \in [Child -> 1..2]
  /\ out \in [Child -> Results \cup {"none"}]
  /\ cancelled \in BOOLEAN

\* Who may change the workspace itself, not a copy of it: an attempt that reads,
\* edits and runs commands there, a command, an integration.
InWorkspace ==
  {c \in Child : Serialized(c) /\ phase[c] \in {"working", "writing", "wrote"}}
    \cup {c \in commands : Work(c).kind = "writeTool"}
    \cup {c \in Child : phase[c] = "integrating"}

\* "only one write-capable participant holds the workspace lease"
\* (FEATURES.md:489): attempts, commands and integrations in the workspace never
\* overlap within a run, not even with a thread that a cancellation left behind;
\* and the lease is not stranded: its holder has a coroutine or a thread that will
\* give it back.
OneWriter ==
  /\ Cardinality(InWorkspace) <= 1
  /\ holder # Nobody => phase[holder] \notin {"idle", "ended", "deciding"} \/ holder \in writing

\* The scheduler never holds two verdicts on one child, through retries.
OneVerdict == completed \cap (failed \cup blocked) = {}

\* With every lease taken inside a slot and a route for every task, whoever
\* was submitted ends: no order of slots, leases, failures and cancellation
\* leaves a child waiting for ever.
NoStandstill ==
  \A c \in Child :
    (phase[c] # "idle" /\ ~setup.serialize /\ setup.routable) ~> (phase[c] = "ended")

\* What ARCHITECTURE.md:483-486 promises: while slots remain, a task whose
\* lease can be acquired gets slot and lease together, and starts.
SlotAndLeaseTogether ==
  \A c \in Child : (phase[c] # "idle") ~> (phase[c] = "ended" \/ cancelled)
=============================================================================
