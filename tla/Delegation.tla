----------------------------- MODULE Delegation -----------------------------
(***************************************************************************)
(* Delegation in direct mode: the task calls of the lead, their admission  *)
(* as a batch, the TaskRegistry, the models and the money that             *)
(* AssignmentService gives their attempts, the lifecycle graph of a task   *)
(* with its one retry, and what the end of a run, the cancellation of a    *)
(* run and a stop of the process do to them.                               *)
(*                                                                         *)
(* A task is a task call: its packet says what it asks for.  Journal rows  *)
(* outlive the process, the registry outlives a run.  assign_attempt and   *)
(* evaluate run on executor threads, step by step, and go on when the run  *)
(* that started them has ended; the other nodes are cancelled with it.     *)
(* Slots and leases are left to ChildScheduling, plans to PlanRun.         *)
(***************************************************************************)
EXTENDS Routing, SequencesExt

CONSTANTS
  Task,        \* task calls, numbered in the order of a response
  Fingerprint,
  Packet,      \* of each: [decodes, fp, pin, fixed, limit]
  Candidates,  \* the catalog, estimates attached
  Role, Risk, Mode,
  Limit,       \* hard limit of a run, or Unknown
  LeadCost,    \* the estimate of a call of the lead: its allowance
  Outcomes,    \* statuses that a child may return
  Accounts,    \* what may become of its model calls: none, measured, uncertain
  MaxRuns, MaxStops

ASSUME DelegationAssumption ==
  /\ Task \subseteq Nat /\ IsFiniteSet(Task) /\ Mode \in {"auto", "economy", "quality"}
  /\ \A t \in Task : Packet[t].fp \in Fingerprint
  /\ Outcomes \subseteq {"succeeded", "failed", "blocked", "budget_blocked", "cancelled",
                         "returned_to_lead"}
  /\ Accounts \subseteq {"none", "measured", "uncertain"}
  /\ Limit = Unknown \/ LeadCost <= Limit

VARIABLES
  row, attempt, node,  \* tasks.status, attempts.status, the state of the plan node of the call
  bound, money,        \* assignments, and budget_reservations.status, by attempt
  usage,               \* provider_calls: none, open, measured, uncertain
  ended                \* a run has ended: the session has a checkpoint

VARIABLES
  registry, exhausted, \* TaskRegistry: _tasks, _failed_fingerprint_attempts
  planned,             \* _planned_assignments
  nodeOf               \* tasks in _plan_nodes_by_task

VARIABLES
  stage, runs, allowances,  \* of the process and its current run
  runOf,               \* the run of each task
  pc, number, out,     \* each call: where it is, its attempt, what the child returned
  driven,              \* the event loop still drives the call
  told,                \* what the lead was told
  stops,
  spent                \* history: fingerprints whose second attempt has failed

journal == <<row, attempt, node, bound, money, usage, ended>>
memory == <<registry, exhausted, planned, nodeOf>>
calls == <<pc, number, out, driven, told>>
process == <<stage, runs, allowances, runOf, stops>>
vars == <<journal, memory, calls, process, spent>>

Attempts == 1..2
NoPlan == [found |-> FALSE, binding |-> "unplanned"]

Init ==
  /\ row = [t \in Task |-> "none"] /\ attempt = [t \in Task |-> <<"none", "none">>]
  /\ node = [t \in Task |-> "none"] /\ bound = [t \in Task |-> <<Unknown, Unknown>>]
  /\ money = [t \in Task |-> <<"none", "none">>] /\ usage = [t \in Task |-> <<"none", "none">>]
  /\ ended = FALSE
  /\ registry = [t \in Task |-> "none"] /\ exhausted = [f \in Fingerprint |-> 0]
  /\ planned = [t \in Task |-> NoPlan] /\ nodeOf = {}
  /\ stage = "idle" /\ runs = 0 /\ allowances = 0 /\ runOf = [t \in Task |-> 0]
  /\ pc = [t \in Task |-> "none"] /\ number = [t \in Task |-> 1]
  /\ out = [t \in Task |-> "none"] /\ driven = [t \in Task |-> FALSE]
  /\ told = [t \in Task |-> "none"]
  /\ stops = 0 /\ spent = {}

Ours == {t \in Task : runOf[t] = runs /\ row[t] # "none"}
Goto(t, place) == pc' = [pc EXCEPT ![t] = place]

-----------------------------------------------------------------------------
(* Runs. *)

\* Failures that the journal knows of, by fingerprint.
FailedAttempts(f) ==
  Cardinality({a \in Task \X Attempts :
                 Packet[a[1]].fp = f /\ attempt[a[1]][a[2]] \in {"failed", "interrupted"}})
Returned(f) == \E t \in Task : Packet[t].fp = f /\ row[t] = "returned_to_lead"

\* Mutant: only rows that say returned_to_lead are counted.
LoadedByRows(f) == IF Returned(f) THEN Max({2, exhausted[f]}) ELSE exhausted[f]

\* TaskRegistry.load_from_journal
Loaded(f) ==
  Max({exhausted[f], FailedAttempts(f), IF Returned(f) THEN 2 ELSE 0})

\* run_instruction: a run with its lead assigned.
StartRun ==
  /\ stage = "idle" /\ runs < MaxRuns
  /\ exhausted' = [f \in Fingerprint |-> Loaded(f)]
  /\ stage' = "lead" /\ runs' = runs + 1 /\ allowances' = 0
  /\ planned' = [t \in Task |-> NoPlan] /\ nodeOf' = {}
  /\ UNCHANGED <<journal, registry, calls, runOf, stops, spent>>

Estimate(b) == IF b = Unknown \/ b.cost = Unknown THEN 0 ELSE b.cost
CommittedOf(t) ==
  LET held(n) == IF money[t][n] \in {"held", "settled"} THEN Estimate(bound[t][n]) ELSE 0
  IN held(1) + held(2)

\* What a run may still reserve; its lead holds its own estimate and its allowances,
\* and the former is all it is taken to have spent when the run has ended.
LeftOf(run) ==
  LET lead == LeadCost * (IF run = runs /\ stage # "idle" THEN 1 + allowances ELSE 1)
      children == {t \in Task : runOf[t] = run}
  IN IF Limit = Unknown THEN Unknown
     ELSE Limit - lead - FoldSet(LAMBDA t, sum : sum + CommittedOf(t), 0, children)

Less(a, b) == IF a = Unknown THEN b ELSE IF b = Unknown THEN a ELSE Min({a, b})
TaskAvailable(t) ==
  IF Packet[t].limit = Unknown THEN Unknown ELSE Packet[t].limit - CommittedOf(t)

-----------------------------------------------------------------------------
(* The admission of a batch. *)

Decoded(batch) == {t \in batch : Packet[t].decodes}

\* A response makes some of the calls that are left, in their order.
Called(batch) ==
  /\ batch # {} /\ \A t \in batch : pc[t] = "none"
  /\ \A t \in batch, u \in Task : u < t => u \in batch \/ pc[u] # "none"

\* register_many: the whole batch or none of it.
Registrable(new) ==
  /\ \A t \in new : exhausted[Packet[t].fp] < 2
  /\ \A t, u \in new : t # u => Packet[t].fp # Packet[u].fp
  /\ \A t \in new, u \in Task : registry[u] # "none" => Packet[u].fp # Packet[t].fp

\* _admit_task_batch up to the assignment: registry, plan nodes, rows.  What is not
\* admitted is answered by the validate node of its own graph.
Admit(batch) ==
  /\ stage = "lead" /\ Called(batch)
  /\ LET new == IF Registrable(Decoded(batch)) THEN Decoded(batch) ELSE {} IN
       /\ registry' = [t \in Task |-> IF t \in new THEN "queued" ELSE registry[t]]
       /\ row' = [t \in Task |-> IF t \in new THEN "queued" ELSE row[t]]
       /\ attempt' = [t \in Task |-> IF t \in new THEN <<"assigned", "none">> ELSE attempt[t]]
       /\ node' = [t \in Task |-> IF t \in new THEN "launching" ELSE node[t]]
       /\ nodeOf' = nodeOf \cup new
       /\ pc' = [t \in Task |-> IF t \in new THEN "queued"
                                ELSE IF t \in batch THEN "refused" ELSE pc[t]]
       /\ stage' = IF new = {} THEN "tools" ELSE "assigning"
  /\ runOf' = [t \in Task |-> IF t \in batch THEN runs ELSE runOf[t]]
  /\ driven' = [t \in Task |-> t \in batch]
  /\ UNCHANGED <<bound, money, usage, ended, exhausted, planned, number, out, told, runs,
                 allowances, stops, spent>>

\* The journal fails after the batch was registered: the run fails, the tasks stay.
AdmitFails(batch) ==
  /\ stage = "lead" /\ stops < MaxStops
  /\ Called(batch) /\ Decoded(batch) = batch /\ Registrable(batch)
  /\ registry' = [t \in Task |-> IF t \in batch THEN "proposed" ELSE registry[t]]
  /\ pc' = [t \in Task |-> IF t \in batch THEN "stopped" ELSE pc[t]]
  /\ stage' = "idle" /\ ended' = TRUE /\ stops' = stops + 1
  /\ UNCHANGED <<row, attempt, node, bound, money, usage, exhausted, planned, nodeOf, number,
                 out, driven, told, runs, allowances, runOf, spent>>

Need(t, n) ==
  LET mode == IF Packet[t].pin # Unknown /\ n = 1 THEN "manual" ELSE Mode
      before == bound[t][1]
  IN [mode |-> mode,
      floor |-> CapabilityFloor(Role, Risk, mode, n = 2),
      tools |-> TRUE,
      context |-> 0,
      escalated |-> n = 2,
      failedFit |-> IF n = 1 \/ before = Unknown THEN Unknown ELSE before.recorded,
      excluded |-> IF n = 2 /\ before # Unknown THEN {before.model} ELSE {}]

\* A strength is recorded only for models that automatic routing may choose.
BindingOf(c, need) ==
  [model |-> c.key, fit |-> c.fit, recorded |-> IF c.auto THEN c.fit ELSE Unknown,
   floor |-> need.floor, cost |-> c.cost]

Route(t, n, available) ==
  LET pin == IF n = 1 THEN Packet[t].pin ELSE Unknown
  IN CHOOSE r \in {SelectModel(Candidates, need, left, pin) :
                     need \in {Need(t, n)}, left \in {Less(available, TaskAvailable(t))}} : TRUE

\* assign_batch: one after another, each from what those before it have left; the
\* lead's allowance is set aside first, and reserved if any child is assigned.
BatchPicks(batch) ==
  LET available == LeftOf(runs)
      pick[t \in batch] ==
        LET cost(u) == IF pick[u].found /\ pick[u].candidate.cost # Unknown
                       THEN pick[u].candidate.cost ELSE 0
            left == IF available = Unknown THEN Unknown
                    ELSE available - LeadCost
                           - FoldSet(LAMBDA u, sum : sum + cost(u), 0, {u \in batch : u < t})
        IN CHOOSE r \in {Route(t, 1, left)} : TRUE
  IN pick

AssignBatch ==
  /\ stage = "assigning"
  /\ \E pick \in {BatchPicks({t \in Task : pc[t] = "queued"})} :
       LET chosen == {t \in Task : pc[t] = "queued" /\ pick[t].found} IN
        /\ planned' = [t \in Task |-> IF pc[t] = "queued" THEN pick[t] ELSE planned[t]]
        /\ bound' = [t \in Task |-> IF t \in chosen
                       THEN <<BindingOf(pick[t].candidate, Need(t, 1)), Unknown>> ELSE bound[t]]
        /\ money' = [t \in Task |-> IF t \in chosen THEN <<"held", "none">> ELSE money[t]]
        /\ allowances' = IF chosen = {} THEN allowances ELSE allowances + 1
  /\ stage' = "tools"
  /\ UNCHANGED <<row, attempt, node, usage, ended, registry, exhausted, nodeOf, calls, runs,
                 runOf, stops, spent>>

-----------------------------------------------------------------------------
(* The lifecycle of one call. *)

\* The validate node of a call that was not admitted.
AnswerRefused(t) ==
  /\ stage = "tools" /\ pc[t] = "refused" /\ driven[t]
  /\ Goto(t, "done") /\ told' = [told EXCEPT ![t] = "refused"]
  /\ UNCHANGED <<journal, memory, number, out, driven, process, spent>>

Tell(t, status) == told' = IF driven[t] THEN [told EXCEPT ![t] = status] ELSE told
Live(t) == t \in nodeOf /\ node[t] \in {"launching", "running"}

\* assign_attempt when no model is found, and emit_task: the attempt it blocks is
\* the one that the plan node is bound to, which is the first.  attempted is what
\* has become of the attempts before it.
Blocks(t, binding, attempted) ==
  LET status == IF binding = "budget_unaffordable" THEN "budget_blocked" ELSE "blocked" IN
  /\ registry' = [registry EXCEPT ![t] = "blocked"]
  /\ node' = IF Live(t) THEN [node EXCEPT ![t] = "blocked"] ELSE node
  /\ attempt' = [attempt EXCEPT ![t] =
       IF t \in nodeOf THEN [attempted EXCEPT ![1] = "blocked"] ELSE attempted]
  /\ row' = IF t \in nodeOf THEN [row EXCEPT ![t] = status] ELSE row
  /\ Goto(t, "done") /\ Tell(t, status)

\* assign_attempt takes what the batch has planned.
AssignFirst(t) ==
  /\ stage = "tools" /\ pc[t] = "queued" /\ driven[t]
  /\ planned' = [planned EXCEPT ![t] = NoPlan]
  /\ \/ planned[t].found
        /\ Goto(t, "start")
        /\ UNCHANGED <<registry, node, attempt, row, told>>
     \/ ~planned[t].found
        /\ Blocks(t, planned[t].binding, attempt[t])
  /\ UNCHANGED <<bound, money, usage, ended, exhausted, nodeOf, number, out, driven, process,
                 spent>>

\* run_attempt up to its waits: the task runs, for the registry and the rows,
\* before it has what it needs to run.
Start(t) ==
  /\ pc[t] = "start" /\ driven[t]
  /\ registry' = [registry EXCEPT ![t] = "running"]
  /\ node' = [node EXCEPT ![t] = "running"]
  /\ attempt' = [attempt EXCEPT ![t][number[t]] = "running"]
  /\ row' = [row EXCEPT ![t] = "running"]
  /\ Goto(t, "waiting")
  /\ UNCHANGED <<bound, money, usage, ended, exhausted, planned, nodeOf, number, out, driven, told,
                 process, spent>>

\* The lease of a shared writer, a slot of the scheduler and the gate are granted,
\* when others have given them back; the first act of the child is a model call.
Granted(t) ==
  /\ pc[t] = "waiting" /\ driven[t]
  /\ usage' = [usage EXCEPT ![t][number[t]] = "open"]
  /\ Goto(t, "work")
  /\ UNCHANGED <<row, attempt, node, bound, money, ended, memory, number, out, driven, told,
                 process, spent>>

\* The child returns; it made no call, calls that were measured, or one of which
\* nobody knows what became.
Returns(t, status, calling) ==
  /\ pc[t] = "work" /\ driven[t]
  /\ out' = [out EXCEPT ![t] = status]
  /\ usage' = [usage EXCEPT ![t][number[t]] = calling]
  /\ Goto(t, "settle")
  /\ UNCHANGED <<row, attempt, node, bound, money, ended, memory, number, driven, told, process,
                 spent>>

AttemptOf(status) ==
  CASE status \in {"succeeded", "cancelled"} -> status
    [] status \in {"blocked", "budget_blocked"} -> "blocked"
    [] OTHER -> "failed"

\* evaluate: record_settle writes the rows ...
SettleRows(t) ==
  /\ pc[t] = "settle"
  /\ attempt' = [attempt EXCEPT ![t][number[t]] = AttemptOf(out[t])]
  /\ row' = [row EXCEPT ![t] = out[t]]
  /\ spent' = IF out[t] = "failed" /\ number[t] = 2 THEN spent \cup {Packet[t].fp} ELSE spent
  /\ Goto(t, "node")
  /\ UNCHANGED <<node, bound, money, usage, ended, memory, number, out, driven, told, process>>

\* Mutant: the node of a task is settled by its first attempt.
SettleNodeEarly(t) ==
  /\ pc[t] = "node"
  /\ node' = IF Live(t) THEN [node EXCEPT ![t] = AttemptOf(out[t])] ELSE node
  /\ Goto(t, "finalize")
  /\ UNCHANGED <<row, attempt, bound, money, usage, ended, memory, number, out, driven, told,
                 process, spent>>

\* ... settles the plan node, unless another attempt will ...
SettleNode(t) ==
  /\ pc[t] = "node"
  /\ node' = IF Live(t) /\ (out[t] # "failed" \/ number[t] = 2)
             THEN [node EXCEPT ![t] = AttemptOf(out[t])] ELSE node
  /\ Goto(t, "finalize")
  /\ UNCHANGED <<row, attempt, bound, money, usage, ended, memory, number, out, driven, told,
                 process, spent>>

\* _finalize_assignment_budget: nothing is released while a call may have happened.
Finalized(state, calling) ==
  CASE state # "held" \/ calling \in {"open", "uncertain"} -> state
    [] calling = "measured" -> "settled"
    [] calling = "none" -> "released"

\* ... and finalizes the money of the attempt.
FinalizesMoney(t) ==
  /\ pc[t] = "finalize"
  /\ usage' = [usage EXCEPT ![t][number[t]] = IF @ = "open" THEN "uncertain" ELSE @]
  /\ money' = [money EXCEPT ![t][number[t]] = Finalized(@, usage[t][number[t]])]
  /\ UNCHANGED <<row, attempt, node, bound, ended, planned, nodeOf, out, driven, process, spent>>

Settled(t) == usage[t][number[t]] \in {"none", "measured"} \/ out[t] = "cancelled"
Retried(t) == out[t] = "failed" /\ number[t] = 1

\* A call of unknown outcome is an error, unless the child was cancelled.
Raises(t) ==
  /\ FinalizesMoney(t) /\ ~Settled(t)
  /\ Goto(t, IF driven[t] THEN "raised" ELSE "stopped")
  /\ UNCHANGED <<registry, exhausted, number, told>>

\* The rest of evaluate: the lead is told, or the task is queued again.
CloseTask(t) ==
  /\ FinalizesMoney(t) /\ Settled(t) /\ ~Retried(t)
  /\ LET verdict == IF out[t] = "failed" THEN "returned_to_lead" ELSE out[t] IN
       /\ registry' = [registry EXCEPT ![t] = verdict]
       /\ exhausted' = IF verdict = "returned_to_lead"
                       THEN [exhausted EXCEPT ![Packet[t].fp] = 2] ELSE exhausted
       /\ Tell(t, verdict)
  /\ Goto(t, "done")
  /\ UNCHANGED number

\* Mutant: the queue forgets a task that was queued again.
RequeueLost(t) ==
  /\ FinalizesMoney(t) /\ Settled(t) /\ Retried(t)
  /\ registry' = [registry EXCEPT ![t] = "queued"]
  /\ number' = [number EXCEPT ![t] = 2]
  /\ Goto(t, "stopped")
  /\ UNCHANGED <<exhausted, told>>

Requeue(t) ==
  /\ FinalizesMoney(t) /\ Settled(t) /\ Retried(t)
  /\ registry' = [registry EXCEPT ![t] = "queued"]
  /\ number' = [number EXCEPT ![t] = 2]
  /\ Goto(t, IF driven[t] THEN "retry" ELSE "stopped")
  /\ UNCHANGED <<exhausted, told>>

Repinned(t) == Packet[t].fixed /\ Packet[t].pin = bound[t][1].model

\* assign_attempt of the second attempt: its row, whatever comes of it.  A profile
\* that is pinned to the model that failed has no other.
CreateSecond(t) ==
  /\ pc[t] = "retry" /\ driven[t]
  /\ LET running == [attempt[t] EXCEPT ![2] = "running"] IN
     \/ Repinned(t) /\ Blocks(t, "model_excluded", running)
     \/ ~Repinned(t)
        /\ attempt' = [attempt EXCEPT ![t] = running]
        /\ Goto(t, "route")
        /\ UNCHANGED <<registry, node, row, told>>
  /\ UNCHANGED <<bound, money, usage, ended, exhausted, planned, nodeOf, number, out, driven,
                 process, spent>>

\* The graph refuses an assignment whose floor is not higher by the escalation step.
FloorRaised(t, r) ==
  LET before == bound[t][1].floor
  IN before = Unknown \/ Need(t, 2).floor >= EscalationFloor(before)

RouteSecond(t) ==
  /\ pc[t] = "route"
  /\ \E r \in {Route(t, 2, LeftOf(runOf[t]))} :
     \/ /\ ~r.found
        /\ Blocks(t, r.binding, [attempt[t] EXCEPT ![2] = "failed"])
        /\ UNCHANGED <<bound, money>>
     \/ /\ r.found
        /\ bound' = [bound EXCEPT ![t][2] = BindingOf(r.candidate, Need(t, 2))]
        /\ money' = [money EXCEPT ![t][2] = "held"]
        /\ Goto(t, IF ~driven[t] THEN "stopped"
                   ELSE IF FloorRaised(t, r) THEN "start" ELSE "raised")
        /\ UNCHANGED <<registry, node, attempt, row, told>>
  /\ UNCHANGED <<usage, ended, exhausted, planned, nodeOf, number, out, driven, process, spent>>

-----------------------------------------------------------------------------
(* How a run ends. *)

\* All calls of the batch are answered, and the lead is asked again.
LeadContinues ==
  /\ stage = "tools" /\ \A t \in Task : driven[t] => pc[t] = "done"
  /\ stage' = "lead" /\ driven' = [t \in Task |-> FALSE]
  /\ UNCHANGED <<journal, memory, pc, number, out, told, runs, allowances, runOf, stops, spent>>

Completes ==
  /\ stage = "lead"
  /\ stage' = "idle" /\ allowances' = 0 /\ ended' = TRUE
  /\ UNCHANGED <<row, attempt, node, bound, money, usage, memory, calls, runs, runOf, stops, spent>>

\* Mutant: only the task's current attempt is looked at, once it has started.
SweptStarted(t, n) ==
  IF attempt[t][n] = "assigned" THEN money[t][n] ELSE Finalized(money[t][n], usage[t][n])

\* _finalize_child_budgets
Swept(t, n) == Finalized(money[t][n], usage[t][n])

OnLoop == {"refused", "queued", "start", "waiting", "work", "retry", "raised"}

\* The except path of the run: calls that are on the event loop are cancelled, what
\* runs on a thread goes on; the money of the children is finalized.
EndRun ==
  /\ stage' = "idle" /\ allowances' = 0 /\ ended' = TRUE
  /\ driven' = [t \in Task |-> FALSE]
  /\ pc' = [t \in Task |->
       IF pc[t] \in OnLoop THEN "stopped" ELSE pc[t]]
  /\ usage' = [t \in Task |-> [n \in Attempts |->
       IF t \in Ours /\ usage[t][n] = "open" THEN "uncertain" ELSE usage[t][n]]]
  /\ money' = [t \in Task |-> [n \in Attempts |-> IF t \in Ours THEN Swept(t, n) ELSE money[t][n]]]
  /\ UNCHANGED <<row, attempt, node, bound, memory, number, out, told, runs, runOf, stops, spent>>

Cancel == stage \in {"lead", "tools"} /\ EndRun
Fails == (stage = "lead" \/ \E t \in Task : pc[t] = "raised") /\ stage # "assigning" /\ EndRun

\* The process stops at any point.
Stop ==
  /\ stage # "down" /\ stops < MaxStops /\ stops' = stops + 1
  /\ stage' = "down" /\ allowances' = 0
  /\ registry' = [t \in Task |-> "none"] /\ exhausted' = [f \in Fingerprint |-> 0]
  /\ planned' = [t \in Task |-> NoPlan] /\ nodeOf' = {}
  /\ driven' = [t \in Task |-> FALSE]
  /\ pc' = [t \in Task |-> IF pc[t] \in {"none", "done"} THEN pc[t] ELSE "stopped"]
  /\ UNCHANGED <<journal, number, out, told, runs, runOf, spent>>

\* The session is continued as it is.
Continue ==
  /\ stage = "down" /\ stage' = "idle"
  /\ UNCHANGED <<journal, memory, calls, runs, allowances, runOf, stops, spent>>

InFlight(t, n) == attempt[t][n] \in {"assigned", "running"}
Orphan(t) == row[t] = "running" \/ \E n \in Attempts : InFlight(t, n)
Ambiguous(t) == \E n \in Attempts : usage[t][n] \in {"open", "uncertain"}
Launched(t) == node[t] \in {"launching", "running"}

\* The session is resumed, which takes a checkpoint: recover_session, and
\* reconcile_plan_node_executions, which blocks the nodes that were launched.
Resume ==
  /\ stage = "down" /\ ended /\ stage' = "idle"
  /\ attempt' = [t \in Task |-> [n \in Attempts |->
       IF InFlight(t, n) \/ (n = 1 /\ Launched(t)) THEN "interrupted" ELSE attempt[t][n]]]
  /\ row' = [t \in Task |-> IF Launched(t) THEN "blocked"
                            ELSE IF row[t] = "running" THEN "returned_to_lead" ELSE row[t]]
  /\ node' = [t \in Task |-> IF Launched(t) THEN "blocked" ELSE node[t]]
  /\ money' = [t \in Task |-> [n \in Attempts |->
       IF money[t][n] = "held" /\ Orphan(t) /\ ~Ambiguous(t) THEN "released" ELSE money[t][n]]]
  /\ UNCHANGED <<bound, usage, ended, memory, calls, runs, allowances, runOf, stops, spent>>

Next ==
  \/ StartRun \/ AssignBatch \/ LeadContinues \/ Completes \/ Cancel \/ Fails
  \/ Stop \/ Continue \/ Resume
  \/ \E batch \in SUBSET Task : Admit(batch) \/ AdmitFails(batch)
  \/ \E t \in Task :
       \/ AnswerRefused(t) \/ AssignFirst(t) \/ Start(t) \/ Granted(t)
       \/ \E status \in Outcomes, calling \in Accounts : Returns(t, status, calling)
       \/ SettleRows(t) \/ SettleNode(t) \/ Raises(t) \/ CloseTask(t) \/ Requeue(t)
       \/ CreateSecond(t) \/ RouteSecond(t)

\* A task graph is driven to its end, a thread that has started runs, a child
\* answers or is cut off by its timeout, and so is the lead.  That a lease or a slot
\* is granted is not up to the task that waits for it, and is not assumed.
Advance(t) ==
  \/ AnswerRefused(t) \/ AssignFirst(t) \/ Start(t)
  \/ \E status \in Outcomes, calling \in Accounts : Returns(t, status, calling)
  \/ SettleRows(t) \/ SettleNode(t) \/ Raises(t) \/ CloseTask(t) \/ Requeue(t)
  \/ CreateSecond(t) \/ RouteSecond(t)

Fairness ==
  /\ \A t \in Task : WF_vars(Advance(t))
  /\ WF_vars(AssignBatch) /\ WF_vars(LeadContinues)
  /\ WF_vars((\E t \in Task : pc[t] = "raised") /\ Fails)

Spec == Init /\ [][Next]_vars /\ Fairness

-----------------------------------------------------------------------------
(* Properties. *)

Statuses == {"succeeded", "failed", "blocked", "budget_blocked", "cancelled", "returned_to_lead"}
TaskStates == Statuses \cup {"none", "proposed", "queued", "running"}
AttemptStates == {"none", "assigned", "running", "succeeded", "failed", "blocked", "cancelled",
                  "interrupted"}
NodeStates == {"none", "launching", "running", "succeeded", "failed", "blocked", "cancelled"}

\* The values the variables take.
TypeOK ==
  /\ row \in [Task -> TaskStates] /\ registry \in [Task -> TaskStates]
  /\ attempt \in [Task -> [Attempts -> AttemptStates]] /\ node \in [Task -> NodeStates]
  /\ money \in [Task -> [Attempts -> {"none", "held", "settled", "released"}]]
  /\ usage \in [Task -> [Attempts -> {"none", "open", "measured", "uncertain"}]]
  /\ exhausted \in [Fingerprint -> Nat] /\ nodeOf \subseteq Task
  /\ stage \in {"idle", "lead", "assigning", "tools", "down"} /\ ended \in BOOLEAN
  /\ driven \in [Task -> BOOLEAN] /\ number \in [Task -> Attempts]
  /\ pc \in [Task -> {"none", "refused", "queued", "start", "waiting", "work", "settle", "node",
                      "finalize", "retry", "route", "raised", "stopped", "done"}]
  /\ told \in [Task -> Statuses \cup {"none", "refused"}]

\* A fingerprint whose second attempt has failed is never attempted again in the
\* session, in a later run or after a restart, with recovery or without
\* (TaskRegistry.register_many, load_from_journal; SPEC.md, attempt-two failure, 4).
ExhaustedStaysExhausted ==
  [][\A t \in Task : row[t] = "none" /\ row'[t] # "none" => Packet[t].fp \notin spent]_vars

\* What the lead was told of a task is what the journal says of it, in the row of
\* the task and in the plan node of the call, for as long as the session lives
\* (evaluate, record_settle, emit_task, _settle_plan_node; recovery rewrites what
\* was launched).  After a second failure the row says failed.
VerdictAgrees ==
  \A t \in Task :
    /\ told[t] = "refused" => row[t] = "none" /\ node[t] = "none"
    /\ told[t] \in Statuses =>
         /\ row[t] = told[t] \/ (told[t] = "returned_to_lead" /\ row[t] = "failed")
         /\ node[t] = AttemptOf(told[t])
    /\ told[t] = "succeeded" => attempt[t][number[t]] = "succeeded"

AtRest == stage = "idle" /\ \A t \in Task : pc[t] \in {"none", "done", "stopped"}

\* Between runs no reservation of a child is held but for a call of unknown outcome,
\* or for a second attempt that a thread was routing while its run ended, and which
\* still counts as running (_finalize_assignment_budget, _finalize_child_budgets).
\* A stop of the process leaves reservations to the recovery.
EndedHoldsNothing ==
  AtRest /\ stops = 0 =>
    \A t \in Task, n \in Attempts : money[t][n] = "held" =>
      usage[t][n] = "uncertain" \/ (n = 2 /\ attempt[t][n] = "running")

\* Every call of a batch is answered, or the run ends, as long as no task is left
\* waiting for its lease or its slot forever: then the lead does not wait forever
\* either, through refusals, retries, second assignments and calls of unknown outcome
\* (the graph of build_task_graph).  Whether they are granted is ChildScheduling's
\* question.
CallsAnswered ==
  (\A t \in Task : []<>(pc[t] # "waiting")) => (stage = "tools" ~> stage # "tools")

=============================================================================
