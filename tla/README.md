# A TLA+ model of Skail

Skail runs a *lead* model that plans work and *child* agents that carry it out in
a Git workspace, under a money budget, with everything that happened kept in an
SQLite journal so that a run survives a crash, and shows it in a terminal.  This directory
holds TLA+ modules for it, TLC configurations that check them on small instances, and proofs
for TLAPS.  Paths below are relative to the repository; the implementation is
`src/skail/` and is cited as `src/src/skail/` in `PROJECT.json`, whose `map` gives
the source lines of every definition.

Contents: [inventory](#1-inventory), [modules](#2-modules-and-the-code),
[runs](#3-runs-bounds-and-what-they-show), [fairness](#4-fairness),
[proofs](#5-proofs), [disagreements](#6-where-code-and-documents-disagree),
[abstractions](#7-what-the-models-leave-out), [plan](#8-plan).

## 1. Inventory

| component | state | operations | interacts with | hard behaviour | correct when | module |
|---|---|---|---|---|---|---|
| **plan journal** `sessions/journal.py`, `domain/plans.py` | `execution_plans`, `plan_nodes`, `plan_node_states`, `plan_node_executions` | admit, revise, transition (CAS), begin/settle execution, approved retry, reconcile | called by controller, scheduler-side threads and recovery, each call one `BEGIN IMMEDIATE` | any order of endings, revisions over a running plan, failure propagation | no launch before dependencies; no forgotten release; history is never rewritten | `PlanJournal` |
| **transactions and events** `sessions/journal.py`, `runtime/event_bus.py` | events, the write lock, savepoints, callbacks after a commit | begin, nest, commit, roll back, list, snapshot | every writer; the terminal | callbacks of a nested rollback, threads that commit between the reads of a snapshot | what is shown is committed, and all of it | `Projection` |
| **run controller** `runtime/run_controller.py` | the run's row, the pump's dict of tasks, the pending run and its interrupt, checkpoint references | start, admit, pump, checkpoint turn, settle, close, park, resume, reject, restore | everything | cancellation with threads still running, crash between any two transactions | agents start once; the pump neither stops early nor sleeps for ever; a question is not lost | `PlanRun`, `LeadSession`, `Delegation` |
| **decision gate** `runtime/decisions.py` | the verdict on each call, the persisted decision | evaluate, repair, persist | lead agent, controller | one response with several calls; a gate built anew by a resumption | no tool works without a decision | `LeadSession`, `PlanRun` |
| **child scheduler and gate** `runtime/scheduler.py`, `deepagents_adapter.py` | sets of completed, failed, blocked, running; semaphore | submit, ready, execute, finish, retry | task graph, plan tools | slot order, retries, cancellation | bounded slots; one verdict per child; no free slot refused for ever | `ChildScheduling` |
| **workspace lease** `runtime/leases.py`, `tools/backend.py` | holder, depth | acquire, hold, release | agents, tools, integration | re-entrance, cancellation while a thread acquires | one writer; no lease left behind | `ChildScheduling` |
| **task graph** `agents/task_graph.py` | per-child graph state | assign, run, evaluate, retry | all of the above | steps on executor threads | journal and plan tell the same story | `ChildScheduling`, `PlanRun`, `Delegation` |
| **task registry** `runtime/task_registry.py`, `task_validation.py`, `domain/tasks.py` | task states in memory, fingerprints | admit, move, reload | controller, journal | memory beside rows, over runs and recoveries | the lead is told what the rows say; a used-up fingerprint stays used up | `Delegation` |
| **budget ledger** `routing/budget.py` | reservations, usage rows, warning flag | reserve, batch, release, settle | assignment, recovery | limits under concurrency, late reports | money is counted once; only actual costs overshoot | `BudgetLedger` |
| **assignment service** `routing/assignment.py` | provider-call rows, call usage rows, open failures, effort locks | assign, batch, fallback, begin, record, settle, reconcile | ledger, selector, controller, command line | ambiguous calls, late answers | no request is sent twice; what is known is booked; the unknown keeps its money | `CallAccounting`, `Delegation` |
| **selector, requirements, estimates** `routing/` | none (pure) | choose | assignment | ties, floors | cheapest model that meets the floors | `Routing` |
| **model calls** `runtime/model_middleware.py` | call counters | begin, succeed, reject, leave ambiguous | assignment, monitor | loss between send and answer | no unrecorded spending | `CallAccounting` |
| **failure monitor** `runtime/failure_monitor.py`, `escalation.py` | counters, windows | observe | model calls | a count that a restart must not reset | limits bite exactly; the loop ends | `LeadSession` |
| **command approvals** `tools/approvals.py`, `execution.py` | grants | evaluate, grant, consume | interrupts | a call that is replayed after its grant was used | a command runs only under a grant, and once | `LeadSession` |
| **interrupts** `runtime/interrupts.py` | questions | ask, answer, cancel | checkpoints, terminal | several calls ask at once | no answer to the wrong question | `LeadSession` |
| **checkpoint references** `sessions/checkpoints.py` | latest reference per session | record, latest, stale | controller | older than the work it describes | a waiting question survives | `PlanRun`, `LeadSession` |
| **session recovery** `sessions/recovery.py` | none of its own | reconcile attempts, tasks, reservations | journal, ledger | runs after any crash | live work stays live; uncertain money stays held | `CallAccounting`, `Delegation`, `LeadSession` |
| **session service, locking** `sessions/service.py`, `locking.py` | session rows, lock file | create, resume, close | recovery | status against a pending run | – | `LeadSession` (status only) |
| **change sets, workspaces** `runtime/changeset_integration.py`, `workspaces.py`, `workspace_capture.py` | change set rows, worktrees | capture, integrate, retain, clean up | lease, tools | crash between file and row | stale work refused; a half-done integration is located; no work thrown away | `ChangeSets` |
| **terminal** `tui/app.py`, `widgets/composer.py`, `widgets/interrupts.py` | queue, workers, cards, the composer's copy | submit, queue, answer, cancel, quit | controller | messages handled later than decided, workers that end while others wait | a prompt is somewhere; one foreground run | `Terminal` |
| **projection** `tui/projection.py` | rail, plan, card, transcript | apply event, result, snapshot | events | live events beside a snapshot | view equals journal | `Projection` |
| **agents** `agents/lead.py`, `profiles.py`, `context.py`, … | none that lasts | controls of an instruction, prompts, parsing | controller | model output | – | `LeadSession` (controls) |
| **compaction, export** `sessions/`; **providers, catalog** `providers/`; **configuration, trust** `config/`; **command line** `cli/`; **documents** `tools/document_reader.py`; **evals, benchmarks, scripts** | – | – | – | – | – | not modelled |

How a run flows: a person *submits* a prompt in the terminal, a worker calls the
controller, which starts a run and its lead.  Each response of the lead is judged by the
*decision gate* and its calls run side by side; a call may ask the person, which *parks*
the run until it is resumed or rejected, in this process or the next.  `task` calls become
a batch of tasks in the *registry*; a submitted plan is *admitted* in the journal, and the
*pump* gives each launched node a worker (an asyncio task running the task graph of the
agent, or the plan tool).  A worker reserves money (*assignment* → *ledger*), asks for its
slot (*scheduler*, *gate*) and for the workspace (*lease*), works, has its change set
integrated, and settles its task and then its node; the settlement releases or blocks
dependents in the journal, the pump finds them, and so on.  A checkpoint node wakes the
lead, which may *revise* the plan.  Every transaction hands its events to the terminal
after its commit.  The event loop runs the pump and most of a worker, but the
synchronous graph nodes (`assign_attempt`, `evaluate`), commands and file writes
run on executor threads, which no cancellation stops.

The hazards, each at its line, are in `PROJECT.json`.

## 2. Modules and the code

**`PlanJournal`** – the durable plan coordinator (`journal.py:1179-1975`, graph
validation in `domain/plans.py`).  State: `revision`, `active` and `retired` local
ids, `payload` (kind, dependencies, lineage), `status` (`plan_node_states`), `exec`
and `result` (`plan_node_executions`).  One action per transaction: `AdmitPlan`,
`Transition`, `BeginExecution`, `SettleExecution`, `RetryApprovedTool`,
`ReconcileNode`, `ReconcileUnlaunched`, `RevisePlan`.  A call the code refuses
raises before it writes, so it is no step.  `After` is what
`transition_plan_node_state` does beyond the node itself: release the dependents
whose dependencies have all succeeded, block all that is downstream of a death.

**`PlanRun`** – one planned run of the controller, from the lead's submission to the
end, through crashes, restarts and resumes.  `main` is the program counter of the
controller; `worker[n]` that of the worker of node `n`; `running`, `admitted`,
`dispatches`, `slot` are the pump's locals; `task`, `bound`, `run`, `decision`, `ref`
are rows outside the plan tables.  Each journal transaction is a step, so a crash
(`Crash`, which loses everything but the rows) falls between any two.  `Close*` is the
`finally` clause of the pump, with the read, overwrite, compare-and-set and task
update as separate steps because executor threads run between them.  The plan tables
are driven through `J == INSTANCE PlanJournal`; that every write is one of its
operations is checked as the refinement `ImplementsJournal == J!Spec`, not assumed.

**`ChildScheduling`** – who may run and who may write: scheduler sets, gate and
lease, with reading and writing agents and plan tools.  The important detail is the
*order* of acquisition: a writing agent of a shared workspace takes the lease before its slot;
in worktree mode it takes it inside the slot, for the integration; a
writing plan tool always takes it inside.  `Cancel` cancels every coroutine at once,
with the shield that lets an attempt which holds the lease finish.

**`BudgetLedger`** – the money of one run: `state` (reserved, released, settled),
`amount`, `usage` and `cost` (usage rows and authority), `latch`
(`budget_warning_state`), `warnings` (events emitted).  Actions: `Assign`, `Fallback`
(release one, reserve another), `AssignBatch` (tasks plus the lead's allowance),
`Release`, `Settle`, `ReleaseOrphaned` (the recovery).  `LedgerSpec` takes them in any order.

**`CallAccounting`** – the provider calls of one run.  It extends `BudgetLedger`: an
attempt has one reservation, and its steps use the ledger's operations.  Rows:
`call` (`provider_calls`), `recorded` (`assignment_call_usage`), `failure` and `broken`
(`accounting_reconciliation_failures`, with and without a call).  Around them: `phase[a]`,
how far the worker of an attempt is; `asked` and `saved`, which requests the transcript of
an attempt and the checkpoint of the lead contain; `marked`, finalizations between
marking the lost calls and moving the money; `sent`, which counts what reaches
the provider.  Actions: the middleware around a call (`Calls`, `Answered`,
`AnsweredUnrecorded`, `Rejected`, `Ambiguous`, `OutcomeLost`), the three ways an
attempt is finalized (its worker, the sweep at the end of the run, `CompletesResumed` and
`RejectSettles` of a resumed or rejected lead), an operator's `Reconcile`, `Crash` and `Recover`.

**`ChangeSets`** – writing agents in worktrees.  On disk: `canon` and `head` (the
canonical checkout and its commit), `snap` (the snapshot a run starts from, with the
digests it recorded and the copies it made), `tree[t]` (worktrees), `retained` (records of
worktrees kept after a failure); in the journal: `rows`, one change set per attempt with
its status and the files marked as applied; in memory: `isolated` (`_workspace_snapshot`),
`phase`, `attempt`, `out`, `left` and the lease's `holder`.  Actions: the capture of the
snapshot file by file (`StartRun`, `CapturePath`, `CaptureTorn`, `CaptureEnds`), the life of a task's worktree
(materialize or resume, work, capture, record, scope and base checks, retention, clean-up), the
integration as the code orders it (row `applying`, then replace and mark each file, then row
`integrated`, with a stop or a failure at any of them), edits by a person, the lead's own
writes, and `Crash` with restart.  Two histories tell who wrote into an integration: `touched` (anybody but the
change set itself, since its row) and `saved` (a person, since its check of the base).

**`Delegation`** – batches of `task` calls of the lead over several runs: the admission of a
whole batch into the registry and the rows, a first and a second attempt, and what the lead is told.
Rows: `row`, `attempt`, `node`, `bound` (assignments), `money` (reservations), `usage`.  Memory:
`registry` and `exhausted` (attempts counted for a fingerprint), which outlive a run,
`planned` and `nodeOf`, which do not.  `pc[t]` is where a call is, `driven` whether the event loop
still drives it, `told` what the lead heard.  A task that was started waits (`waiting`) until others let it have
its lease and its slot (`Granted`); how they are granted is `ChildScheduling`'s matter.  Routing is real: the models of a first and a second
attempt come from **`Routing`**, the selector as operators (floors, the first objection to a
candidate, the rank, the constraint a failure names).  `Cancel` and `Fails` run the sweep while
threads still work, `Stop` loses the registry, `Resume` is the recovery that rewrites rows.

**`LeadSession`** – the lead of a run and the person.  Rows: `row[r]` (status of run and
attempt, decision, what its events tell), `question`, `approval`, the checkpoints `graph[r]` of the
lead's thread, and `ref`, the newest reference.  Memory: where the loop is (`stage`), the gate, the
verdicts on the calls of the response, the monitor, `begun` (model calls started), the pending
run and what the terminal shows.  A response is a sequence of calls that run side by side; a
resumption replays those that waited, which is where a second consent or the wrong answer could
come in.  `heard`, `ran` and `worked` are ghosts.  Actions follow the controller: `Instruct`,
`BeginCall`/`Respond`/`CallFails`, one action per kind of call, `Park`, `Refer`, `Record`, `Resume`
and its failures, `Reject`, `Cancel`, `Stop`, `Reopen`, `Recover`, `Restore`.

**`Terminal`** – the prompts of a person from the composer to the controller.  `inbox` are
messages posted and not yet handled; `composer` its own copy of `queue` and `runActive`;
`workers` the coroutines that are inside the controller or wait for another to end (`at`), told to stop
or not, with a cancellation on its way to them or not: that of a follow-up that waits goes to the worker it waits for
(`Reached`); `takenBack` a history of the prompts taken back; `card` the question or approval on the screen, `open` and `waiting` what the
stores and the controller hold.  One action per message handler (`HandleMessage` in order of
posting), per step of a worker, per card button, and for start-up and quitting.

**`Projection`** – events from the journal to the screen.  Writers (the event loop and threads of
tools) open transactions and savepoints (`txn`); a commit moves its `events` into `log` and its `writes` into `rows`; the
callbacks of a thread then wait in `calls` for the loop (`Deliver`), those of the loop run in place.  `view` is the
rail, plan, card and transcript with `seen`, the ids already applied; a snapshot is three reads
(`ReadTasks`, `ReadEvents`, `ReadPlans`) between which threads commit, then replayed over the view.  `overtaken` is a history
of the plan nodes that were written again while a thread still had an older event about them to hand over.

The `*Proofs` modules hold the theorems (`AccountingProofs` those of `BudgetLedger` and `CallAccounting`,
`TuiProofs` those of `Terminal` and `Projection`, so the specification of the latter is called `ViewSpec`, and their types `TerminalTypeOK` and `ViewTypeOK`); the `MC*` modules hold the values of the constants.  An operator that no
specification uses, placed just before the definition it resembles (`ReleasedByAny`,
`StillOpenWithItself`, `Mutant_Resume`, …), is a *mutant*: a plausible bug with which a property
is seen to fail.  `PROJECT.json` lists at least one for each property of a passing run.

## 3. Runs, bounds and what they show

| run | instance | distinct states | shows |
|---|---|---|---|
| `plan_journal` | 4 ids: chains of agents, tool and checkpoint, a fork and a join, and plans the code refuses (cycle, self loop, dangling edge); 3 revisions | 179k | `DependenciesSucceeded`, `NoLostRelease`, `DeathReachesDependents`, `HistoryFrozen` |
| `plan_run` | an agent and a tool side by side, a checkpoint after both, an agent a revision may add; 2 crashes | 129k | `AgentLaunchesOnce`, `TasksMatchPlan`, the refinement `ImplementsJournal`, and `PumpRests` (liveness) |
| `child_scheduling` | 3 children, 5 workloads: both modes, 1 and 2 slots, priorities, dependencies, no routes | 199k | `OneWriter`, `OneVerdict`, and `NoStandstill` (liveness) |
| `budget` | 2 tasks, 3 attempts and the lead's allowance, limit 5, warning at 80 % | 516k | `UsageReplacesReservation`, `OnlyCostsOvershoot`, `BookedOnlyImproves` |
| `calls` | the lead and a child, 2 requests each, costs below and above the estimate, or none; 1 crash; requests symmetric | 1.38M | `RequestSentOnce`, `UncertainKeepsMoney`, `SettledCoversCalls`, `OvershootBounded` |
| `changesets` | 2 tasks that share one of 2 files, 2 attempts each; 1 edit by a person, 1 stop or failure | 703k | `AppliesToItsBase`, `InDoubtIsLocated`, `UnintegratedWorkKept`, and `IntegrationEnds` (liveness) |
| `delegation` | 3 calls, two of one fingerprint, one pinned; 2 runs; 5 models; 1 stop; automatic mode | 280k | `VerdictAgrees`, `EndedHoldsNothing`, `ExhaustedStaysExhausted`, and `CallsAnswered` (liveness) |
| `lead_session` | 1 run, 3 model calls, responses of one and two calls of every kind, 5 instructions, 3 sets of controls; 1 stop | 282k | `RunsUnderConsent`, `AnswersFitTheirQuestion`, `QuestionSurvives`, `WorkFollowsDecision`, and `LeadEnds` (liveness) |
| `terminal` | 3 prompts, 2 interrupts, 2 answers, 1 command or prompt taken back | 283k | `NoPromptVanishes`, `OneForegroundRun`, and `QueuedRuns` (liveness) |
| `projection` | 1 tool thread and the loop, 3 events, 2 writes a transaction, 1 snapshot, 1 rollback, 1 restart | 357k | `ShownIsCommitted`, `ViewFollowsJournal`, and `EventsAreShown` (liveness) |
| `child_scheduling_shared`, `lead_second_run` | as above; 2 runs and no stop for the second | – | one violated document each, section 6 |

Every module states the type of its variables as `TypeOK` (`TerminalTypeOK`, `ViewTypeOK`).  For the journal and the ledger it is
proved (`TypeCorrect`, `LedgerTyped`), as for `Terminal` (`TerminalTyped`), `Projection` (`ViewIsTyped`) and `LeadSession` (`LeadTyped`), whose
type says more than its name: the calls of a run stay within `MAX_MODEL_CALLS_PER_RUN` through restarts
(`started : 0..CallLimit`), and a run has no more repairs than the gate grants.  For the other five it holds under the bounds of their run and is left out of it.

Why the bounds suffice:

* *`plan_journal`*: chains of three, a fork and a join are what releases and blocks
  travel along; the same properties are proved for every `Node` and every graph.  Two
  revisions are needed to replace what a revision added, and a third to revise after
  that; `MaxRevision` bounds the counter only.
* *`plan_run`*: two nodes in parallel are what races need; one sequential node
  after them exercises release, one added by a revision exercises admission from a
  checkpoint.  A second crash is needed for a recovery that itself dies
  (`MaxCrashes = 2`).
* *`child_scheduling`*: a holder, a waiter and a third that is first in line; two
  slots are the smallest number with a slot free while another is taken.  `OneWriter` is
  proved for any number.
* *`budget`*: the limit binds at three attempts; costs below, at and above the
  estimates, and a limit of one task below the run's.  Money is a natural number, as
  the code's decimals are exact.
* *`changesets`*: two tasks compete for one path and one of them has a path of its own, so
  that an integration can be stale, partial, or both.  `MaxEdits = 1`: one edit between
  any two steps makes a base stale; `MaxFaults = 1`: one failure or stop anywhere, which
  includes the middle of an integration.
* *`calls`*: two requests let one be lost and another answered in one attempt; two
  attempts let one finalize while the other calls, and pass the limit side by side
  (limit 4, costs 1 and 3); a crash after a resume makes the restored lead ask again.
* *`delegation`*: the third call asks for what the first asked for, so that a fingerprint can be
  used up by one run and asked for again in the same batch, the next run and the next process; the
  limit of 20 pays for one expensive retry beside the others, so that a second attempt can fail for
  want of money, of a stronger model, or in its work.
* *`lead_session`*: three model calls are a decision, a question or command, and what follows
  it; two calls in a response are what an order matters for.  One stop falls between any two rows,
  and a resumption may follow it and be resumed again.  `LastRun = 1` because of the second
  disagreement of section 6: with two runs `WorkFollowsDecision` fails for the reason given there.
* *`terminal`*: one prompt runs, one is queued behind it, one is refused or discarded; two
  interrupts let a resumed run ask again.
* *`projection`*: the second write of a transaction is the one that a nested rollback drops; a
  thread's event can be committed before, between and after the reads of a snapshot.

Deadlock checking is off: every modelled run may end.  That nothing hangs *before*
its end is what the liveness properties say.

## 4. Fairness

Nothing a person does is fair, nor is a crash or a stop.

* `PlanRun`: weak fairness of `PumpStep` and of every `WorkerStep(n)`: the event
  loop goes on and executor threads are scheduled, and a call to a provider or a command
  answers or times out.
* `ChildScheduling`: weak fairness of each child's step.  A wait on a condition is a guard: the
  code re-checks under the condition and notifies on every change.
* `ChangeSets`: weak fairness of what a finished child and its integration do by themselves, and strong
  fairness of a capture, which an edit elsewhere and the other holders of the lease disable for a while.  That
  somebody cancels a wait for the lease (`WaitCancelled`) is not fair: `IntegrationEnds` does not lean on it.
* `Delegation`: weak fairness of the steps of each call, of the batch's assignment, and of the
  lead going on with the results of its batch.  That lease and slot are granted (`Granted`) is not fair, since
  it is not up to the task and disagreement 1 of section 6 shows two tasks that wait for each other;
  `CallsAnswered` says instead what follows if no task waits for them for ever.
* `LeadSession`: weak fairness of `LeadStep`: providers answer or fail, and commands end.
  The first has a timeout in the code; the second is an assumption about the commands, which the
  execute tool gives no timeout of its own.
* `Terminal`: weak fairness of the message loop, of the answer to the start-up request, of `Exit`,
  and of the workers: a run ends, parks or notices that it was cancelled.
* `Projection`: strong fairness of `Commit`, of the loop's `Begin` (a loop that tries again gets
  the lock although threads take it in between) and of `Deliver` (a callback posted to the loop has
  its place in the FIFO ready queue); weak fairness of a snapshot's reads and of a nested rollback.
  A thread goes on only when its events were delivered, as `call_from_thread` waits.

`PlanJournal`, `BudgetLedger` and `CallAccounting` have no fairness: the first two only answer
calls, and of the third only safety is stated.

## 5. Proofs

Assumptions are the named `ASSUME`s of the modules: `Node` and `Task` are finite, submissions are
functions from node sets to payloads, files and task calls are numbered, limits and amounts are
natural numbers, a restored run may wait on an interrupt, the rows of a ledger are finite and the costs of calls have a largest, which a
model's window and prices give them (`CostAssumption`), responses of the lead are sequences of calls of which there is
a longest, as a provider's limit of output tokens makes it, results and outcomes are among those the code has.  `PlanRun` adds that a node is
not one of the boundaries a checkpoint reference may have, and says of its submissions what the
journal asks for.  Nothing bounds the number of nodes, tasks, files, revisions, reservations, runs,
stops or amounts; the bounds of the models (`MaxRevision`, `MaxStops`, ...) may be any numbers.

Every proof has one shape: an inductive invariant, a conjunction of named parts; one lemma per
action, or per kind of action, that it keeps the invariant; and theorems that follow from the
invariant or, for action properties, from what a step can do under it.

`PlanJournalProofs`.  `DependenciesSucceeded` (a node that is ready, launched,
succeeded or failed has only succeeded dependencies) is not inductive: a revision may change dependencies,
and a recovery or an approved retry moves a node back.  The invariant `IInv` adds

* `WellFormed` – dependencies of active nodes are other active nodes, and an id that was
  never used has no state;
* `NoLostRelease` – a waiting node has a dependency that has not succeeded;
* `BegunAfterDependencies` – a node with an execution row was begun after its
  dependencies succeeded, which is why `RetryApprovedTool` may make it ready;
* `RetiredDead` – a retired node is cancelled or blocked, and blocked only if it never
  began, so a late approval cannot bring it back;
* `ResultsSettled` – a result is stored exactly when the execution is settled.

The key lemma, `DownstreamNeverBegun`, says that what a failure or a cancellation
blocks has never begun, so that blocking it rewrites no history.  `Downstream` is
the least set closed under dependents (`DependentIsDownstream`, `DownstreamLeast`)
rather than a recursion, so that it can be reasoned about.  One lemma per action
preserves `IInv`; `Invariance`, `TypeCorrect`, `LaunchAfterDependencies`,
`NoReleaseIsLost` follow, and with `StepShape` (what a step can do to a finished
node) the action properties `CompletedStable` and `RetiredFrozen`.  `FirstResultStays`
looks at the operations that write execution rows.  `DeathPropagates` needs that blocking
does not stop halfway: a dependent of a node that is downstream of a death is downstream
of it too (`DownstreamClosed`), so a node that dies as a consequence has its own dependents blocked in
the same transaction (`BlockedReaches`, for a transition, a recovery and a revision alike).

`AccountingProofs`, in three parts.  *Sums*: a balance is `MapThenSumSet` over a set whose elements are taken
in no stated order, so the part begins with the two facts that make it usable: summing one by one is well
defined (`SumDefined`, from sets of at most n elements to those of n + 1), and any element may be taken first
(`AnyFirst`, by a smallest set that breaks it).  After that the proofs use `SumWithout`, `SumWith`, `SumSame`
and `SumAtMost` only.

*The ledger*, under `LedgerSpec` and the assumptions of `BudgetLedger` alone.  `LedgerInv` is the type and `UsageReplacesReservation` (a usage row
exists exactly when its reservation is settled), which needs the type of the
reservation rows and nothing more; `BooksOnlyImprove` is proved action by action,
with `SettleImproves` for the order of authorities.  `OnlyCostsTakePast` compares balances before and after a step:
a step that closes reservations commits no more (`ClosingCommitsNoMore`), and one that opens some commits
no more than before or has passed the gate, which looked at the balance the step leaves, for
the run and for each task.

*The calls*.  `NeverSentTwice` rests on `SentHasRow` (a request that went out
has a row, and rows are never removed).  `UncertainMoneyKept` needs to know that nothing
happens to the calls of an attempt between the two steps of a finalization, which is
`MarkedIsOver` (no call is `started` and the attempt makes no further one); the sweep finalizes
attempts other than its own, so that in turn needs `ChildrenUnderLead` (no child is at work
once the lead has ended its graph).  `SettlementsCover` has the invariant `MoneyInv`: a settled attempt covers
what its calls are known to have cost, and nothing is added to them any more, because a settled attempt has
no call in flight (`SettledAtRest`).  The step to look at is the reconciliation of a call of an attempt that goes on calling:
it would have settled the attempt, were there not another call without an outcome (`AnotherLost`).
`OvershootIsBounded` keeps room, `Room`, for one dearest call of every attempt that waits for a provider:
`begin_call` makes room only while less than the limit was observed, and an answer uses up its own.

`ChildSchedulingProofs`.  `OneWriter` (at most one child changes the workspace, and whoever holds
the lease has a coroutine or a thread that will give it back) counts how often a child owes
the lease: `Due(c)` is 2 for an attempt that holds it and whose file write holds it again, 1 for an
attempt, a write, an integration or a command, and 0 otherwise.  `IInv` says that the holder is the
one child that owes anything and that `depth` is what it owes (`LeaseFits`), which phases go with
which threads (`ThreadFits`, `PhaseFits`), and what a cancellation leaves at work (`GoesOn`: only
attempts that are shielded).  The one writer without a lease is a command whose run was cancelled
under it: then the lease is free, nobody asks for it any more, and there is one such command
(`StraysAreAlone`), because it was inside a lease when the cancellation came.  `AccountKept` is the step of
the argument: one child changes, and `Takes`, `Releases` or neither keeps holder and depth in line with what it
owes.  `OneChildIInv` and `MoveIInv` use it for every action of a child, `CancelIInv` for the cancellation
of all at once, and `WorkspaceIsHeld` ends it: who changes the workspace owes the lease, or is the stray.
The proof does not bound children, workloads or slots.

`OneVerdict` (the scheduler gives one verdict on a child, and none on one that is at work) has an
invariant of its own, `VInv`: a child that executes has no verdict yet (`ExecutesUnjudged`), a child that
succeeded has nothing left to do but its clean-up (`SuccessIsFinal`), and whatever succeeded after
dependencies has them all among the successful (`SuccessesRest`).  The last is what the blocking of
dependents needs: it takes children that nobody judged, and none of them can have succeeded, since a
dependency of theirs has not.

`PlanRunProofs`.  `RunImplementsJournal` is the refinement `ImplementsJournal` for any plan: every
step of a run is an operation of `PlanJournal` or leaves the plan tables alone (`StepIsJournal`).  The
controller does not look before each call whether the journal will take it, so the proof has to know
where the controller is: the node it is at is active and of its kind, and is launching with no
execution when one is about to begin (`CurFits`, `Dispatched`), who settles a node has a result for it
(`HasOutcome`), and the interrupt in a slot or in a checkpoint reference is that of a tool that was
begun (`Slotted`, `Referred`).  The journal's own invariant comes with it as an instance of
`PlanJournalProofs`, whose lemmas are cited and not proved again, so that `RunRespectsDependencies` is
one line.  `AgentsLaunchOnce` rests on `Launches`: an agent is started by the worker of its one execution
row, and whoever has yet to start it finds its task queued; a node without an execution row gets
none from a crash (`UnbegunStays`).  `TasksMatchPlan` speaks of the last moment of a run, so its invariant `TInv`
has to say, for every phase of a worker, how far the task row and the node of its agent have come (`Agree`): the
row is written first, the node follows from `launching` over `running`, and what a worker has read of its node is
still so when it moves it.  That is true because nobody else moves the node of an agent while the first process
drives the run (`StatusStays`), and a revision comes when no worker is left (`PumpRested`, `WorkersListed`).

`ChangeSetsProofs`.  What makes `InDoubtIsLocated` hold is that the canonical files are at most one
file ahead of the marks of the row that replaces them (`FilesFollow`, `RowsStand`), the least of those
that are left, as they are replaced in order.  A file that anybody else writes meanwhile is noted in
`touched` of every open row, so a row speaks only of files that are still its own.  Most steps leave rows and
canonical files alone (`Aside`, `AsideKeeps`); the steps of an integration are proved one by one
(`BeginKeeps`, `ReplaceKeeps`, `MarkKeeps`), and what they do to the rows of others is `OthersKept`.
`AppliedToItsBase` is about the time between the check of a base and the replacement of the last file, and rests on the
lease: a task holds it from its capture to its last row (`Leased`), and every other writer but a person needs it, so
the files that an integration has not reached are as they were when it checked them but for what a person saved (`Guarded`).
With a lease that covers the capture only (`CaptureUnguarded`) the run finds the property violated.
`WorkIsKept` needs that the worktree a second attempt finds has a record (`WorkRecorded`), and that only a running
controller has tasks at work (`AtRest`).

`DelegationProofs`.  `Fits(t)` says, for the place that a call has reached, what the rows, the attempts,
the plan node, the registry and the money of its task are: the first attempt has failed before there is a second
(`Attempted`), the plan node of a call that is driven is live until its task has an outcome (`NodeFits`), money is
held for one attempt at a time (`MoneyFits`).  A step of one call changes nothing else (`AloneKeeps`); those of the run
and the process change all at once.  The lead is told at the end of a call, when nothing changes any more but by a
recovery, which touches what was launched, and of that nobody was told.  `NoThirdAttempt` needs that the failures
counted from the journal are enough: a spent fingerprint has a task with both attempts failed or interrupted
(`SpentTwice`, `BothCounted`), so that the next process counts two (`LoadedKnows`), and within a process the
counter or the registry remembers (`SpentKnown`).

`LeadSessionProofs`.  `RunsUnderConsent` looks at the consent that is left and at the number of times
a command ran; what makes it hold is the state between the two, when a call is allowed and has not run
yet.  `GrantsHold` says of every such call that needs an approval that its consent is used up
already and that it has not run.  A step can break this in three ways only, and the lemmas rule them
out one by one: by allowing a call (`ExecuteStep`, which uses up the consent in the same
transaction), by giving a consent back (`ConsentsStay`; a person's answer counts only where none was given
before), and by running a call (`RunStep`, after which it is allowed no more).  All other steps allow
nothing that was not allowed (`NoGrant`), a replay of an interrupted call after a restart included.
`ModelCallsBounded` needs that what a process counts in memory (`begun`) is what the events of the
run tell (`row.started`): `BeginCall` writes both, and `Stop` counts again from the rows, so no number of
restarts gives a run one call more.  `QuestionSurvives` has the invariant `LInv`.  A recovery interrupts every
lead attempt but the one the newest reference names, so a reference that names none must belong to a run that has
none at work (`DeadRef`), and that of a waiting run must be the newest (`RefOfPending`); both rest on the controller
working on one run at a time (`OneRun`), whose attempt runs for as long as it is worked on or waited for
(`AttemptsRun`).  The last says, of a first execution that has ended and has its reference still to save, that
its attempt has ended with it.

`AnswersFitTheirQuestion` compares what the graph was given with what it had asked.  Between the two a question is
in four places: the checkpoint, the reference of the run, the card on the terminal, and the reply of the person.  `AInv`
says how they hang together.  An interrupt *stands* for a response when it is the one of its only open call, or of a
plan's tool when none is open (`Stands`); the current reference, the card of the pending run and the reply to a resumption
stand for what is open in their run (`RefStands`, `CardFits`, `RepliesFit`), a call that was woken has been given its own
answer (`Due`), and where no call can be open is said of each place of the lead (`Turns`, `CallsRest`, `RunningIsNew`).
An older reference or card may name what was answered long ago: it is refused, and nothing more is said of it.
`LeadTyped` rests on the other invariants of the module, which bound the counts and tell what the interrupts are about.
The gate's verdict on a response is a fold over its calls, and a fold is defined by a choice: `JudgingGrows` builds the
verdicts on one call more from those on the calls before it, so a least number of calls without verdicts cannot be
(`JudgedTyped`).  None of these proofs bounds runs, calls, responses or stops.

`WorkFollowsDecision` joins the journal and the gate of a lead that is built anew with every resumption.  A tool may work
only when a decision is journaled and the answer its run had to wait for is given (`Licensed`); `WInv` says where that
is known before it is used.  A call whose command is about to run, one that waits or was woken where its run can be
resumed, and one that the gate let through are licensed (`CallsLicensed`); the gate allows what the journal does
(`GateFollows`), and in a response that has been judged every call let through has its decision, in the journal or among
the calls of the same response (`JudgedFit`, from the fold of the verdicts: `LetThrough`, `OneMoreIsJudged`,
`JudgedAllows`).  A restart keeps this because a run resumes where its newest reference says (`WaitsAtRef`), where no
call is left unlooked at (`NoneUnseen`), and because a question that was put to the person is open or answered
(`QuestionsPut`, `HeardOrAsks`).  The proof holds for any number of runs, and what it then shows is
`WorkFollowsSomeDecision`: the answer is the run's own, the decision that of some run of the session, which is all
that the code ensures (disagreement 2 of section 6).  Where there is one run, as in the run
`lead_session`, the two are the same, and `WorkFollowsOwnDecision` states the property itself.

`TuiProofs`, in two parts.  *The terminal*: `NoPromptVanishes` counts; the invariant speaks of the sets of prompts that each sequence holds
and of sequences that hold nothing twice (`InOnePlace`), with one lemma for each thing done to a sequence
(`AppendHolds`, `TailHolds`, `JoinHolds`, `PostCarries`, `HandlingCarries`), and the counts follow
(`OccursOnce`).  That `started` repeats nothing also bounds the workers that are ever born (`WorkersBounded`).
`OneForegroundRun` has the invariant `InLine`: a follow-up waits for the worker born just before it, after a worker that
was not told to stop all later ones wait, and the newest of them is still there.  What is told to the newest is told to
all it waits for, down to the one that works.  A worker that works is
therefore the first of the line: when it ends, only the next wakes (`EndsInLine`), and a worker is started beside nobody,
because the code looks at the newest (`StartsAlone`), unless it tells all others to stop (`StartsOverAll`).

*The view*: `ViewFollowsJournal` compares what was shown over time with what a replay of the whole journal would
show, and both are folds of `ApplyEvent`.  A view *shows* a set of events when each object has the status of its newest
event in the set, the card is that of the last question, and every event has its line once (`Shows`): what that is does not
depend on the order of events about different objects.  One more event, later than those of its object, is shown as
well (`ShowsOneMore`), and so is a sequence in order (`ShowsTheRest`, over the prefixes of the fold, which
`ApplyOneByOne` shows to be well defined).  The invariant `ShownInv` then has to say which events have been shown: of each
the earlier ones about its object as well (`Complete`), and all but those on their way from a thread (`ViewFits`); the
same of the events a snapshot has read, for a thread may commit before its rows of nodes are read (`SnapshotFits`).
What is on its way is in order and of each object from one thread, but for plan nodes, and a node of which something newer
is shown or on its way is then among the `overtaken` (`CallsFit`); of those nothing is claimed until a snapshot replays
the journal, so `Shows` and `Complete` speak of the other objects (`ReadPlans` takes out what nothing is on its way to); an open transaction goes on where the
journal stops, delivers what it wrote, and a savepoint knows how many there were of each (`TxnFits`, `Delivers`).
An event that a snapshot had already is delivered again and changes nothing (`DeliverShown`).  Of events and rows nothing is bounded
but the counts the constants name, and those may be any numbers; the kinds of objects are apart, as the code's identifiers are.

Model-checked only, out of the provers' reach: liveness (`PumpRests`, `NoStandstill`, `IntegrationEnds`,
`CallsAnswered`, `LeadEnds`, `QueuedRuns`, `EventsAreShown`).
Every safety invariant and every action property that a passing run checks is proved, `WorkFollowsDecision` for
sessions of one run, as its run has them.  What the two runs of section 6 refute (`SlotAndLeaseTogether`,
`WorkHasDecision`) is false, and has no theorem.

## 6. Where code and documents disagree

1. `child_scheduling_shared`: two writers of a shared workspace with one slot stand
   still (one holds the lease and waits for a slot, the slot is reserved for the
   other, which waits for the lease); `ARCHITECTURE.md:484` describes taking both
   atomically.  `NoStandstill`, in the passing run `child_scheduling`, is
   therefore stated for worktree mode, where every lease is taken inside a slot, and for
   runs whose tasks find a route (a child without one never gives the scheduler a
   verdict, and its dependents wait); the safety properties hold in every workload.  The lead that made the two
   calls in one response waits with them, which is why `CallsAnswered` supposes that leases and slots are granted.
2. `lead_second_run`: `_restored_decision` (`run_controller.py:3208`) is set when a run is resumed or
   restored and never cleared.  When a later run of the same process is resumed after a
   question, its new gate takes the decision of the earlier run, and its tools work with no decision
   of its own; `ARCHITECTURE.md:108` says that the decision is admitted first.  In the same way
   `_resume_lead_on_recovery` is never set back, and a remembered decision that does not fit the mode
   required of the later run raises out of its resumption (`ResumeRaises`).

Read off the code while modelling, without a run of its own.  Each is either a step of the
model that no property forbids, or named in section 7.

*Plans and money*

* An answered approval that is restored from the latest reference after a second crash runs its
  plan tool again (`run_controller.py:3186-3189`); `journal.py:1431` says "without replaying an
  effect".
* A node that a revision adds below a dead dependency waits for ever (`journal.py:1928`
  computes `waiting`); `FEATURES.md:483` says it is dependency-blocked.
* A crossing of the warning threshold by a settlement or by the lead's allowance is
  announced to nobody: only `_persist` appends `budget.warned`.
* An attempt that dies between two calls, all of them answered and measured, is orphaned: the
  recovery (`recovery.py:104`) protects only attempts with a started or an ambiguous call, releases the money, and the
  cost is booked nowhere; `FEATURES.md:466` says measured tokens replace the estimate.  `reject_interrupted` looks at
  usage rows only and releases likewise, which is why `UncertainKeepsMoney` excepts a rejected run.
* A call that a crash leaves started is never marked ambiguous unless its attempt is finalized, and a
  failure to open a call (without a call) can never be closed by a reconciliation.
* `_lead_allowance_ids.clear()` (`run_controller.py:2253`) drops the ids of an earlier run's
  allowances without releasing them.  Between an attempt's row and its finalization a crash strands its reservation.

*Tasks*

* A retry whose route fails rewrites attempt 1's row from failed to blocked, `model_excluded` leaves
  attempt 2 running, and `budget_unaffordable` makes the registry BLOCKED but the row
  BUDGET_BLOCKED.  A task that was returned to the lead has a row that says failed (`SPEC.md:419`).
* The registry refuses every fingerprint ever registered in the process, succeeded ones
  included (`ARCHITECTURE.md:555`); `AdmissionFails` leaves entries PROPOSED.
* A cancelled direct run leaves its children's rows running until a recovery
  (`ARCHITECTURE.md:201`); a thread may reserve money for a second attempt after the sweep.
* A crash before the node is settled makes the recovery overwrite a recorded success with blocked or interrupted
  (`ARCHITECTURE.md:700`); a recovery fails ("session has no checkpoint") in a session none of
  whose runs ended.
* In economy mode the second attempt of a routed task raises its floor by 5 where
  `task_graph.py:191` demands 15, and the run fails instead of retrying (`SPEC.md:410`, `:415`).

*Change sets*

* What isolates the lead's writes (`run_controller.py:1031`) is not restored after a restart: the
  resumed lead of a worktree run writes to the canonical checkout;
  `tests/unit/test_lead_worktree_isolation.py:3` says it must not.
* `ChangeSetIntegrator.recover` has no caller: a change set that a crash leaves `applying`
  stays so, and a worktree that a crash leaves without a record is never found again.
* An edit that a person makes between the base check of an integration and the
  replacement of that file is overwritten, as `ARCHITECTURE.md` section 9.4 admits.

*The lead and its person*

* The reference recorded when a resumption ends carries no controls (`run_controller.py:3301`), so a
  requirement of the instruction is gone after the next restart (`FEATURES.md:68`, `SPEC.md:135-136`).
* A second resumption that reached another checkpoint conflicts on the key `run:<id>:resumed`
  (`run_controller.py:3299`, `checkpoints.py:188`; `FEATURES.md:719-721`).  A failure of the pump in a resumption is
  caught by nobody (`run_controller.py:3333`).
* A crash after `QuestionStore.answer` and before the result is kept leaves a run that nothing
  resumes; so does one between the rows of an interrupted run and its reference
  (`run_controller.py:2775`), and one inside a resumption whose graph has moved on: the reference is stale.
* `[command, ask]` in one response with the approval rejected leaves the question pending, and
  `run_instruction` refuses ever after; a refused prompt restores a pending run without its card
  (`run_controller.py:790`).  Cancelling a question without a pending run raises out of the handler.
* `--resume` makes the session ACTIVE before it restores, so a run blocked on an approval is not
  restored (`SPEC.md:434`, `ARCHITECTURE.md:696`); quitting sets it idle to the same effect.
* A second "allow once" for one action is ignored (`INSERT OR IGNORE` finds the consumed row).
* No caller gives `build_default_agent` an execution context (`assembly.py:791`, `:815`), so a
  trusted project never lets an agent's own `pytest` or `ruff` run unasked (`FEATURES.md:636`).

*The terminal*

* Taking back a queued prompt changes the composer's own copy only (`composer.py:609-613`); the application
  puts it back with the next refresh (`app.py:1330`) and runs it, while its text is also in the editor, from where it may be
  sent again.  The docstring (`composer.py:142-143`), the label of the queue (`composer.py:458-460`) and
  `tests/unit/test_tui_composer.py:97` say that it leaves the queue.  `NoPromptVanishes` therefore leaves out the prompts
  that were taken back (`takenBack`).
* A `PromptQueued` that is handled after its run ended stays in the queue until another run ends
  (`app.py:1907`), also after a rejection, which never resets `_run_active`; a prompt submitted then
  overtakes it (`FEATURES.md:731`).  That is why `QueuedRuns` speaks of a run the application knows of.
* Answering early cancels the worker of the parked run and discards the queue (`FEATURES.md:735`).
* `/cancel` while a follow-up waits for the worker before it cancels that one, which catches it (`app.py:1422`); the
  follow-up, for which it was meant, runs (`app.py:1465-1470`).  A follow-up behind a resumption, which does not
  catch it, fails with `WorkerCancelled`, and the application ends.
* `/compact` drops an approval card; cancelling a question between its event and the result of
  its run shows a dead card again (`app.py:1597`); a failed resumption leaves no card, or one that is
  "answering".  Quitting clears the queue silently (`app.py:955-958`).
* Live events are applied as they come and not in the order of their numbers
  (`ARCHITECTURE.md:720`), so a replay may list them in another order.  A replay of old events over
  fresh rows turns the rail back for a moment.
* A thread's settlement of one node commits "succeeded" and the "ready" of its dependents together
  (`journal.py:1640-1720`) and hands the events to the loop one by one (`app.py:1397-1401`).  Meanwhile the loop may launch a dependent
  (`run_controller.py:1494-1521`) or cancel it (`run_controller.py:1719-1720`), and its own events are applied at once: the late
  "ready" is shown last, until a replay of the journal.  `ViewFollowsJournal` leaves such a node out (`overtaken`).

## 7. What the models leave out

* Plans: objectives, scopes, texts; node kinds `verification` and `integration`, which
  the controller never dispatches; checkpoint evidence is taken at its fullest.
* `PlanRun`: questions the lead asks (`LeadSession` has them); restarts by a person while threads
  of the dead pump still run (`Quiet`).  A plan has one run.
* `ChildScheduling`: `ChildScheduler.run`, `approve` and `cancel`, which the controller does not
  use; brief lease holds of the lead; more than one file write per attempt; a child's
  order within a batch is its creation order; a cancelled agent whose write still
  waits for the lease; that the execute tool enters one lease object twice (`assembly.py:848`, `:870`).
* `BudgetLedger`: other runs; provider-call rows.  `Fallback` is an operation of the
  service that nothing in `src/` calls yet; the reports of higher authority follow the
  API (`record_call` itself writes measured or unknown usage).
* `ChangeSets`: Git itself, renames and modes of files (a file is a path with a content); the
  parse of a worktree's status; a snapshot's clean-up at the end of a session.
* `CallAccounting`: retries (a second attempt of one task), and calls of one attempt side by side; a
  synchronous call that answers on its thread after it was marked (both of its
  reports are refused); a child's price catalogue (a cost is measured or not); the
  allowances of the lead.  A session has a checkpoint: without one the recovery does nothing.
  The sweep may pass over any child, and the lead after a restore may start from any
  transcript between its checkpoint and its last request.
* `Delegation`: packets are whether they decode, their fingerprint and limits; whether and in which order slots and leases
  are granted, and plans, are the other modules'; escalation by the lead's own wish.  The transactions of an admission are
  one step (nothing else works on the tasks of the batch then), and what `register_many` checks of parents and
  dependencies (`task_registry.py:51-72`) is left out: a batch it refuses is one more that is never admitted.
* `LeadSession`: the pump of an admitted plan is one step; the lead's money; the frontier of a discovery (judged like
  direct); of the judgement of a call its arguments' form and the revision of a decision (`decisions.py:124-127`), and
  limits on the number of agents and on scopes; a response is judged and its decision kept in one step, where the code
  judges call by call; grants for a session or a project; the clock boundary of the monitor; two processes on one session.
* `Terminal`: a worker's first step is part of its creation; `/resume` during a run, onboarding, the choice
  of models, export, text and layout; that waiting for a cancelled worker raises is taken from `app.py:1592`, and that a cancellation goes to the worker
  that is awaited from asyncio.  A card cancelled without a waiting run raises out of its handler and is no step (the code
  has then cancelled the question, `app.py:2097-2122`).
* `Projection`: events of models, routes, decisions, diagnostics and money, and the figures made from them;
  retries of a busy journal; `EventBus.publish` and `subscribe`, which have no caller.  One writer at a
  time changes an agent, a tool's lines and a question (`InOtherHands`): the events of a task are written by the nodes of
  its graph one after another, those of a tool by its one call, and a question is answered after its card is shown.  Plan
  nodes have no such order, and the model writes them from anywhere.
* Not modelled at all: compaction and export, providers and the catalogue, configuration and trust files, the
  command line's parsing, document tools, evaluations, benchmarks and scripts: reads, text, and one-shot
  input and output with no protocol of their own.

## 8. Plan

*Done*: the core of every protocol of section 1, and the proofs of section 5.  What is left, most
important first:

1. `LeadSession` with two runs once a run forgets the decision of the one before, and composed with
   `Terminal`, whose controller is an abstraction of it written by hand.
2. Grants for a session and a project, the lock of a session and two processes, the clock boundary.
3. The budget view of the projection: reservations are read before the events of a snapshot, so
   one may be counted twice or missed until the next refresh.
