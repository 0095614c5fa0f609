---------------------------- MODULE LeadSession ----------------------------
(***************************************************************************)
(* The lead of a run and the person: ExecutionDecisionGate, FailureMonitor *)
(* and RunModelCallBudget around the agent loop, ask_user and execute with *)
(* their interrupts, and how RunController parks, resumes, rejects,        *)
(* restores and ends a run, over stops of the process.                     *)
(*                                                                         *)
(* A response of the model is a sequence of calls; its calls run side by   *)
(* side, and the graph keeps the result of each that has ended.  A call is *)
(* identified by its turn and its place.  The pump of an admitted plan is  *)
(* one step (PlanRun has it), and the lead's money is left to              *)
(* CallAccounting.                                                         *)
(***************************************************************************)
EXTENDS Naturals, Sequences, SequencesExt, FiniteSetsExt

CONSTANTS
  LastRun,     \* runs of the session: 1..LastRun
  CallLimit,   \* MAX_MODEL_CALLS_PER_RUN
  Responses,   \* what the model may answer: sequences of calls, <<>> is a final answer
  Instructions,  \* what the words of an instruction ask for
  Given,       \* the controls an instruction comes with
  MaxStops

ASSUME LeadAssumption ==
  /\ LastRun \in Nat \ {0} /\ CallLimit \in Nat \ {0} /\ MaxStops \in Nat
  /\ Responses \subseteq Seq(STRING) /\ <<>> \in Responses
  /\ \E longest \in Responses : \A resp \in Responses : Len(resp) <= Len(longest)
  /\ Instructions \subseteq [planned : BOOLEAN, alone : BOOLEAN, ask : BOOLEAN,
                            agents : SUBSET Nat]
  /\ Given \subseteq [need : BOOLEAN, mode : {"any", "direct", "planned"},
                     delegates : BOOLEAN, children : Nat]

Run == 1..LastRun
NoRun == 0
Width == Max({Len(resp) : resp \in Responses})
Call == (1..CallLimit) \X (1..Width)
None == [kind |-> "none", run |-> NoRun, call |-> <<0, 0>>]
Decisions == {"direct", "planned", "invalid"}
Finals == {"completed", "failed", "cancelled"}

VARIABLES
  row,       \* of a run: its status, its lead attempt, its decision and what its events tell
  session,   \* sessions.status
  question,  \* QuestionStore
  approval,  \* ApprovalStore, "once" rows
  graph,     \* checkpoints and writes of the lead's LangGraph thread
  ref,       \* the newest row of skail_checkpoint_refs: its run, checkpoint and interrupt, if
             \* the attempt is live, if it carries the controls of the instruction
  resumedAt  \* the checkpoint recorded under run:<id>:resumed, 0 if none

VARIABLES
  stage,     \* where the controller and the lead's loop are
  current,   \* the run they work on
  resumed,   \* it is a resumption
  gate, verdict, monitor,  \* of the lead agent as built; verdicts on the calls of its response
  begun,     \* RunModelCallBudget.calls_started
  pending,   \* _pending_run
  shown,     \* _pending_interrupt_payload
  card,      \* projection.pending_interrupt: what the terminal shows
  kept,      \* the controls of the pending run are those of its instruction
  again,     \* _resume_lead_on_recovery
  restored,  \* _restored_decision
  reply,     \* the interrupt whose answer a resumption carries
  stops

VARIABLES
  worked,    \* history: calls whose tool has worked
  ran,       \* history: how often the command of a call ran that needs an approval
  heard      \* history: the interrupt that the person answered, of each answered question

rows == <<row, session>>
stores == <<question, approval>>
saved == <<graph, ref, resumedAt>>
agent == <<gate, verdict, monitor, begun>>
wait == <<pending, shown, card, kept, again, restored, reply>>
ghosts == <<worked, ran, heard>>
vars == <<rows, stores, saved, stage, current, resumed, agent, wait, stops, ghosts>>

Stages == {"down", "recovered", "idle", "loop", "calling", "judged", "tools", "park", "refer",
           "resume", "record", "pump", "close", "terminal"}
Interrupt == [kind : {"none", "question", "approval", "bare", "tool"}, run : Run \cup {NoRun},
              call : Call \cup {<<0, 0>>}]

\* Every variable has a value the code can give it; above all, no run starts more model
\* calls than its budget, which is counted again after a restart.
TypeOK ==
  /\ row \in [Run -> [status : {"none", "running", "blocked"} \cup Finals,
                      attempt : {"none", "running", "blocked", "succeeded", "failed",
                                 "interrupted"},
                      need : BOOLEAN, mode : {"any", "direct", "planned"},
                      decision : {"none", "direct", "planned"},
                      answered : BOOLEAN, required : BOOLEAN, bad : 0..2,
                      started : 0..CallLimit]]
  /\ session \in {"active", "interrupted", "idle"}
  /\ question \in [Run -> [Call -> {"none", "pending", "answered", "cancelled"}]]
  /\ approval \in [Run -> [Call -> {"none", "once", "consumed"}]]
  /\ DOMAIN graph = Run
  /\ \A r \in Run : /\ graph[r].resp \in Responses
                    /\ graph[r].at \in Nat /\ graph[r].turn \in 0..CallLimit
                    /\ Len(graph[r].state) = Len(graph[r].resp)
                    /\ {graph[r].state[i] : i \in DOMAIN graph[r].state} \subseteq
                         {"todo", "waiting", "woken", "granted", "ran", "told", "done"}
  /\ ref \in [run : Run \cup {NoRun}, at : Nat, shown : Interrupt, live : BOOLEAN,
             controls : BOOLEAN]
  /\ resumedAt \in [Run -> Nat]
  /\ stage \in Stages /\ current \in Run \cup {NoRun} /\ resumed \in BOOLEAN
  /\ gate \in [decision : {"none", "direct", "planned"}, repairs : 0..2, answered : BOOLEAN]
  /\ begun \in [Run -> 0..CallLimit]
  /\ pending \in Run \cup {NoRun} /\ {shown, card, reply} \subseteq Interrupt /\ kept \in BOOLEAN
  /\ again \in BOOLEAN /\ restored \in {"none", "direct", "planned"}
  /\ stops \in 0..MaxStops
  /\ worked \in [Run -> SUBSET Call] /\ ran \in [Run -> [Call -> 0..2]]
  /\ heard \in [Run -> [Call -> Interrupt]]

\* The controls that the controller works with.
Need(r) == kept /\ row[r].need
Mode(r) == IF kept THEN row[r].mode ELSE "any"

NewGate(decision, answered) ==
  [decision |-> decision, repairs |-> 2, answered |-> answered]
FreshGate == NewGate("none", FALSE)
FreshMonitor == [errors |-> {}, streak |-> 0, last |-> "none", same |-> 0]

Init ==
  /\ row = [r \in Run |-> [status |-> "none", attempt |-> "none", need |-> FALSE,
                           mode |-> "any", decision |-> "none", answered |-> FALSE,
                           required |-> FALSE, bad |-> 0, started |-> 0]]
  /\ session = "active"
  /\ question = [r \in Run |-> [c \in Call |-> "none"]]
  /\ approval = [r \in Run |-> [c \in Call |-> "none"]]
  /\ graph = [r \in Run |-> [at |-> 0, turn |-> 0, resp |-> <<>>, state |-> <<>>,
                             final |-> FALSE]]
  /\ ref = [run |-> NoRun, at |-> 0, shown |-> None, live |-> FALSE, controls |-> FALSE]
  /\ resumedAt = [r \in Run |-> 0]
  /\ stage = "idle" /\ current = NoRun /\ resumed = FALSE
  /\ gate = FreshGate /\ verdict = <<>> /\ monitor = FreshMonitor
  /\ begun = [r \in Run |-> 0]
  /\ pending = NoRun /\ shown = None /\ card = None /\ kept = TRUE
  /\ again = TRUE /\ restored = "none" /\ reply = None
  /\ stops = 0
  /\ worked = [r \in Run |-> {}]
  /\ ran = [r \in Run |-> [c \in Call |-> 0]]
  /\ heard = [r \in Run |-> [c \in Call |-> None]]

-----------------------------------------------------------------------------
(* Rows, references and what a restart finds.                              *)

Waiting(r) == {i \in DOMAIN graph[r].state : graph[r].state[i] = "waiting"}
CallAt(r, i) == <<graph[r].turn, i>>
KindAt(r, i) == graph[r].resp[i]
Before(d, c) == d[1] < c[1] \/ (d[1] = c[1] /\ d[2] < c[2])
Asked(r) == {c \in Call : question[r][c] = "pending"}

\* Mutant: the first call of the response is shown, whether it waits or not.
Mutant_FirstInterrupt(r) ==
  [kind |-> IF KindAt(r, 1) = "ask" THEN "question" ELSE "approval",
   run |-> r, call |-> CallAt(r, 1)]

\* _first_interrupt_payload: of several interrupts the first is shown.
FirstInterrupt(r) ==
  LET i == Min(Waiting(r))
  IN [kind |-> IF KindAt(r, i) = "ask" THEN "question" ELSE "approval",
      run |-> r, call |-> CallAt(r, i)]

\* _has_pending_question
PendingQuestion == \E r \in Run : row[r].status = "blocked" /\ Asked(r) # {}

\* latest_valid raises CheckpointCorruptError: the graph has gone on since the reference.
Stale == ref.run # NoRun /\ graph[ref.run].at # ref.at

Recoverable == {r \in Run : \/ /\ row[r].status = "blocked"
                               /\ session = "interrupted" \/ Asked(r) # {}
                            \/ row[r].status = "running" /\ row[r].decision = "planned"}

\* The run that restore_interrupted looks at, if its lead attempt is running.
Candidate ==
  IF Recoverable = {} \/ row[Max(Recoverable)].attempt # "running" THEN NoRun
  ELSE Max(Recoverable)

\* The rows of a run that ends or stays blocked.
Ended(r, status, attempt) ==
  /\ row' = [row EXCEPT ![r].status = status, ![r].attempt = attempt]
  /\ session' = "idle"

\* The end of a resumption forgets the pending run; that of a first execution has
\* its reference still to save.
Forgotten == pending' = NoRun /\ shown' = None /\ UNCHANGED <<kept, again, restored, reply>>
Leave ==
  IF resumed THEN stage' = "idle" /\ current' = NoRun /\ Forgotten
             ELSE stage' = "terminal" /\ UNCHANGED <<current, pending, shown, kept, again,
                                                     restored, reply>>

\* The except clauses around the graph; the terminal keeps what it shows.
Fails(status) ==
  /\ Ended(current, status, IF status = "cancelled" THEN "interrupted" ELSE "failed")
  /\ Leave /\ UNCHANGED card

\* _apply_run_result: of what it shows the terminal keeps a question that is pending.
Shows ==
  card' = IF card.kind = "question" /\ question[card.run][card.call] = "pending"
          THEN card ELSE None

-----------------------------------------------------------------------------
(* An instruction, and the lead built for it.                              *)

\* "use planned execution" against "do it yourself" or the mode that was given.
ModeConflict(said, given) ==
  \/ said.planned /\ (said.alone \/ given.mode = "direct")
  \/ said.alone /\ given.mode = "planned"

\* "exactly n agents", when there may not be that many.
CountConflict(said, given) ==
  \E n \in said.agents :
    n < 1 \/ n > Min({3, given.children}) \/ ~given.delegates \/ said.alone

\* resolve_lead_controls: what is said adds to what was given.
ControlsOf(said, given) ==
  [need |-> said.ask \/ given.need,
   mode |-> CASE said.planned -> "planned" [] said.alone -> "direct" [] OTHER -> given.mode]

\* The rows of a run that starts, before its lead has an assignment.
Started(r, controls) ==
  row' = [row EXCEPT ![r].status = "running", ![r].attempt = "running",
                     ![r].need = controls.need, ![r].mode = controls.mode]

\* _build_lead_for_run: the gate and the monitor belong to the lead that is built, the
\* budget of model calls to the run.
BuildLead(decision, answered) ==
  gate' = NewGate(decision, answered) /\ monitor' = FreshMonitor

\* The lead's graph is invoked with the instruction.
Invoke(r) ==
  /\ graph' = [graph EXCEPT ![r].at = 1]
  /\ stage' = "loop" /\ current' = r /\ resumed' = FALSE

\* The terminal takes no prompt while it shows an interrupt, and run_instruction none while
\* a run is pending, restorable or asks.
Accepts(r) ==
  /\ stage = "idle" /\ card = None /\ pending = NoRun /\ Candidate = NoRun /\ ~PendingQuestion
  /\ row[r].status = "none" /\ \A q \in 1..r - 1 : row[q].status # "none"

Instruct(r, said, given) ==
  /\ Accepts(r) /\ ~ModeConflict(said, given) /\ ~CountConflict(said, given)
  /\ Started(r, ControlsOf(said, given))
  /\ Invoke(r)
  /\ BuildLead("none", FALSE) /\ verdict' = <<>>
  /\ kept' = TRUE /\ reply' = None
  /\ UNCHANGED <<session, stores, ref, resumedAt, begun, pending, shown, card, again, restored,
                 stops, ghosts>>

\* No assignment for the lead: a route failure, or an exception.
Unassigned(r, status) ==
  /\ Accepts(r)
  /\ Ended(r, status, status)
  /\ UNCHANGED <<stores, saved, stage, current, resumed, agent, wait, stops, ghosts>>

\* model_call_guard, before model.started
CallAllowed(r) == begun[r] < CallLimit

BeginCall ==
  /\ stage = "loop" /\ CallAllowed(current)
  /\ begun' = [begun EXCEPT ![current] = @ + 1]
  /\ row' = [row EXCEPT ![current].started = @ + 1]
  /\ stage' = "calling"
  /\ UNCHANGED <<session, stores, saved, current, resumed, gate, verdict, monitor, wait, stops,
                 ghosts>>

\* RunModelCallLimitExceeded, or the provider fails for good.
CallFails ==
  /\ \/ stage = "calling"
     \/ stage = "loop" /\ ~CallAllowed(current)
  /\ Fails("failed")
  /\ UNCHANGED <<stores, saved, resumed, agent, stops, ghosts>>

-----------------------------------------------------------------------------
(* The gate judges the calls of a response in their order.                 *)

Refuse(g, code) == [g EXCEPT !.codes = Append(@, code)]

\* Mutant: a refused decision is never out of repairs.
Mutant_Repair(g, code) == Refuse([g EXCEPT !.repairs = @ - 1], code)

\* A refused decision spends a repair; with none left the code says so.
Repair(g, code) ==
  IF g.repairs = 0 THEN Refuse(g, "repair_exhausted")
  ELSE Refuse([g EXCEPT !.repairs = @ - 1], code)

JudgeDecision(g, mode, kind) ==
  IF kind = "invalid" THEN Repair(g, "plan_invalid")
  ELSE IF mode # "any" /\ kind # mode THEN Repair(g, "intent_conflict")
  ELSE IF g.decision # "none" /\ (kind = "direct" \/ g.decision = "planned")
    THEN Refuse(g, "already_recorded")
  ELSE Refuse([g EXCEPT !.decision = kind], "ok")

\* Mutant: with a decision, the question that was required is not looked at any more.
Mutant_JudgeCall(g, need, mode, kind) ==
  IF kind \in Decisions THEN JudgeDecision(g, mode, kind)
  ELSE IF kind = "ask" \/ g.decision # "none" THEN Refuse(g, "ok")
  ELSE IF need /\ ~g.answered THEN Refuse(g, "question_required")
  ELSE Refuse(g, "decision_required")

JudgeCall(g, need, mode, kind) ==
  IF need /\ ~g.answered /\ kind # "ask" THEN Refuse(g, "question_required")
  ELSE IF kind \in Decisions THEN JudgeDecision(g, mode, kind)
  ELSE IF kind = "ask" \/ g.decision # "none" THEN Refuse(g, "ok")
  ELSE Refuse(g, "decision_required")

Judge(r, resp) ==
  FoldLeft(LAMBDA g, kind : JudgeCall(g, Need(r), Mode(r), kind),
           [decision |-> gate.decision, repairs |-> gate.repairs,
            answered |-> gate.answered, codes |-> <<>>], resp)

\* prepare_response, and the monitor's observe_progress or observe_success.
Respond(resp) ==
  /\ stage = "calling"
  /\ \E g \in {Judge(current, resp)} :
       /\ gate' = [decision |-> g.decision, repairs |-> g.repairs, answered |-> g.answered]
       /\ verdict' = g.codes
  /\ monitor' = IF resp = <<>> THEN [monitor EXCEPT !.streak = 0, !.last = "none", !.same = 0]
                ELSE [monitor EXCEPT !.streak = 0]
  /\ graph' = [graph EXCEPT ![current].at = @ + 1, ![current].turn = begun[current],
                            ![current].resp = resp, ![current].final = (resp = <<>>),
                            ![current].state = [i \in DOMAIN resp |-> "todo"]]
  /\ stage' = "judged"
  /\ UNCHANGED <<rows, stores, ref, resumedAt, current, resumed, begun, wait, stops, ghosts>>

\* _record: the plan is admitted before the decision is journaled; no tool runs before.
Persist ==
  /\ stage = "judged"
  /\ row' = IF \E i \in DOMAIN verdict : verdict[i] = "ok" /\ KindAt(current, i) \in Decisions
            THEN [row EXCEPT ![current].decision = gate.decision] ELSE row
  /\ stage' = IF ~graph[current].final THEN "tools" ELSE IF resumed THEN "record" ELSE "pump"
  /\ UNCHANGED <<session, stores, saved, current, resumed, agent, wait, stops, ghosts>>

-----------------------------------------------------------------------------
(* Tool calls under the monitor.                                           *)

\* observe_call: the third equal call in a row that ended well is refused.
Repeats(kind) == monitor.last = kind /\ monitor.same = 2
Observed(kind) ==
  [monitor EXCEPT !.last = kind, !.same = IF monitor.last = kind THEN @ + 1 ELSE 1]
\* A call that waits or is blocked drops the window and the streak of errors.
Dropped == [monitor EXCEPT !.streak = 0, !.last = "none", !.same = 0]

Advance(i, to) == graph' = [graph EXCEPT ![current].state[i] = to]
AtCall(i, from) ==
  /\ stage = "tools" /\ i \in DOMAIN graph[current].state
  /\ graph[current].state[i] = from

RepeatedCall(i) ==
  /\ AtCall(i, "todo") \/ AtCall(i, "woken")
  /\ Repeats(KindAt(current, i))
  /\ Fails("failed")
  /\ UNCHANGED <<stores, saved, resumed, agent, stops, ghosts>>

\* A call that came before the decision or before the required answer.
TooEarly(i) ==
  /\ AtCall(i, "todo") /\ ~Repeats(KindAt(current, i))
  /\ verdict[i] \in {"decision_required", "question_required"}
  /\ monitor' = Dropped
  /\ row' = [row EXCEPT ![current].required = @ \/ verdict[i] = "decision_required"]
  /\ Advance(i, "done")
  /\ UNCHANGED <<session, stores, ref, resumedAt, stage, current, resumed, gate, verdict, begun,
                 wait, stops, ghosts>>

\* A decision that was refused; a refusal told twice, or two in a row, ends the run.
Refused(i) ==
  /\ AtCall(i, "todo") /\ ~Repeats(KindAt(current, i))
  /\ verdict[i] \in {"plan_invalid", "intent_conflict", "already_recorded",
                     "repair_exhausted"}
  /\ LET bad == IF verdict[i] = "intent_conflict" THEN row
                ELSE [row EXCEPT ![current].bad = Min({@ + 1, 2})]
     IN IF verdict[i] \in monitor.errors \/ monitor.streak >= 1
        THEN /\ row' = [bad EXCEPT ![current].status = "failed", ![current].attempt = "failed"]
             /\ session' = "idle" /\ Leave
             /\ UNCHANGED <<graph, monitor, card>>
        ELSE /\ row' = bad /\ Advance(i, "done")
             /\ monitor' = [errors |-> monitor.errors \cup {verdict[i]},
                            streak |-> monitor.streak + 1, last |-> "none", same |-> 0]
             /\ UNCHANGED <<session, stage, current, wait>>
  /\ UNCHANGED <<stores, ref, resumedAt, resumed, gate, verdict, begun, stops, ghosts>>

\* A decision that was admitted, or a tool that needs no approval.
Works(i) ==
  /\ AtCall(i, "todo") /\ ~Repeats(KindAt(current, i)) /\ verdict[i] = "ok"
  /\ KindAt(current, i) \in Decisions \cup {"work"}
  /\ monitor' = [Observed(KindAt(current, i)) EXCEPT !.streak = 0]
  /\ worked' = IF KindAt(current, i) = "work"
               THEN [worked EXCEPT ![current] = @ \cup {CallAt(current, i)}] ELSE worked
  /\ Advance(i, "done")
  /\ UNCHANGED <<rows, stores, ref, resumedAt, stage, current, resumed, gate, verdict, begun,
                 wait, stops, ran, heard>>

\* Mutant: a command whose approval is waited for is taken for approved.
Mutant_Allowed(c) == c \in Call

\* ApprovalStore.is_allowed, for an action that has no session-wide approval
Allowed(c) == approval[current][c] = "once"

\* ExecutionPolicy.evaluate, by the class of a command: what only looks (git status), the
\* project's own tools (pytest), what changes the workspace (git add), what is never run.
Evaluate(class, context) ==
  CASE class \in {"outside", "privilege", "destructive"} -> "rejected"
    [] class = "inspection" -> "allowed"
    [] class = "project" /\ context.trusted -> "allowed"
    [] class = "mutation" /\ context.trusted /\ context.writes /\ context.lease -> "allowed"
    [] OTHER -> "approval"

Commands == {"outside", "privilege", "destructive", "inspection", "project", "mutation",
             "external", "unknown"}

\* No agent is given a security context: the project is never trusted for its commands.
AgentContext == [trusted |-> FALSE, writes |-> FALSE, lease |-> FALSE]
Policy(i) == Evaluate(KindAt(current, i), AgentContext)

\* execute: a "once" row is used up before the command runs; without one
\* the call waits, and a call that was woken is answered "approval_required".
Execute(i) ==
  /\ AtCall(i, "todo") \/ AtCall(i, "woken")
  /\ KindAt(current, i) \in Commands /\ verdict[i] = "ok" /\ ~Repeats(KindAt(current, i))
  /\ IF Policy(i) = "allowed" \/ (Policy(i) = "approval" /\ Allowed(CallAt(current, i)))
     THEN /\ approval' = [approval EXCEPT ![current][CallAt(current, i)] =
                           IF @ = "once" THEN "consumed" ELSE @]
          /\ monitor' = Observed(KindAt(current, i)) /\ Advance(i, "granted")
     ELSE /\ monitor' = Dropped
          /\ Advance(i, IF Policy(i) = "approval" /\ graph[current].state[i] = "todo"
                        THEN "waiting" ELSE "done")
          /\ UNCHANGED approval
  /\ UNCHANGED <<rows, question, ref, resumedAt, stage, current, resumed, gate, verdict, begun,
                 wait, stops, ghosts>>

RunCommand(i) ==
  /\ AtCall(i, "granted")
  /\ ran' = IF Policy(i) = "allowed" THEN ran
            ELSE [ran EXCEPT ![current][CallAt(current, i)] = @ + 1]
  /\ worked' = [worked EXCEPT ![current] = @ \cup {CallAt(current, i)}]
  /\ Advance(i, "ran")
  /\ UNCHANGED <<rows, stores, ref, resumedAt, stage, current, resumed, agent, wait, stops,
                 heard>>

\* The result of a command, or of a question, is kept by the graph; user.answer takes the
\* question off the terminal.
Finish(i) ==
  /\ AtCall(i, "ran") \/ AtCall(i, "told")
  /\ row' = [row EXCEPT ![current].answered = @ \/ KindAt(current, i) = "ask"]
  /\ monitor' = [monitor EXCEPT !.streak = 0]
  /\ card' = IF card.kind = "question" /\ card.call = CallAt(current, i) THEN None ELSE card
  /\ Advance(i, "done")
  /\ UNCHANGED <<session, stores, ref, resumedAt, stage, current, resumed, gate, verdict, begun,
                 pending, shown, kept, again, restored, reply, stops, ghosts>>

\* QuestionStore.ask: a call that asks again finds its question.
Stored(c) ==
  question' = [question EXCEPT ![current][c] = IF @ = "none" THEN "pending" ELSE @]

\* ask_user: the question is stored under its call and waits.
Ask(i) ==
  /\ AtCall(i, "todo") /\ ~Repeats("ask") /\ KindAt(current, i) = "ask"
  /\ Stored(CallAt(current, i))
  /\ monitor' = Dropped /\ Advance(i, "waiting")
  /\ UNCHANGED <<rows, approval, ref, resumedAt, stage, current, resumed, gate, verdict, begun,
                 wait, stops, ghosts>>

\* QuestionStore.answer takes the answer of a pending question only.
Told(i) ==
  /\ AtCall(i, "woken") /\ ~Repeats("ask") /\ KindAt(current, i) = "ask"
  /\ question[current][CallAt(current, i)] = "pending"
  /\ question' = [question EXCEPT ![current][CallAt(current, i)] = "answered"]
  /\ heard' = [heard EXCEPT ![current][CallAt(current, i)] = reply]
  /\ monitor' = Observed("ask") /\ Advance(i, "told")
  /\ UNCHANGED <<rows, approval, ref, resumedAt, stage, current, resumed, gate, verdict, begun,
                 wait, stops, worked, ran>>

\* Mutant: a call that waits is waited for.
Mutant_Settled(r) == \A i \in DOMAIN graph[r].state : graph[r].state[i] = "done"

\* The tools of the response have all ended or wait.
Settled(r) == \A i \in DOMAIN graph[r].state : graph[r].state[i] \in {"done", "waiting"}

NextTurn ==
  /\ stage = "tools" /\ Settled(current) /\ Waiting(current) = {}
  /\ graph' = [graph EXCEPT ![current].at = @ + 1, ![current].resp = <<>>,
                            ![current].state = <<>>]
  /\ verdict' = <<>> /\ stage' = "loop"
  /\ UNCHANGED <<rows, stores, ref, resumedAt, current, resumed, gate, monitor, begun, wait,
                 stops, ghosts>>

Interrupted ==
  /\ stage = "tools" /\ Settled(current) /\ Waiting(current) # {}
  /\ stage' = IF resumed THEN "record" ELSE "park"
  /\ UNCHANGED <<rows, stores, saved, current, resumed, agent, wait, stops, ghosts>>

-----------------------------------------------------------------------------
(* Interrupted and ended runs.                                             *)

\* The rows of an interrupted run, and then the reference that carries its interrupt.
Park ==
  /\ stage = "park"
  /\ row' = [row EXCEPT ![current].status = "blocked", ![current].attempt = "running"]
  /\ session' = "interrupted"
  /\ pending' = current /\ shown' = FirstInterrupt(current)
  /\ stage' = "refer"
  /\ UNCHANGED <<stores, saved, current, resumed, agent, card, kept, again, restored, reply,
                 stops, ghosts>>

Refer ==
  /\ stage \in {"refer", "terminal"}
  /\ ref' = [run |-> current, at |-> graph[current].at,
             shown |-> IF stage = "refer" THEN shown ELSE None,
             live |-> stage = "refer", controls |-> stage = "refer"]
  /\ card' = IF stage = "refer" THEN shown ELSE card
  /\ stage' = "idle" /\ current' = NoRun
  /\ UNCHANGED <<rows, stores, graph, resumedAt, resumed, agent, pending, shown, kept, again,
                 restored, reply, stops, ghosts>>

\* Mutant: the reference of a resumption names no live attempt.
Mutant_LiveAttempt(r) == FALSE

\* live_idempotency_keys names the attempt of the lead.
LiveAttempt(r) == TRUE

\* A resumption records its checkpoint under one key of its run, with neither the interrupt
\* nor the controls.
Record ==
  /\ stage = "record" /\ resumedAt[current] \in {0, graph[current].at}
  /\ resumedAt' = [resumedAt EXCEPT ![current] = graph[current].at]
  /\ ref' = [run |-> current, at |-> graph[current].at, shown |-> None,
             live |-> LiveAttempt(current), controls |-> FALSE]
  /\ IF Waiting(current) = {}
     THEN stage' = "pump" /\ UNCHANGED <<session, current, shown, card>>
     ELSE /\ shown' = FirstInterrupt(current) /\ card' = FirstInterrupt(current)
          /\ session' = "interrupted" /\ stage' = "idle" /\ current' = NoRun
  /\ UNCHANGED <<row, stores, graph, resumed, agent, pending, kept, again, restored, reply,
                 stops, ghosts>>

\* _finalize_completion: the plan, if there is one, has run.
PumpEnds ==
  /\ stage = "pump"
  /\ stage' = "close"
  /\ UNCHANGED <<rows, stores, saved, current, resumed, agent, wait, stops, ghosts>>

\* A tool of the plan waits for an approval: only a first execution waits with it.
PumpWaits ==
  /\ stage = "pump" /\ ~resumed /\ row[current].decision = "planned"
  /\ row' = [row EXCEPT ![current].status = "blocked"]
  /\ session' = "interrupted"
  /\ pending' = current /\ shown' = [kind |-> "tool", run |-> current, call |-> <<0, 0>>]
  /\ stage' = "refer"
  /\ UNCHANGED <<stores, saved, current, resumed, agent, card, kept, again, restored, reply,
                 stops, ghosts>>

PumpBlocked ==
  /\ stage = "pump" /\ row[current].decision = "planned"
  /\ Ended(current, "blocked", "blocked")
  /\ stage' = "idle" /\ current' = NoRun /\ Forgotten /\ Shows
  /\ UNCHANGED <<stores, saved, resumed, agent, stops, ghosts>>

\* The first execution catches what the pump raises, a resumption does not.
PumpRaises(status) ==
  /\ stage = "pump" /\ row[current].decision = "planned"
  /\ IF resumed THEN UNCHANGED rows
     ELSE Ended(current, status, IF status = "cancelled" THEN "interrupted" ELSE "failed")
  /\ stage' = "idle" /\ current' = NoRun
  /\ UNCHANGED <<stores, saved, resumed, agent, wait, stops, ghosts>>

\* What keeps a run that came to its end from being completed.
Unsatisfied(r) ==
  \/ Need(r) /\ ~row[r].answered
  \/ Mode(r) \notin {"any", row[r].decision}
  \/ row[r].decision = "none" /\ row[r].bad >= 2
  \/ ~resumed /\ row[r].decision = "none" /\ row[r].required /\ ~row[r].answered

\* The last words of a resumed lead may be that it waits for an answer it was given.
StaleWait(waits) == waits /\ resumed /\ row[current].answered

\* _record_execution_gate_blocked
GateBlocked(r) == Ended(r, "blocked", "blocked")

Close(waits) ==
  /\ stage = "close"
  /\ IF Unsatisfied(current) \/ StaleWait(waits) THEN GateBlocked(current)
     ELSE Ended(current, "completed", "succeeded")
  /\ Leave /\ Shows
  /\ UNCHANGED <<stores, saved, resumed, agent, stops, ghosts>>

-----------------------------------------------------------------------------
(* The person.                                                             *)

\* ApprovalStore.decide: a "once" row is inserted unless there is one.
AllowOnce(r, c) == [approval EXCEPT ![r][c] = IF @ = "none" THEN "once" ELSE @]

\* An answer to the question on the terminal, or an approval of the command on it, and the
\* run is resumed.
Answer ==
  /\ stage = "idle" /\ pending # NoRun /\ card # None
  /\ approval' = IF card.kind = "approval" THEN AllowOnce(card.run, card.call) ELSE approval
  /\ card' = IF card.kind = "question" THEN card ELSE None
  /\ reply' = card /\ stage' = "resume" /\ current' = pending
  /\ UNCHANGED <<rows, question, saved, resumed, agent, pending, shown, kept, again, restored,
                 stops, ghosts>>

\* After the approval of a plan's tool the run goes on at its plan.
Onward == again /\ shown.kind # "tool"
Prepared ==
  /\ again' = Onward /\ shown' = IF shown.kind = "tool" THEN None ELSE shown
  /\ restored' = IF restored = "none" THEN row[current].decision ELSE restored
  /\ UNCHANGED <<pending, card, kept, reply>>

\* The gate takes over a decision that fits the controls.
Fits(decision) == decision = "none" \/ Mode(current) \in {"any", decision}

\* A new lead, with the decision the controller knows, or else the journaled one; the
\* calls that waited run again.
Resume ==
  /\ stage = "resume" /\ Prepared /\ Fits(restored')
  /\ ~Onward \/ Cardinality(Waiting(current)) <= 1
  /\ resumed' = TRUE
  /\ BuildLead(restored', row[current].answered \/ shown.kind = "question")
  /\ verdict' = [i \in DOMAIN graph[current].resp |-> "ok"]
  /\ graph' = IF Onward THEN [graph EXCEPT ![current].state =
                  [i \in DOMAIN @ |-> IF @[i] = "waiting" THEN "woken" ELSE @[i]]]
              ELSE graph
  /\ stage' = IF ~Onward THEN "pump" ELSE IF graph[current].final THEN "record" ELSE "tools"
  /\ UNCHANGED <<rows, stores, ref, resumedAt, current, begun, stops, ghosts>>

\* What no except clause of a resumption catches: a decision that does not fit, and another
\* checkpoint under the key of the run.
Raises ==
  IF stage = "resume" THEN Prepared /\ ~Fits(restored')
  ELSE /\ stage = "record" /\ resumedAt[current] \notin {0, graph[current].at}
       /\ UNCHANGED wait
ResumeRaises ==
  /\ Raises
  /\ stage' = "idle" /\ current' = NoRun
  /\ UNCHANGED <<rows, stores, saved, resumed, agent, stops, ghosts>>

\* One answer for several interrupts: the framework refuses it.
ResumeAmbiguous ==
  /\ stage = "resume" /\ Onward /\ Cardinality(Waiting(current)) > 1
  /\ Ended(current, "failed", "failed")
  /\ resumed' = TRUE /\ stage' = "idle" /\ current' = NoRun /\ Forgotten
  /\ UNCHANGED <<stores, saved, agent, card, stops, ghosts>>

\* The question on the terminal is cancelled in its store, and the run is rejected; without
\* a pending run the controller raises.
Reject ==
  /\ stage = "idle" /\ card # None
  /\ card.kind = "question" => question[card.run][card.call] = "pending"
  /\ question' = IF card.kind = "question"
                 THEN [question EXCEPT ![card.run][card.call] = "cancelled"] ELSE question
  /\ IF pending # NoRun THEN Ended(pending, "blocked", "blocked") /\ card' = None /\ Forgotten
     ELSE UNCHANGED <<rows, wait>>
  /\ UNCHANGED <<approval, saved, stage, current, resumed, agent, stops, ghosts>>

\* The run is cancelled while its lead is at work.
Cancel ==
  /\ stage \in {"loop", "calling", "tools"}
  /\ Fails("cancelled")
  /\ UNCHANGED <<stores, saved, resumed, agent, stops, ghosts>>

-----------------------------------------------------------------------------
(* The process stops, and a new one opens the session.                     *)

\* Mutant: the budget of a run starts anew with the process.
Mutant_Reloaded(r) == 0

\* _model_call_budget_for_run counts the model.started events of the run.
Reloaded(r) == row[r].started

\* quit: the terminal was closed between two runs and marked the session idle.
Stop(quit) ==
  /\ stage # "down" /\ stops < MaxStops
  /\ quit => stage = "idle"
  /\ session' = IF quit THEN "idle" ELSE session
  /\ stops' = stops + 1 /\ stage' = "down" /\ current' = NoRun /\ resumed' = FALSE
  /\ gate' = FreshGate /\ verdict' = <<>> /\ monitor' = FreshMonitor
  /\ begun' = [r \in Run |-> Reloaded(r)]
  /\ pending' = NoRun /\ shown' = None /\ card' = None /\ kept' = TRUE
  /\ again' = TRUE /\ restored' = "none" /\ reply' = None
  /\ graph' = [r \in Run |-> [graph[r] EXCEPT !.state =
                 [i \in DOMAIN @ |-> IF @[i] = "done" THEN "done" ELSE "waiting"]]]
  /\ UNCHANGED <<row, stores, ref, resumedAt, ghosts>>

\* --continue opens the session as it is.
Reopen ==
  /\ stage = "down" /\ stage' = "idle"
  /\ UNCHANGED <<rows, stores, saved, current, resumed, agent, wait, stops, ghosts>>

\* --resume, or /resume in the terminal, recovers the session first: attempts without a
\* live key are interrupted.
Recover ==
  /\ stage \in {"down", "idle"} /\ ref.run # NoRun /\ ~Stale
  /\ row' = [r \in Run |-> IF row[r].attempt = "running" /\ ~(ref.live /\ r = ref.run)
                           THEN [row[r] EXCEPT !.attempt = "interrupted"] ELSE row[r]]
  /\ session' = "active" /\ stage' = "recovered"
  /\ UNCHANGED <<stores, saved, current, resumed, agent, wait, stops, ghosts>>

\* The newest pending question of a run, without the kind an interrupt has.
StoredQuestion(r) ==
  IF Asked(r) = {} THEN None
  ELSE [kind |-> "bare", run |-> r,
        call |-> CHOOSE c \in Asked(r) : \A d \in Asked(r) : Before(d, c) \/ d = c]

\* restore_interrupted, which raises on a stale reference or on one of another run.
Restored ==
  /\ Candidate # NoRun /\ ref.run \in {NoRun, Candidate} /\ ~Stale
  /\ pending' = Candidate
  /\ again' = (row[Candidate].status = "blocked")
  /\ restored' = row[Candidate].decision
  /\ kept' = (ref.run = Candidate /\ ref.controls)
  /\ shown' = IF ref.run = Candidate /\ ref.shown # None THEN ref.shown
              ELSE StoredQuestion(Candidate)

\* After a recovery the terminal shows the interrupt; a headless command goes on with its
\* prompt as the answer.
Restore(headless) ==
  /\ stage = "recovered" /\ Restored
  /\ IF headless
     THEN /\ stage' = "resume" /\ current' = Candidate /\ reply' = shown' /\ UNCHANGED card
     ELSE /\ stage' = "idle" /\ UNCHANGED <<current, reply>>
          /\ card' = IF card = None /\ shown'.kind = "bare"
                     THEN [shown' EXCEPT !.kind = "question"]
                     ELSE IF card = None THEN shown' ELSE card
  /\ UNCHANGED <<rows, stores, saved, resumed, agent, stops, ghosts>>

NothingToRestore ==
  /\ stage = "recovered" /\ (Candidate = NoRun \/ ref.run # Candidate)
  /\ stage' = "idle"
  /\ UNCHANGED <<rows, stores, saved, current, resumed, agent, wait, stops, ghosts>>

\* A prompt that run_instruction refuses has restored the run it is refused for; the
\* terminal shows nothing of it.
PromptRefused ==
  /\ stage = "idle" /\ card = None /\ pending = NoRun /\ Restored
  /\ UNCHANGED <<rows, stores, saved, stage, current, resumed, agent, card, reply, stops,
                 ghosts>>

-----------------------------------------------------------------------------
ToolStep ==
  \E i \in 1..Width :
    \/ RepeatedCall(i) \/ TooEarly(i) \/ Refused(i) \/ Works(i)
    \/ Execute(i) \/ RunCommand(i) \/ Finish(i)
    \/ Ask(i) \/ Told(i)

LeadStep ==
  \/ BeginCall \/ CallFails \/ Persist \/ ToolStep \/ NextTurn \/ Interrupted
  \/ \E resp \in Responses : Respond(resp)
  \/ Park \/ Refer \/ Record \/ ResumeRaises
  \/ PumpEnds \/ PumpWaits \/ PumpBlocked \/ PumpRaises("failed")
  \/ \E waits \in BOOLEAN : Close(waits)
  \/ Resume \/ ResumeAmbiguous

Person ==
  \/ \E r \in Run : \/ \E said \in Instructions, given \in Given : Instruct(r, said, given)
                    \/ \E status \in {"blocked", "failed"} : Unassigned(r, status)
  \/ Answer \/ PromptRefused \/ Reject \/ Cancel \/ PumpRaises("cancelled")

Process ==
  \/ \E quit \in BOOLEAN : Stop(quit)
  \/ Reopen \/ Recover \/ NothingToRestore \/ \E headless \in BOOLEAN : Restore(headless)

Next == LeadStep \/ Person \/ Process

\* The loop is driven: providers answer or fail, commands end.
Spec == Init /\ [][Next]_vars /\ WF_vars(LeadStep)

-----------------------------------------------------------------------------
\* A tool works only under a journaled decision, and, in a run that must ask first, only
\* after an answer was journaled: whatever the order of the calls in a response, and in a
\* lead that was built anew after an interrupt or a restart.
WorkFollowsDecision ==
  [][\A r \in Run : worked'[r] # worked[r] =>
       row[r].decision # "none" /\ (row[r].need => row[r].answered)]_vars

\* A command runs at most once for the approval it was given, over resumptions, crashes
\* between its run and the write of its result, and answers given twice.
RunsUnderConsent ==
  \A r \in Run : \A c \in Call :
    ran[r][c] <= IF approval[r][c] = "consumed" THEN 1 ELSE 0

\* A question is answered with what the person said to it, never with the approval of a
\* command or the answer to an earlier question.
AnswersFitTheirQuestion ==
  \A r \in Run : \A c \in Call :
    question[r][c] = "answered" =>
      /\ heard[r][c].kind \in {"question", "bare"}
      /\ heard[r][c].run = r /\ heard[r][c].call = c

\* A question that waits in a run whose reference is current can be put to the person
\* again after a restart, recovered or not: the attempt of its run is still live.
QuestionSurvives ==
  \A r \in Run : /\ row[r].status = "blocked" /\ Asked(r) # {} /\ pending = NoRun
                 /\ ref.run = r /\ ref.at = graph[r].at
                 /\ \E i \in Waiting(r) : CallAt(r, i) \in Asked(r)
                 => row[r].attempt # "interrupted"

\* The lead of a run that is at work ends or waits for the person: it cannot go on for
\* ever, for its model calls are bounded.
AtWork == stage \notin {"idle", "down", "recovered"}
LeadEnds == AtWork ~> ~AtWork

\* Work in a run follows a decision of that run.
WorkHasDecision == \A r \in Run : worked[r] # {} => row[r].decision # "none"
=============================================================================
