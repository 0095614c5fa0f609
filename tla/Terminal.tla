------------------------------- MODULE Terminal -------------------------------
(* The interactive terminal of Skail (src/skail/tui/app.py and its composer and
   cards) between the person who types and the controller that runs.  A prompt
   travels: the composer decides from ITS copy of the queue and of "a run is
   active" whether to submit or to queue it and posts a message; the application
   handles its messages one at a time; prompts run in workers (tasks of the same
   event loop) that may wait inside the controller while messages are handled.

   The controller is the one LeadSession describes, seen from outside: a run ends,
   fails, or parks on a question (told first by an event, then by the result) or
   on an approval (told by the result alone), and keeps `waiting' until the
   interrupt is resumed or rejected.  Text, layout and onboarding are left out. *)
EXTENDS Naturals, FiniteSets, SequencesExt

CONSTANTS
    MaxPrompts,      \* prompts the person types
    MaxInterrupts,   \* interrupts the runs raise
    MaxAnswers,      \* cards the person answers or approves
    MaxCommands      \* commands the person types and prompts she takes back

ASSUME TerminalBounds ==
    /\ {MaxPrompts, MaxInterrupts, MaxAnswers, MaxCommands} \subseteq Nat
    /\ MaxInterrupts >= 1   \* a restored run may wait on one

VARIABLES
    appState,   \* app_state; "exited" when the event loop has ended
    inbox,      \* messages posted to the application and not yet handled
    composer,   \* the composer's own copy: queue_items and run_active
    pending,    \* _pending_prompts: typed before there is a controller
    queue,      \* projection.queue: the follow-ups
    runActive,  \* _run_active
    leaving,    \* the worker exit() waits for
    active,     \* _active_worker, by its number; 0 before the first
    workers,    \* the workers that have not finished
    born,       \* workers started so far
    waiting,    \* the controller's pending interrupt: its kind, or "none"
    asked,      \* interrupts raised so far; the last one is the pending one
    open,       \* questions the question store holds as pending
    logged,     \* the question a replay of the event log would show, or 0
    card,       \* projection.pending_interrupt
    typed,      \* prompts typed so far: they are numbered as they are typed
    commands,   \* commands typed and prompts taken back so far
    takenBack,  \* history: prompts that were taken back into the draft
    started,    \* prompts given to run_instruction, in order
    shown       \* prompts refused or discarded with a message that says so

desk == <<inbox, typed, commands, takenBack>>
shell == <<pending, queue, runActive, active, workers, born, started, shown>>
controller == <<waiting, asked, open, logged>>
app == <<appState, leaving>>
vars == <<app, desk, composer, shell, controller, card>>

--------------------------------------------------------------------------------
(* Vocabulary *)
Prompts == 1..MaxPrompts
MaxWorkers == MaxPrompts + MaxAnswers
Kinds == {"question", "approval"}
NoCard == [kind |-> "none", status |-> "none", id |-> 0]
Card(kind, id) == [kind |-> kind, status |-> "pending", id |-> id]
Cards == {NoCard} \cup [kind : Kinds, status : {"pending", "answering"}, id : 1..MaxInterrupts]

Message == [kind : {"submit", "queue"}, prompt : Prompts]
             \cup [kind : {"cancel", "compact", "resume"}, prompt : {0}]

(* A worker runs a prompt, or resumes with the answer of a card (prompt 0).
   "following": waits for the worker `after'; "refused": run_instruction raises because an interrupt is pending;
   "answering": the answer is not yet recorded; "parked": the interrupt is
   pending in the controller, the result is not yet returned.  "told": somebody
   wanted it to stop; "cancelled": CancelledError is on its way to it.          *)
Worker == [id : 1..MaxWorkers, prompt : 0..MaxPrompts,
           at : {"following", "refused", "running", "answering", "parked"},
           after : 0..MaxWorkers, told : BOOLEAN, cancelled : BOOLEAN]

NewWorker(prompt, at, after) ==
    [id |-> born + 1, prompt |-> prompt, at |-> at, after |-> after,
     told |-> FALSE, cancelled |-> FALSE]
IsUnfinished(id, live) == \E v \in live : v.id = id
At(w, at) == (workers \ {w}) \cup {[w EXCEPT !.at = at]}

(* Whom the cancellation of a worker reaches: a follow-up that waits passes it to
   the worker born before it, which it awaits.  When that one takes it and ends, as
   a prompt does, the follow-up itself goes on.                                 *)
Reached(id) ==
    {v \in workers : v.id <= id /\ \A u \in workers : u.id \in v.id + 1..id => u.at = "following"}

ToldToStop(v) == [v EXCEPT !.told = TRUE, !.cancelled = @ \/ v.at # "following"]
Cancelling(id) == {IF v \in Reached(id) THEN ToldToStop(v) ELSE v : v \in workers}

(* Every handler ends in update_views, which hands the composer its copy.       *)
Refresh == composer' = [items |-> queue', active |-> runActive']

Init ==
    /\ appState = "initializing"
    /\ inbox = <<>>
    /\ composer = [items |-> <<>>, active |-> FALSE]
    /\ pending = <<>> /\ queue = <<>>
    /\ runActive = FALSE
    /\ leaving = 0 /\ active = 0 /\ workers = {} /\ born = 0
    /\ waiting \in {"none"} \cup Kinds
    /\ asked = IF waiting = "none" THEN 0 ELSE 1
    /\ open = IF waiting = "question" THEN {1} ELSE {}
    /\ logged = IF waiting = "question" THEN 1 ELSE 0
    /\ card = NoCard
    /\ typed = 0 /\ commands = 0 /\ takenBack = {}
    /\ started = <<>> /\ shown = {}

--------------------------------------------------------------------------------
(* The composer *)
Post(kind) ==
    /\ typed < MaxPrompts
    /\ appState # "exited"
    /\ typed' = typed + 1
    /\ inbox' = Append(inbox, [kind |-> kind, prompt |-> typed'])
    /\ composer' = IF kind = "queue" THEN [composer EXCEPT !.items = Append(@, typed')]
                                     ELSE composer
    /\ UNCHANGED <<app, shell, controller, card, commands, takenBack>>

PressEnter == Post(IF composer.items # <<>> THEN "queue" ELSE "submit")

PressCtrlEnter ==
    Post(IF composer.active \/ composer.items # <<>> THEN "queue" ELSE "submit")

(* Up on an empty draft takes the newest queued prompt back into the draft, in
   the composer's copy of the queue alone: the application keeps it in its own.
   Sent again, the text is another prompt.                                      *)
TakeBack ==
    /\ composer.items # <<>>
    /\ commands < MaxCommands
    /\ commands' = commands + 1
    /\ appState # "exited"
    /\ composer' = [composer EXCEPT !.items = Front(@)]
    /\ takenBack' = takenBack \cup {Last(composer.items)}
    /\ UNCHANGED <<app, inbox, shell, controller, card, typed>>

TypeCommand ==
    \E kind \in {"cancel", "compact", "resume"} :
        /\ commands < MaxCommands
        /\ appState # "exited"
        /\ commands' = commands + 1
        /\ inbox' = Append(inbox, [kind |-> kind, prompt |-> 0])
        /\ UNCHANGED <<app, composer, shell, controller, card, typed, takenBack>>

--------------------------------------------------------------------------------
(* Starting prompts *)

(* run_worker(_execute_prompt): the task calls run_instruction before it first
   waits; that call raises while an interrupt or a question is pending.         *)
FirstStep == IF waiting' = "none" /\ open' = {} THEN "running" ELSE "refused"

SpawnAs(worker, live) ==
    /\ workers' = live \cup {worker}
    /\ born' = worker.id
    /\ active' = worker.id
    /\ started' = Append(started, worker.prompt)

Spawn(prompt, live) == SpawnAs(NewWorker(prompt, FirstStep, 0), live)
SpawnBehind(prompt, live) == SpawnAs(NewWorker(prompt, "following", active), live)

NoSpawn(live) ==
    /\ workers' = live
    /\ UNCHANGED <<born, active, started>>

StartPrompt(prompt) ==
    CASE card # NoCard ->
            /\ shown' = shown \cup {prompt}
            /\ NoSpawn(workers)
            /\ UNCHANGED <<queue, runActive, pending>>
      [] card = NoCard /\ IsUnfinished(active, workers) ->
            /\ queue' = Append(queue, prompt)
            /\ runActive' = TRUE
            /\ NoSpawn(workers)
            /\ UNCHANGED <<shown, pending>>
      [] OTHER ->
            /\ runActive' = TRUE
            /\ Spawn(prompt, workers)
            /\ UNCHANGED <<queue, shown, pending>>

(* Before there is a controller, and until a model is chosen, a prompt is kept. *)
KeepPrompt(prompt) ==
    /\ pending' = Append(pending, prompt)
    /\ NoSpawn(workers)
    /\ UNCHANGED <<queue, runActive, shown>>

HasNoController == appState \in {"initializing", "error"}

PromptSubmitted(message) ==
    /\ message.kind = "submit"
    /\ UNCHANGED <<app, controller, card>>
    /\ IF appState = "selection_required" \/ (card = NoCard /\ HasNoController)
       THEN KeepPrompt(message.prompt)
       ELSE StartPrompt(message.prompt)

PromptQueued(message) ==
    /\ message.kind = "queue"
    /\ queue' = Append(queue, message.prompt)
    /\ NoSpawn(workers)
    /\ UNCHANGED <<app, pending, runActive, shown, controller, card>>

(* The kept prompts start one after the other, the way StartPrompt starts each:
   the first starts a worker and the rest queue behind it, or all are refused
   while a card is shown.                                                       *)
StartPending ==
    IF card' # NoCard
    THEN /\ shown' = shown \cup ToSet(pending)
         /\ NoSpawn(workers)
         /\ UNCHANGED <<queue, runActive>>
    ELSE IF pending = <<>>
    THEN /\ NoSpawn(workers)
         /\ UNCHANGED <<queue, runActive, shown>>
    ELSE /\ Spawn(Head(pending), workers)
         /\ queue' = queue \o Tail(pending)
         /\ runActive' = TRUE
         /\ UNCHANGED shown

--------------------------------------------------------------------------------
(* Attaching the runtime *)

(* The controller is built and, with --resume, restored: a restored interrupt
   shows its card, from the replayed events or from the controller.             *)
ShownAfterReplay == IF logged # 0 THEN Card("question", logged) ELSE NoCard

(* Mutant: a card is shown without asking whether the controller waits.         *)
Mutant_RestoredCard ==
    IF ShownAfterReplay # NoCard THEN ShownAfterReplay ELSE Card(waiting, asked)

RestoredCard ==
    IF ShownAfterReplay # NoCard \/ waiting = "none" THEN ShownAfterReplay
                                                     ELSE Card(waiting, asked)

AttachRuntimeModels ==
    /\ appState = "initializing"
    /\ UNCHANGED <<leaving, controller, desk>>
    /\ card' = RestoredCard
    /\ \/ /\ appState' = "ready"
          /\ StartPending
          /\ pending' = <<>>
       \/ /\ appState' = "selection_required"
          /\ NoSpawn(workers)
          /\ UNCHANGED <<pending, queue, runActive, shown>>
    /\ Refresh

EnterErrorState ==
    /\ appState = "initializing"
    /\ appState' = "error"
    /\ UNCHANGED <<leaving, desk, shell, controller, card>>
    /\ Refresh

SetFutureModel ==
    /\ appState = "selection_required"
    /\ appState' = "ready"
    /\ pending' = <<>>
    /\ UNCHANGED <<leaving, controller, desk>>
    /\ card' = card
    /\ StartPending
    /\ Refresh

--------------------------------------------------------------------------------
(* The queue and its workers *)
(* Mutant: the queue is cleared without a message.                              *)
Mutant_ClearQueuedPrompts == queue' = <<>> /\ UNCHANGED shown

ClearQueuedPrompts == queue' = <<>> /\ shown' = shown \cup ToSet(queue)

(* A follow-up that waited for w runs when w has ended.                         *)
Woken(v, w) ==
    IF v.after = w.id THEN [v EXCEPT !.after = 0, !.at = FirstStep] ELSE v

(* The `finally' of a worker w that ends: unless a card is shown the next queued
   prompt starts, behind the active worker if that one still runs.  A follow-up
   waits for w when w is the active worker, and for that wait it is an error that
   w was cancelled; nobody catches it, and a failed worker ends the application.  *)
StartNextQueuedPrompt(w, items, endsCancelled) ==
    LET live == {Woken(v, w) : v \in workers \ {w}}
        starts == card' = NoCard /\ appState = "ready" /\ runActive /\ items # <<>>
        behind == \E v \in workers : v.after = w.id
    IN
    /\ IF endsCancelled /\ (behind \/ (starts /\ active = w.id))
       THEN appState' = "exited" ELSE UNCHANGED appState
    /\ queue' = IF starts THEN Tail(items) ELSE IF appState = "quitting" /\ card' = NoCard THEN <<>> ELSE items
    /\ runActive' = (runActive /\ (starts \/ card' # NoCard))
    /\ CASE ~starts -> NoSpawn(live)
         [] starts /\ active = w.id /\ endsCancelled -> NoSpawn(live)
         [] starts /\ ~IsUnfinished(active, live) /\ ~(active = w.id /\ endsCancelled) ->
                Spawn(Head(items), live)
         [] starts /\ IsUnfinished(active, live) -> SpawnBehind(Head(items), live)

Ends ==
    /\ UNCHANGED <<leaving, desk, pending, asked>>
    /\ Refresh

DiscardingQueue == shown' = shown \cup ToSet(queue)

(* The result of a run that has ended clears the card, unless the question store
   still holds its question.                                                    *)
CardAfterResult ==
    IF card.kind = "question" /\ card.id \in open THEN Card("question", card.id) ELSE NoCard

(* Mutant: a run that ends well starts no follow-up.                            *)
Mutant_RunEnds(w) ==
    /\ w.at = "running" /\ ~w.cancelled
    /\ waiting' = "none"
    /\ card' = CardAfterResult
    /\ NoSpawn(workers \ {w})
    /\ UNCHANGED <<appState, queue, runActive, shown, open, logged>>
    /\ Ends

RunEnds(w) ==
    /\ w.at = "running" /\ ~w.cancelled
    /\ UNCHANGED <<open, logged>>
    /\ waiting' = "none"
    /\ card' = CardAfterResult
    /\ \/ StartNextQueuedPrompt(w, queue, FALSE) /\ UNCHANGED shown
       \/ StartNextQueuedPrompt(w, <<>>, FALSE) /\ DiscardingQueue
    /\ Ends

(* An exception: run_instruction refuses or fails; a resumption fails, with the
   interrupt dropped or kept.                                                   *)
RunFails(w) ==
    /\ w.at \in {"refused", "running", "answering"} /\ ~w.cancelled
    /\ UNCHANGED <<open, logged>>
    /\ waiting' \in {waiting} \cup (IF w.prompt = 0 THEN {"none"} ELSE {})
    /\ card' = card
    /\ StartNextQueuedPrompt(w, <<>>, FALSE)
    /\ DiscardingQueue
    /\ Ends

(* A cancelled run: what the controller had parked stays pending.               *)
RunCancelled(w) ==
    /\ w.cancelled /\ w.at # "following"
    /\ UNCHANGED <<open, logged>>
    /\ waiting' \in {waiting} \cup (IF w.prompt = 0 THEN {"none"} ELSE {})
    /\ card' = card
    /\ IF w.prompt = 0
       THEN StartNextQueuedPrompt(w, queue, TRUE) /\ UNCHANGED shown
       ELSE StartNextQueuedPrompt(w, <<>>, FALSE) /\ DiscardingQueue
    /\ Ends

(* A first run parks: a question's event is delivered with the commit, the result
   comes after the checkpoint has been saved; a question cancelled in between is
   still in that result.                                                        *)
RunParks(w) ==
    \E kind \in Kinds :
        /\ w.at = "running" /\ w.prompt # 0 /\ ~w.cancelled
        /\ asked < MaxInterrupts
        /\ asked' = asked + 1
        /\ waiting' = kind
        /\ open' = IF kind = "question" THEN open \cup {asked'} ELSE open
        /\ logged' = IF kind = "question" THEN asked' ELSE logged
        /\ card' = IF kind = "question" THEN Card(kind, asked') ELSE card
        /\ workers' = At(w, "parked")
        /\ UNCHANGED <<app, desk, pending, queue, runActive,
                       active, born, started, shown>>
        /\ Refresh

ParkedResult(w) ==
    /\ w.at = "parked" /\ ~w.cancelled
    /\ UNCHANGED <<shown, waiting, open, logged>>
    /\ card' = Card(IF waiting = "none" THEN "question" ELSE waiting, asked)
    /\ StartNextQueuedPrompt(w, queue, FALSE)
    /\ Ends

(* A resumed run that parks again tells it by its result alone.                 *)
ResumedRunParks(w) ==
    \E kind \in Kinds :
        /\ w.at = "running" /\ w.prompt = 0 /\ ~w.cancelled
        /\ asked < MaxInterrupts
        /\ asked' = asked + 1
        /\ waiting' = kind
        /\ open' = IF kind = "question" THEN open \cup {asked'} ELSE open
        /\ card' = Card(kind, asked')
        /\ StartNextQueuedPrompt(w, queue, FALSE)
        /\ UNCHANGED <<leaving, desk, pending, shown, logged>>
        /\ Refresh

(* The resumed lead takes the answer: a question's is recorded, and the event of
   the record clears its card.                                                  *)
TakeAnswer(w) ==
    /\ w.at = "answering" /\ ~w.cancelled
    /\ waiting # "none"
    /\ open' = open \ {asked}
    /\ logged' = IF waiting = "question" /\ logged = asked THEN 0 ELSE logged
    /\ card' = IF waiting = "question" /\ card.kind = "question" /\ card.id = asked
              THEN NoCard ELSE card
    /\ workers' = At(w, "running")
    /\ UNCHANGED <<app, desk, pending, queue, runActive, active,
                   born, started, shown, waiting, asked>>
    /\ Refresh

--------------------------------------------------------------------------------
(* The card *)

(* Mutant: exclusive=False.                                                     *)
Mutant_Resume ==
    /\ born - Len(started) < MaxAnswers
    /\ workers' = workers \cup {NewWorker(0, "answering", 0)}
    /\ born' = born + 1
    /\ active' = born + 1
    /\ runActive' = TRUE
    /\ UNCHANGED started

(* run_worker(_resume_prompt, exclusive=True) cancels every other worker.       *)
Resume ==
    /\ born - Len(started) < MaxAnswers
    /\ workers' = {ToldToStop(v) : v \in workers} \cup {NewWorker(0, "answering", 0)}
    /\ born' = born + 1
    /\ active' = born + 1
    /\ runActive' = TRUE
    /\ UNCHANGED started

HasController == appState \in {"ready", "quitting"}

Approve ==
    /\ HasController
    /\ card.kind = "approval"
    /\ card' = NoCard
    /\ Resume
    /\ UNCHANGED <<queue, shown>>

Answer ==
    /\ HasController
    /\ card.kind = "question" /\ card.status = "pending"
    /\ card' = [card EXCEPT !.status = "answering"]
    /\ Resume
    /\ UNCHANGED <<queue, shown>>

UsesCard ==
    /\ Approve \/ Answer
    /\ UNCHANGED <<app, desk, pending, controller>>
    /\ Refresh

(* reject_interrupted needs a waiting run: without one it raises.               *)
Reject ==
    /\ HasController
    /\ card # NoCard /\ card.status = "pending"
    /\ waiting # "none"
    /\ waiting' = "none"
    /\ open' = open \ {card.id}
    /\ logged' = IF logged = card.id THEN 0 ELSE logged
    /\ card' = NoCard
    /\ ClearQueuedPrompts
    /\ NoSpawn(workers)
    /\ UNCHANGED <<app, desk, pending, runActive, asked>>
    /\ Refresh

--------------------------------------------------------------------------------
(* Commands *)
CancelForegroundRun(message) ==
    /\ message.kind = "cancel"
    /\ ClearQueuedPrompts
    /\ IF IsUnfinished(active, workers)
       THEN /\ workers' = Cancelling(active)
            /\ UNCHANGED runActive
       ELSE /\ runActive' = FALSE
            /\ UNCHANGED workers
    /\ UNCHANGED <<app, pending, active, born, started, controller, card>>

(* /compact replays the journal into the view: an approval has no event.        *)
CompactSession(message) ==
    /\ message.kind = "compact"
    /\ card' = ShownAfterReplay
    /\ UNCHANGED <<app, shell, controller>>

(* /resume of the same session restores the controller and replays; during a run
   the code does not guard it, and that case is left out.                       *)
ResumeSession(message) ==
    /\ message.kind = "resume"
    /\ card' = IF HasController /\ workers = {} THEN RestoredCard ELSE card
    /\ UNCHANGED <<app, shell, controller>>

HandleMessage ==
    /\ inbox # <<>> /\ appState # "exited"
    /\ LET message == Head(inbox) IN
           \/ PromptSubmitted(message) \/ PromptQueued(message)
           \/ CancelForegroundRun(message) \/ CompactSession(message) \/ ResumeSession(message)
    /\ inbox' = Tail(inbox)
    /\ UNCHANGED <<typed, commands, takenBack>>
    /\ Refresh

(* Ctrl+C and /quit: the queue is discarded, the active worker cancelled, and the
   application exits when that worker has ended.                                *)
Quit ==
    /\ appState \notin {"quitting", "exited"}
    /\ appState' = IF IsUnfinished(active, workers) THEN "quitting" ELSE "exited"
    /\ leaving' = active
    /\ runActive' = FALSE
    /\ ClearQueuedPrompts
    /\ workers' = Cancelling(active)
    /\ UNCHANGED <<desk, pending, active, born, started, controller,
                   card>>
    /\ Refresh

Exit ==
    /\ appState = "quitting"
    /\ ~IsUnfinished(leaving, workers)
    /\ appState' = "exited"
    /\ UNCHANGED <<leaving, desk, composer, shell, controller, card>>

--------------------------------------------------------------------------------
RunSteps(w) ==
    \/ RunEnds(w) \/ RunFails(w) \/ RunCancelled(w)
    \/ RunParks(w) \/ ParkedResult(w) \/ ResumedRunParks(w) \/ TakeAnswer(w)

WorkerStep == appState # "exited" /\ \E w \in workers : RunSteps(w)

Next ==
    \/ PressEnter \/ PressCtrlEnter \/ TakeBack \/ TypeCommand
    \/ AttachRuntimeModels \/ EnterErrorState \/ SetFutureModel
    \/ HandleMessage \/ UsesCard \/ Reject \/ WorkerStep
    \/ Quit \/ Exit

(* The application handles what is posted to it, and every run ends, parks or is
   answered in the end; the person owes nothing.                                *)
Fairness ==
    /\ WF_vars(HandleMessage)
    /\ WF_vars(AttachRuntimeModels)
    /\ WF_vars(Exit)
    /\ WF_vars(WorkerStep)

Spec == Init /\ [][Next]_vars /\ Fairness

--------------------------------------------------------------------------------
(* Properties *)

(* The values the variables take: no more prompts, cards or workers than were
   asked for, and a composer and queues of typed prompts.                       *)
TerminalTypeOK ==
    /\ appState \in {"initializing", "selection_required", "error", "ready", "quitting", "exited"}
    /\ inbox \in Seq(Message)
    /\ composer.items \in Seq(Prompts) /\ composer.active \in BOOLEAN
    /\ {pending, queue, started} \subseteq Seq(Prompts)
    /\ runActive \in BOOLEAN
    /\ workers \subseteq Worker
    /\ born \in 0..MaxWorkers /\ {active, leaving} \subseteq 0..born
    /\ waiting \in {"none"} \cup Kinds
    /\ asked \in 0..MaxInterrupts /\ open \subseteq 1..asked /\ logged \in 0..asked
    /\ card \in Cards
    /\ typed \in 0..MaxPrompts /\ commands \in 0..MaxCommands
    /\ shown \subseteq Prompts /\ takenBack \subseteq Prompts

Occurrences(p, s) == Cardinality({i \in DOMAIN s : s[i] = p})
Posted(p) == Cardinality({i \in DOMAIN inbox : inbox[i].prompt = p})

(* Whatever is typed, cancelled, answered and started in whatever order, a prompt
   is in exactly one place: posted, kept until there is a controller, queued, given
   to the controller once, or refused or discarded with a message.  The claim leaves
   out what the person took back: that is in her draft, where she may send it from
   again, and in the application's queue, which runs it all the same.           *)
NoPromptVanishes ==
    appState \notin {"quitting", "exited"} =>
        \A p \in (1..typed) \ takenBack :
            Posted(p) + Occurrences(p, pending) + Occurrences(p, queue)
              + Occurrences(p, started) + (IF p \in shown THEN 1 ELSE 0) = 1

(* One foreground run at a time: when prompts, answers and cancellations race,
   every other worker inside the controller has been told to stop, or was told
   while it waited as a follow-up and passed that on.                           *)
InController == {v \in workers : v.at # "following" /\ ~v.told}
OneForegroundRun == Cardinality(InController) <= 1

(* A follow-up queued behind a run the application knows of leaves the queue (run,
   or discarded with a message), unless a card asks the person first.           *)
QueuedRuns ==
    \A p \in Prompts :
        (p \in ToSet(queue) /\ runActive /\ workers # {})
            ~> (p \notin ToSet(queue) \/ card # NoCard \/ appState # "ready")

================================================================================
