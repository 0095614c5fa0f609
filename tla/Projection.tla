------------------------------ MODULE Projection ------------------------------
(***************************************************************************)
(* Events from the journal to the screen: the journal's transactions and   *)
(* their savepoints (sessions/journal.py), the callbacks that run after a  *)
(* commit (runtime/event_bus.py), the hop from a tool's thread to the      *)
(* event loop (tui/app.py) and the view that is built from events, or from *)
(* a session snapshot and the events behind it (tui/projection.py).        *)
(*                                                                         *)
(* The event loop and the threads of synchronous tools all write the       *)
(* journal.  A thread's event reaches the view only through the loop, and  *)
(* the thread waits for that; the loop itself waits for the journal's      *)
(* write lock.  A snapshot is several reads without a transaction, so a    *)
(* thread may commit between two of them.                                  *)
(***************************************************************************)
EXTENDS Integers, FiniteSets, SequencesExt

CONSTANTS
  Threads,       \* threads of synchronous tools
  Tasks,         \* tasks whose life the rail shows
  Nodes,         \* plan nodes
  Tools,         \* tools, each used by one call at a time
  Loop,          \* the event loop, a writer like the threads
  Interrupt,     \* the one question a session may be waiting on
  FinalAnswer,   \* the final answer of the run
  MaxEvents,     \* bound: events in the journal
  MaxWrites,     \* bound: writes of one transaction
  MaxSnapshots,  \* bound: snapshots taken (/compact, resume)
  MaxRollbacks,  \* bound: savepoints and transactions rolled back
  MaxCrashes     \* bound: restarts of the program

VARIABLES
  log,        \* committed events, in the order of their sequence numbers
  rows,       \* committed status of every task and node
  lock,       \* writer inside BEGIN IMMEDIATE, or NoWriter
  txn,        \* writer -> its open transaction
  calls,      \* thread -> events committed and not yet handed to the loop
  loop,       \* what the loop is doing
  snapshot,   \* what the loop has read of a snapshot so far
  view,       \* TuiProjection
  resultDue,  \* the run's result has yet to be applied
  overtaken,  \* history: nodes whose newer event may be shown before an older one
  spent       \* snapshots, rollbacks and crashes used up

viewVars == <<log, rows, lock, txn, calls, loop, snapshot, view, resultDue, overtaken, spent>>

Writers == Threads \cup {Loop}
NoWriter == "no writer"
Objects == Tasks \cup Nodes \cup Tools \cup {Interrupt, FinalAnswer}
Absent == "absent"

ASSUME ProjectionAssumption ==
  /\ Loop \notin Threads /\ NoWriter \notin Writers
  /\ Tasks \cap Nodes = {} /\ (Tasks \cup Nodes) \cap Tools = {}
  /\ Interrupt # FinalAnswer /\ {Interrupt, FinalAnswer} \cap (Tasks \cup Nodes \cup Tools) = {}
  /\ {MaxEvents, MaxWrites, MaxSnapshots, MaxRollbacks, MaxCrashes} \subseteq Nat

(* A tool call that is refused for its arguments fails without a start.    *)
ToolCall(s) ==
  IF s = "started" THEN {"completed", "failed"} ELSE {"started", "failed"}

(* What may follow a status.  A task's row is written before its first     *)
(* event; an attempt that failed may be followed by a second one.          *)
Following(o, s) ==
  CASE o \in Tasks ->
         (CASE s = Absent -> {"created"}
            [] s = "created" -> {"proposed"}
            [] s = "proposed" -> {"queued"}
            [] s = "queued" -> {"started", "blocked"}
            [] s = "started" -> {"succeeded", "failed"}
            [] s = "failed" -> {"started"}
            [] OTHER -> {})
    [] o \in Nodes ->
         (CASE s = Absent -> {"ready"}
            [] s = "ready" -> {"launching"}
            [] s = "launching" -> {"running"}
            [] s = "running" -> {"succeeded"}
            [] OTHER -> {})
    [] o \in Tools -> ToolCall(s)
    [] o = Interrupt ->
         IF s = "question" THEN {"answer", "cancellation"} ELSE {"question"}
    [] OTHER -> IF s = Absent THEN {"completed"} ELSE {}

Statuses ==
  {Absent, "created", "proposed", "queued", "started", "blocked", "succeeded",
   "failed", "ready", "launching", "running", "question", "answer",
   "cancellation", "completed"}

(* The row a write leaves behind: a task's row knows fewer states than its *)
(* events do.                                                              *)
RowOf(o, s) ==
  IF o \in Tasks
  THEN CASE s \in {"created", "proposed", "queued"} -> "queued"
         [] s = "started" -> "running"
         [] OTHER -> s
  ELSE s

(* Creating a task's row is the one write without an event.                *)
IsEvent(write) == write.status # "created"

Event == [obj : Objects, nth : 1 .. MaxEvents, status : Statuses]
Ids(s) == {s[i] : i \in DOMAIN s}

(* Where a sequence of events or writes speaks of an object, and the last  *)
(* that it says of it.                                                     *)
PlacesOf(s, o) == {i \in DOMAIN s : s[i].obj = o}
Mentions(s, o) == PlacesOf(s, o) # {}
LastStatus(s, o) == s[Max(PlacesOf(s, o))].status

-----------------------------------------------------------------------------
(* The view.  Every event is applied once, known by its id.                *)

BlankView ==
  [rail |-> [t \in Tasks |-> Absent], plan |-> [n \in Nodes |-> Absent],
   card |-> 0, items |-> << >>, seen |-> {}]

AddItem(v, id) ==
  IF id \in Ids(v.items) THEN v ELSE [v EXCEPT !.items = Append(@, id)]

(* An agent's status in the rail, and a line in the transcript.            *)
ShowTask(v, e) == AddItem([v EXCEPT !.rail[e.obj] = e.status], e)

ShowNode(v, e) == AddItem([v EXCEPT !.plan[e.obj] = e.status], e)

(* The card of a question stays until it is answered or cancelled.         *)
ShowQuestion(v, e) ==
  AddItem([v EXCEPT !.card = IF e.status = "question" THEN e.nth ELSE 0], e)

(* What a tool did is a line in the transcript.  The answer's line is known *)
(* by its run and not by its event.                                        *)
ShowLine(v, e) == AddItem(v, IF e.obj = FinalAnswer THEN FinalAnswer ELSE e)

ApplyEvent(v, e) ==
  IF e \in v.seen THEN v
  ELSE LET marked == [v EXCEPT !.seen = @ \cup {e}] IN
       CASE e.obj \in Tasks -> ShowTask(marked, e)
         [] e.obj \in Nodes -> ShowNode(marked, e)
         [] e.obj = Interrupt -> ShowQuestion(marked, e)
         [] OTHER -> ShowLine(marked, e)

ApplyEvents(v, events) == FoldLeft(ApplyEvent, v, events)

(* A snapshot that does not forget the ids of the events it replays.       *)
Mutant_ApplySnapshot(v, taskRows, events, nodeRows) ==
  ApplyEvents([BlankView EXCEPT !.rail = taskRows, !.plan = nodeRows,
                                !.seen = v.seen], events)

(* apply_snapshot forgets everything, shows the rows and replays every     *)
(* event over them.                                                        *)
ApplySnapshot(v, taskRows, events, nodeRows) ==
  ApplyEvents([BlankView EXCEPT !.rail = taskRows, !.plan = nodeRows], events)

-----------------------------------------------------------------------------
(* Transactions.                                                           *)

NoTxn == [open |-> FALSE, writes |-> << >>, events |-> << >>,
          calls |-> << >>, marks |-> << >>]

ViewInit ==
  /\ log = << >>
  /\ rows = [o \in Tasks \cup Nodes |-> Absent]
  /\ lock = NoWriter
  /\ txn = [w \in Writers |-> NoTxn]
  /\ calls = [w \in Threads |-> << >>]
  /\ loop = "idle"
  /\ snapshot = << >>
  /\ view = BlankView
  /\ resultDue = FALSE
  /\ overtaken = {}
  /\ spent = [snapshots |-> 0, rollbacks |-> 0, crashes |-> 0]

Attached == loop # "starting"

(* A thread that still hands events over is inside its commit.  The loop   *)
(* blocks as soon as it wants the lock.                                    *)
Begin(w) ==
  /\ lock = NoWriter
  /\ Attached
  /\ IF w = Loop THEN loop = "waiting"
                 ELSE calls[w] = << >> /\ Len(log) < MaxEvents
  /\ lock' = w
  /\ txn' = [txn EXCEPT ![w] = [NoTxn EXCEPT !.open = TRUE]]
  /\ UNCHANGED <<log, rows, calls, loop, snapshot, view, resultDue, spent, overtaken>>

LoopWrites ==
  /\ loop = "idle"
  /\ Len(log) < MaxEvents
  /\ loop' = "waiting"
  /\ UNCHANGED <<log, rows, lock, txn, calls, snapshot, view, resultDue, spent, overtaken>>

(* What a writer sees of an object: the journal and its own writes.        *)
History(w, o) ==
  Cardinality(PlacesOf(log, o)) + Cardinality(PlacesOf(txn[w].events, o))

Current(w, o) ==
  CASE Mentions(txn[w].writes, o) -> LastStatus(txn[w].writes, o)
    [] ~Mentions(txn[w].writes, o) /\ Mentions(log, o) -> LastStatus(log, o)
    [] OTHER -> IF o \in Tasks /\ rows[o] # Absent THEN "created" ELSE Absent

(* An emitter is bound to its actor; the subject and the suffix of the type *)
(* say what happened.                                                      *)
NewEvent(w, o, s) == [obj |-> o, nth |-> History(w, o) + 1, status |-> s]

(* The rows of an event go into the transaction, and its delivery among    *)
(* the callbacks of the transaction.                                       *)
AppendEvent(tx, e) ==
  LET written == [tx EXCEPT !.writes = Append(@, e)]
  IN IF IsEvent(e)
     THEN [written EXCEPT !.events = Append(@, e), !.calls = Append(@, e)]
     ELSE written

(* Agents, tools and questions change hands one writer at a time: the steps *)
(* of a task follow one another, a tool's lines come from its one call, and *)
(* a question is answered after it was shown.  Plan nodes do not: what a    *)
(* thread settles makes other nodes ready, and the loop may launch one of   *)
(* them before the thread has handed its events over.                      *)
InOtherHands(w, o) == \E t \in Threads \ {w} : Mentions(calls[t], o)

Write(w, o) == \E s \in Following(o, Current(w, o)) :
  /\ txn[w].open
  /\ o \in Nodes \/ ~InOtherHands(w, o)
  /\ o = FinalAnswer => w = Loop
  /\ Len(log) + Len(txn[w].writes) < MaxEvents
  /\ Len(txn[w].writes) < MaxWrites
  /\ txn' = [txn EXCEPT ![w] = AppendEvent(@, NewEvent(w, o, s))]
  /\ UNCHANGED <<log, rows, lock, calls, loop, snapshot, view, resultDue, spent, overtaken>>

(* A transaction inside a transaction is a savepoint.  One that succeeds    *)
(* leaves nothing behind, so only those that are rolled back are modelled. *)
Savepoint(w) ==
  /\ lock = w
  /\ txn[w].open
  /\ txn[w].marks = << >>
  /\ spent.rollbacks < MaxRollbacks
  /\ txn' = [txn EXCEPT ![w].marks =
               <<Len(txn[w].writes), Len(txn[w].events), Len(txn[w].calls)>>]
  /\ UNCHANGED <<log, rows, lock, calls, loop, snapshot, view, resultDue, spent, overtaken>>

(* A nested rollback that leaves the callbacks of its events in place.     *)
Mutant_RolledBack(tx) ==
  [tx EXCEPT !.writes = SubSeq(@, 1, tx.marks[1]),
             !.events = SubSeq(@, 1, tx.marks[2]), !.marks = << >>]

RolledBack(tx) ==
  [tx EXCEPT !.writes = SubSeq(@, 1, tx.marks[1]),
             !.events = SubSeq(@, 1, tx.marks[2]),
             !.calls = SubSeq(@, 1, tx.marks[3]),
             !.marks = << >>]

RollbackToSavepoint(w) ==
  /\ txn[w].marks # << >>
  /\ txn' = [txn EXCEPT ![w] = RolledBack(@)]
  /\ spent' = [spent EXCEPT !.rollbacks = @ + 1]
  /\ UNCHANGED <<log, rows, lock, calls, loop, snapshot, view, resultDue, overtaken>>

(* Callbacks run before a thread's commit.                                 *)
Mutant_LockDuringCallbacks(w) == IF w = Loop THEN NoWriter ELSE w

(* Who holds the lock while the callbacks of w run: nobody, they run after *)
(* the commit.                                                             *)
LockDuringCallbacks(w) == NoWriter

(* The active transaction is not cleared when it ends.                     *)
Mutant_TxnAfter(w) == txn[w]

(* The writer's thread-local transaction is cleared when it ends.          *)
TxnAfter(w) == NoTxn

(* The nodes that w speaks of while a thread has yet to hand over what it   *)
(* committed about them before.                                            *)
Overtakes(w) ==
  {n \in Nodes : /\ Mentions(txn[w].events, n)
                 /\ \E t \in Threads : Mentions(calls[t], n)}

(* The loop's own callbacks run before anything else the loop does; those  *)
(* of a thread wait for the loop, one by one.                              *)
Commit(w) ==
  /\ lock = w
  /\ txn[w].open
  /\ txn[w].marks = << >>
  /\ log' = log \o txn[w].events
  /\ rows' = [o \in DOMAIN rows |->
                IF Mentions(txn[w].writes, o)
                THEN RowOf(o, LastStatus(txn[w].writes, o)) ELSE rows[o]]
  /\ lock' = LockDuringCallbacks(w)
  /\ txn' = [txn EXCEPT ![w] = TxnAfter(w)]
  /\ overtaken' = overtaken \cup Overtakes(w)
  /\ resultDue' = (resultDue \/ \E e \in Ids(txn[w].writes) : e.obj = FinalAnswer)
  /\ IF w = Loop
     THEN /\ view' = ApplyEvents(view, txn[w].calls)
          /\ loop' = "idle"
          /\ UNCHANGED calls
     ELSE /\ calls' = [calls EXCEPT ![w] = txn[w].calls]
          /\ UNCHANGED <<view, loop>>
  /\ UNCHANGED <<snapshot, spent>>

Rollback(w) ==
  /\ lock = w
  /\ txn[w].open
  /\ txn[w].writes # << >>
  /\ spent.rollbacks < MaxRollbacks
  /\ lock' = NoWriter
  /\ txn' = [txn EXCEPT ![w] = TxnAfter(w)]
  /\ loop' = IF w = Loop THEN "idle" ELSE loop
  /\ spent' = [spent EXCEPT !.rollbacks = @ + 1]
  /\ UNCHANGED <<log, rows, calls, snapshot, view, resultDue, overtaken>>

(* call_from_thread: the loop applies one event of a waiting thread.       *)
Deliver(w) ==
  /\ loop = "idle"
  /\ calls[w] # << >>
  /\ view' = ApplyEvent(view, Head(calls[w]))
  /\ calls' = [calls EXCEPT ![w] = Tail(@)]
  /\ UNCHANGED <<log, rows, lock, txn, loop, snapshot, resultDue, spent, overtaken>>

(* _apply_run_result shows the answer that the event has shown already.    *)
ShowResult ==
  /\ loop = "idle"
  /\ resultDue
  /\ resultDue' = FALSE
  /\ view' = AddItem(view, FinalAnswer)
  /\ UNCHANGED <<log, rows, lock, txn, calls, loop, snapshot, spent, overtaken>>

-----------------------------------------------------------------------------
(* Snapshots: task rows, then events, then plan rows, each its own read.   *)

RowsOf(S) == [o \in S |-> rows[o]]

ReadTasks ==
  /\ loop \in {"idle", "starting"}
  /\ loop = "idle" => spent.snapshots < MaxSnapshots
  /\ spent' = IF loop = "idle" THEN [spent EXCEPT !.snapshots = @ + 1] ELSE spent
  /\ loop' = "reading"
  /\ snapshot' = <<RowsOf(Tasks)>>
  /\ UNCHANGED <<log, rows, lock, txn, calls, view, resultDue, overtaken>>

ReadEvents ==
  /\ loop = "reading"
  /\ Len(snapshot) = 1
  /\ snapshot' = Append(snapshot, log)
  /\ UNCHANGED <<log, rows, lock, txn, calls, loop, view, resultDue, spent, overtaken>>

ReadPlans ==
  /\ loop = "reading"
  /\ Len(snapshot) = 2
  /\ view' = ApplySnapshot(view, snapshot[1], snapshot[2], RowsOf(Nodes))
  /\ snapshot' = << >>
  /\ loop' = "idle"
  /\ overtaken' = {n \in overtaken : \E t \in Threads : Mentions(calls[t], n)}
  /\ UNCHANGED <<log, rows, lock, txn, calls, resultDue, spent>>

(* The process dies: open transactions, waiting threads and the view are   *)
(* gone.  The next process starts from a snapshot.                         *)
Crash ==
  /\ spent.crashes < MaxCrashes
  /\ spent' = [spent EXCEPT !.crashes = @ + 1]
  /\ lock' = NoWriter
  /\ txn' = [w \in Writers |-> NoTxn]
  /\ calls' = [w \in Threads |-> << >>]
  /\ loop' = "starting"
  /\ snapshot' = << >>
  /\ view' = BlankView
  /\ resultDue' = FALSE
  /\ overtaken' = {}
  /\ UNCHANGED <<log, rows>>

ViewNext ==
  \/ \E w \in Writers :
       \/ Begin(w) \/ Savepoint(w)
       \/ RollbackToSavepoint(w) \/ Commit(w) \/ Rollback(w)
       \/ \E o \in Objects : Write(w, o)
  \/ \E w \in Threads : Deliver(w)
  \/ LoopWrites \/ ShowResult \/ ReadTasks \/ ReadEvents \/ ReadPlans
  \/ Crash

(* A transaction is short and ends; the loop keeps running, and a callback *)
(* posted to it gets its turn however often the loop is busy in between.   *)
ViewFairness ==
  /\ \A w \in Writers : SF_viewVars(Commit(w)) /\ WF_viewVars(RollbackToSavepoint(w))
  /\ SF_viewVars(Begin(Loop))
  /\ \A w \in Threads : SF_viewVars(Deliver(w))
  /\ WF_viewVars(ReadTasks /\ loop = "starting")
  /\ WF_viewVars(ReadEvents) /\ WF_viewVars(ReadPlans)

ViewSpec == ViewInit /\ [][ViewNext]_viewVars /\ ViewFairness

-----------------------------------------------------------------------------
\* The values the variables take.
ViewTypeOK ==
  /\ log \in Seq(Event)
  /\ rows \in [Tasks \cup Nodes -> Statuses]
  /\ lock \in Writers \cup {NoWriter}
  /\ \A w \in Writers :
       /\ txn[w].open => lock = w
       /\ {txn[w].writes, txn[w].events, txn[w].calls} \subseteq Seq(Event)
       /\ txn[w].marks \in Seq(Nat)
  /\ calls \in [Threads -> Seq(Event)]
  /\ loop \in {"idle", "waiting", "reading", "starting"}
  /\ resultDue \in BOOLEAN
  /\ overtaken \subseteq Nodes
  /\ view.rail \in [Tasks -> Statuses] /\ view.plan \in [Nodes -> Statuses]
  /\ view.card \in 0 .. MaxEvents
  /\ view.seen \subseteq Event
  /\ spent.crashes <= MaxCrashes

(* Nothing is shown that the journal does not hold: an event of a          *)
(* transaction, or of a savepoint, that is rolled back never reaches the   *)
(* view (after_commit and the callbacks a nested rollback discards).       *)
ShownIsCommitted == view.seen \subseteq Ids(log)

Settled ==
  /\ Attached
  /\ snapshot = << >>
  /\ \A w \in Threads : calls[w] = << >>

(* Whenever no event is on its way, the view is the one the journal        *)
(* describes, whatever snapshots were taken while threads were committing, *)
(* and however often the program was restarted: each agent shows its latest *)
(* event, the card is the open question, and the transcript holds every    *)
(* event once.  A plan node shows its latest event as well, unless it was  *)
(* committed while a thread still had an older one to hand over: that one  *)
(* is then shown last, and stays until the next replay of the journal.     *)
ViewFollowsJournal ==
  Settled =>
    LET known == ApplyEvents(BlankView, log)
    IN /\ \A t \in Tasks : Mentions(log, t) => view.rail[t] = known.rail[t]
       /\ \A n \in Nodes \ overtaken : view.plan[n] = known.plan[n]
       /\ view.card = known.card
       /\ Ids(view.items) = Ids(known.items)
       /\ Len(view.items) = Cardinality(Ids(view.items))

(* The view catches up: no event that is in the journal stays unshown.  The *)
(* loop waits for the lock and a thread waits for the loop, but a thread   *)
(* has given the lock back before it waits.                                *)
EventsAreShown == []<>(Ids(log) \subseteq view.seen)
=============================================================================
