----------------------------- MODULE ChangeSets -----------------------------
(***************************************************************************)
(* Writing agents in worktrees: the WorkspaceManager that snapshots the    *)
(* canonical workspace and keeps a worktree per task, the capture of a     *)
(* change set from a worktree, the rows of the journal about it, and the   *)
(* ChangeSetIntegrator that brings it into the canonical workspace.        *)
(*                                                                         *)
(* A file is a path with a content, or Absent.  A snapshot is addressed by *)
(* its content, so it is its own identifier.  The disk (canonical files,   *)
(* snapshot, worktrees, retention records) and the journal survive a stop  *)
(* of the process; the controller's memory does not.  A person edits and   *)
(* commits in the canonical workspace at any time.                         *)
(*                                                                         *)
(* The integration of one change set runs on the event loop without an     *)
(* await: it cannot be cancelled, but a person, a command on a thread or a *)
(* crash comes between any two of its steps.                               *)
(***************************************************************************)
EXTENDS Naturals, FiniteSets, FiniteSetsExt

CONSTANTS
  Task,        \* tasks of writing profiles
  Path,        \* files, in the order in which a change set lists them
  Content, Absent,
  Written,     \* what agents write
  Scope,       \* what each task may write: allowed_write_paths
  Workspaces,  \* canonical files a run may find
  Nobody,      \* the holder of a free lease
  MaxEdits,    \* bound on what a person does to the canonical workspace
  MaxFaults    \* bound on the failures of disk, journal and Git, and on stops

ASSUME ChangeSetsAssumption ==
  /\ Path \subseteq Nat /\ Absent \notin Content /\ Written \subseteq Content
  /\ Nobody \notin Task
  /\ Scope \in [Task -> SUBSET Path]
  /\ Workspaces \subseteq [Path -> Content \cup {Absent}]

Image == Content \cup {Absent}
Files == [Path -> Image]
NoTree == [p \in {} |-> Absent]
NoRow == [status |-> "none", before |-> NoTree, after |-> NoTree, applied |-> {}]

VARIABLES
  canon, head,    \* the canonical workspace: its files, its Git HEAD
  snap,           \* the recorded snapshot: digests, copies, HEAD
  tree,           \* the worktree of each task, or NoTree
  retained,       \* tasks with a retention record
  rows,           \* change_sets and change_set_file_operations, by attempt
  stage,          \* of the process
  isolated,       \* _workspace_snapshot is not None
  todo,           \* paths the capture of the snapshot has not read yet
  phase, attempt, out,  \* of each task
  left,           \* paths the integrator of a task has not marked yet
  holder,         \* of the lease
  touched,        \* history: what others wrote since the base check of a row
  saved,          \* history: what a person wrote since the base check of a task
  edits, faults

disk == <<canon, head, snap, tree, retained, rows>>
work == <<phase, attempt, out, left, holder>>
process == <<stage, isolated, todo>>
counts == <<edits, faults>>
vars == <<disk, work, process, touched, saved, counts>>

Attempts == Task \X (1..2)
Id(t) == <<t, attempt[t]>>
Row(t) == rows[Id(t)]

Init ==
  /\ canon \in Workspaces /\ head = 0
  /\ snap = [digests |-> canon, copies |-> canon, head |-> 0]
  /\ tree = [t \in Task |-> NoTree] /\ retained = [t \in Task |-> FALSE]
  /\ rows = [a \in Attempts |-> NoRow]
  /\ stage = "idle" /\ isolated = FALSE /\ todo = {}
  /\ phase = [t \in Task |-> "idle"] /\ attempt = [t \in Task |-> 0]
  /\ out = [t \in Task |-> "none"] /\ left = [t \in Task |-> {}]
  /\ holder = Nobody
  /\ touched = [a \in Attempts |-> {}] /\ saved = [t \in Task |-> {}]
  /\ edits = 0 /\ faults = 0

\* A write of the canonical workspace; the rows whose integration began learn of
\* it, except that of the writer.
WritesCanon(p, c, writer) ==
  /\ canon' = [canon EXCEPT ![p] = c]
  /\ touched' = [a \in Attempts |->
       IF a # writer /\ rows[a].status \in {"applying", "in_doubt"}
       THEN touched[a] \cup {p} ELSE touched[a]]

NotARow == <<Nobody, 0>>

\* The phases between the check of the base and the last transition.
Integrating == {"applying", "replaced"}

Fault == faults < MaxFaults /\ faults' = faults + 1

-----------------------------------------------------------------------------
(* The snapshot of a run. *)

\* select, and the first step of capture.  A shared run takes no snapshot.
StartRun(worktree) ==
  /\ stage = "idle"
  /\ stage' = IF worktree THEN "capturing" ELSE "running"
  /\ todo' = IF worktree THEN Path ELSE {}
  /\ isolated' = FALSE
  /\ snap' = [snap EXCEPT !.head = head]
  /\ UNCHANGED <<canon, head, tree, retained, rows, work, touched, saved, counts>>

\* One file is read for its digest and copied.
CapturePath(p) ==
  /\ stage = "capturing" /\ p \in todo
  /\ snap' = [snap EXCEPT !.digests[p] = canon[p], !.copies[p] = canon[p]]
  /\ todo' = todo \ {p}
  /\ UNCHANGED <<canon, head, tree, retained, rows, stage, isolated, work, touched, saved, counts>>

\* A person saves it between the two.
CaptureTorn(p, c) ==
  /\ stage = "capturing" /\ p \in todo /\ edits < MaxEdits
  /\ canon[p] # Absent /\ c \in Content \ {canon[p]}
  /\ snap' = [snap EXCEPT !.digests[p] = canon[p], !.copies[p] = c]
  /\ WritesCanon(p, c, NotARow)
  /\ todo' = todo \ {p} /\ edits' = edits + 1
  /\ UNCHANGED <<head, tree, retained, rows, stage, isolated, work, saved, faults>>

\* The snapshot is in place, or could not be taken: the run is then shared.
CaptureEnds(ok) ==
  /\ stage = "capturing" /\ todo = {}
  /\ IF ok THEN UNCHANGED faults ELSE Fault
  /\ stage' = "running" /\ todo' = {}
  /\ isolated' = ok
  /\ UNCHANGED <<disk, work, touched, saved, edits>>

-----------------------------------------------------------------------------
(* The worktree of a task. *)

Running(t, from) == stage = "running" /\ phase[t] = from

Goes(t, from, to) == Running(t, from) /\ phase' = [phase EXCEPT ![t] = to]

\* The attempt ends with an outcome: a first failure is tried once more.
Ends(t, r) ==
  /\ out' = [out EXCEPT ![t] = "none"]
  /\ phase' = [phase EXCEPT ![t] = IF r = "failed" /\ attempt[t] = 1 THEN "idle" ELSE "done"]

Corrupt == \E p \in Path : snap.digests[p] # Absent /\ snap.copies[p] # snap.digests[p]

CanLaunch(t) ==
  /\ Running(t, "idle") /\ isolated
  /\ attempt' = [attempt EXCEPT ![t] = @ + 1]

\* _resume_retained: only with the record that says whose it is.
Resumable(t) == tree[t] # NoTree /\ retained[t]

\* materialize: a fresh worktree with the files of the snapshot, or the
\* retained one, whose record is consumed.
Materialize(t) ==
  /\ CanLaunch(t) /\ snap.head = head
  /\ \/ tree[t] = NoTree /\ ~Corrupt
        /\ tree' = [tree EXCEPT ![t] = snap.digests] /\ UNCHANGED retained
     \/ Resumable(t)
        /\ retained' = [retained EXCEPT ![t] = FALSE] /\ UNCHANGED tree
  /\ phase' = [phase EXCEPT ![t] = "working"]
  /\ UNCHANGED <<canon, head, snap, rows, process, out, left, holder, touched, saved, counts>>

\* The base moved, the snapshot is corrupt, the record is missing.
MaterializeRefused(t) ==
  /\ CanLaunch(t)
  /\ \/ snap.head # head
     \/ tree[t] = NoTree /\ Corrupt
     \/ tree[t] # NoTree /\ ~Resumable(t)
  /\ Ends(t, "blocked")
  /\ UNCHANGED <<disk, process, left, holder, touched, saved, counts>>

\* The child writes and edits files in its scope, then returns, raises or is
\* cancelled.  Nobody else sees its worktree, so its writes are one step.
ChildEnds(t, r) ==
  /\ Goes(t, "working", IF r = "succeeded" THEN "waiting" ELSE "cleanup")
  /\ out' = [out EXCEPT ![t] = r]
  /\ \E W \in SUBSET Scope[t] : \E files \in [W -> Written] :
       tree' = [tree EXCEPT ![t] = [p \in Path |-> IF p \in W THEN files[p] ELSE @[p]]]
  /\ UNCHANGED <<canon, head, snap, retained, rows, process, attempt, left, holder, touched, saved,
                 counts>>

\* The lead, the run or a person cancels it while it waits for the lease.
WaitCancelled(t) ==
  /\ Goes(t, "waiting", "cleanup")
  /\ out' = [out EXCEPT ![t] = "cancelled"]
  /\ UNCHANGED <<disk, process, attempt, left, holder, touched, saved, counts>>

\* _matches_snapshot: of tracked and untracked files.
IsSnapshot(t) == tree[t] = snap.digests

\* retain: a record for the worktree, that may be there already.
Retains(t) == retained' = [retained EXCEPT ![t] = TRUE]

\* Mutant: every worktree goes at the end of its attempt.
CleanupAlways(t) ==
  /\ Running(t, "cleanup") /\ Ends(t, out[t])
  /\ tree' = [tree EXCEPT ![t] = NoTree] /\ UNCHANGED retained
  /\ UNCHANGED <<canon, head, snap, rows, process, attempt, left, holder, touched, saved, counts>>

\* Mutant: a worktree with changes stays, without a record.
CleanupUnrecorded(t) ==
  /\ Running(t, "cleanup") /\ Ends(t, out[t])
  /\ tree' = IF IsSnapshot(t) THEN [tree EXCEPT ![t] = NoTree] ELSE tree
  /\ UNCHANGED <<canon, head, snap, retained, rows, process, attempt, left, holder, touched, saved,
                 counts>>

\* cleanup, in the finally clause: a worktree that still is the snapshot goes,
\* any other is retained.
Cleanup(t) ==
  /\ Running(t, "cleanup") /\ Ends(t, out[t])
  /\ IF IsSnapshot(t)
     THEN tree' = [tree EXCEPT ![t] = NoTree] /\ UNCHANGED retained
     ELSE Retains(t) /\ UNCHANGED tree
  /\ UNCHANGED <<canon, head, snap, rows, process, attempt, left, holder, touched, saved, counts>>

-----------------------------------------------------------------------------
(* Capture and integration, under the lease. *)

\* The lease is released, the outcome is known, the worktree is looked after.
Leaves(t, r) ==
  /\ holder' = Nobody
  /\ phase' = [phase EXCEPT ![t] = "cleanup"] /\ out' = [out EXCEPT ![t] = r]

Changed(t) == {p \in Path : tree[t][p] # snap.digests[p]}

\* validate_contract: no effect outside of the declared scope.
InScope(t) == Changed(t) \subseteq Scope[t]

\* record_changeset: before and after image of every changed path.
RecordsRow(t) ==
  rows' = [rows EXCEPT ![Id(t)] =
    [status |-> "captured", applied |-> {},
     before |-> [p \in Changed(t) |-> snap.digests[p]],
     after |-> [p \in Changed(t) |-> tree[t][p]]]]

\* Mutant: the lease covers the capture only.
CaptureUnguarded(t) ==
  /\ Goes(t, "waiting", "captured") /\ holder = Nobody
  /\ Changed(t) # {} /\ InScope(t) /\ RecordsRow(t)
  /\ UNCHANGED <<canon, head, snap, tree, retained, process, attempt, out, left, holder, touched,
                 saved, counts>>

\* capture_managed_changeset, once the lease is granted.
Capture(t) ==
  /\ Goes(t, "waiting", "captured") /\ holder = Nobody /\ holder' = t
  /\ Changed(t) # {} /\ InScope(t) /\ RecordsRow(t)
  /\ UNCHANGED <<canon, head, snap, tree, retained, process, attempt, out, left, touched, saved,
                 counts>>

\* Nothing changed, a scan that is unstable or too large, an artifact that is
\* corrupt: the worktree is retained at once.
CaptureFails(t) ==
  /\ Running(t, "waiting") /\ holder = Nobody /\ Leaves(t, "blocked")
  /\ \/ Changed(t) = {} /\ UNCHANGED faults
     \/ Fault
  /\ Retains(t)
  /\ UNCHANGED <<canon, head, snap, tree, rows, process, attempt, left, touched, saved, edits>>

MovesTo(t, status) == rows' = [rows EXCEPT ![Id(t)].status = status]

BaseMatches(t) == \A p \in DOMAIN Row(t).before : canon[p] = Row(t).before[p]

\* Mutant: the base is taken for granted.
BeginApplyUnchecked(t) ==
  /\ Goes(t, "captured", "applying") /\ MovesTo(t, "applying")
  /\ left' = [left EXCEPT ![t] = DOMAIN Row(t).before]
  /\ saved' = [saved EXCEPT ![t] = {}]
  /\ UNCHANGED <<canon, head, snap, tree, retained, process, attempt, out, holder, touched,
                 counts>>

\* Mutant: all files are marked with the intent.
MarkFilesFirst(t) ==
  /\ Goes(t, "captured", "applying") /\ BaseMatches(t)
  /\ rows' = [rows EXCEPT ![Id(t)].status = "applying", ![Id(t)].applied = DOMAIN Row(t).before]
  /\ left' = [left EXCEPT ![t] = DOMAIN Row(t).before]
  /\ saved' = [saved EXCEPT ![t] = {}]
  /\ UNCHANGED <<canon, head, snap, tree, retained, process, attempt, out, holder, touched,
                 counts>>

\* _validate_base and begin_changeset_apply: the intent is durable before the
\* first file is replaced.
BeginApply(t) ==
  /\ Goes(t, "captured", "applying") /\ BaseMatches(t) /\ MovesTo(t, "applying")
  /\ left' = [left EXCEPT ![t] = DOMAIN Row(t).before]
  /\ saved' = [saved EXCEPT ![t] = {}]
  /\ UNCHANGED <<canon, head, snap, tree, retained, process, attempt, out, holder, touched,
                 counts>>

BaseConflicts(t) ==
  /\ Running(t, "captured") /\ ~BaseMatches(t) /\ MovesTo(t, "blocked") /\ Leaves(t, "blocked")
  /\ UNCHANGED <<canon, head, snap, tree, retained, process, attempt, left, touched, saved, counts>>

\* Removing what is already gone is an OSError.
Replaceable(t, p) == Row(t).after[p] # Absent \/ canon[p] # Absent

\* One file is unlinked, or replaced by rename: never half written.
ReplaceFile(t) ==
  /\ Goes(t, "applying", "replaced") /\ left[t] # {}
  /\ LET p == Min(left[t]) IN Replaceable(t, p) /\ WritesCanon(p, Row(t).after[p], Id(t))
  /\ UNCHANGED <<head, snap, tree, retained, rows, process, attempt, out, left, holder, saved,
                 counts>>

\* mark_changeset_file_applied.
MarkFile(t) ==
  /\ Goes(t, "replaced", "applying")
  /\ rows' = [rows EXCEPT ![Id(t)].applied = @ \cup {Min(left[t])}]
  /\ left' = [left EXCEPT ![t] = @ \ {Min(@)}]
  /\ UNCHANGED <<canon, head, snap, tree, retained, process, attempt, out, holder, touched, saved,
                 counts>>

AfterMatches(t) == \A p \in DOMAIN Row(t).after : canon[p] = Row(t).after[p]

\* _validate_after, and the last transition.
Integrated(t) ==
  /\ Goes(t, "applying", "integrated") /\ left[t] = {} /\ AfterMatches(t)
  /\ MovesTo(t, "integrated") /\ holder' = Nobody
  /\ UNCHANGED <<canon, head, snap, tree, retained, process, attempt, out, left, touched, saved,
                 counts>>

\* The artifact of an image is corrupt, or the disk refuses it.
ImageUnwritable(t) == left[t] # {} /\ Fault

\* Mutant: the lease is kept for the recovery of what is in doubt.
InDoubtKeepsLease(t) ==
  /\ Running(t, "applying") /\ left[t] # {} /\ MovesTo(t, "in_doubt") /\ Fault
  /\ phase' = [phase EXCEPT ![t] = "cleanup"] /\ out' = [out EXCEPT ![t] = "blocked"]
  /\ UNCHANGED <<canon, head, snap, tree, retained, process, attempt, left, holder, touched, saved,
                 edits>>

\* A file that cannot be written or removed, or is not what was written.
InDoubt(t) ==
  /\ Running(t, "applying") /\ MovesTo(t, "in_doubt") /\ Leaves(t, "blocked")
  /\ \/ left[t] = {} /\ ~AfterMatches(t) /\ UNCHANGED faults
     \/ left[t] # {} /\ ~Replaceable(t, Min(left[t])) /\ UNCHANGED faults
     \/ ImageUnwritable(t)
  /\ UNCHANGED <<canon, head, snap, tree, retained, process, attempt, left, touched, saved, edits>>

\* The journal refuses a write of the integrator: nothing catches that, and the
\* row keeps the status it had.  The exception fails the attempt.
JournalFails(t) ==
  /\ stage = "running"
  /\ \/ phase[t] \in {"captured", "applying", "replaced"}
     \/ phase[t] = "waiting" /\ holder = Nobody
  /\ Leaves(t, "failed") /\ Fault
  /\ UNCHANGED <<disk, process, attempt, left, touched, saved, edits>>

\* cleanup_integrated: Git removes the worktree and its branch, or cannot; the
\* exception then goes through the finally clause and fails the attempt.
CleanupIntegrated(t) ==
  /\ Running(t, "integrated") /\ Ends(t, "succeeded")
  /\ tree' = [tree EXCEPT ![t] = NoTree]
  /\ UNCHANGED <<canon, head, snap, retained, rows, process, attempt, left, holder, touched, saved,
                 counts>>

CleanupIntegratedFails(t) ==
  /\ Goes(t, "integrated", "cleanup")
  /\ out' = [out EXCEPT ![t] = "failed"] /\ Fault
  /\ UNCHANGED <<disk, process, attempt, left, holder, touched, saved, edits>>

-----------------------------------------------------------------------------
(* Other writers of the canonical workspace. *)

\* What commands, the lead and children of a shared run write counts towards
\* the bound of edits.
Writes(p, c) ==
  /\ stage = "running" /\ holder = Nobody
  /\ edits < MaxEdits /\ edits' = edits + 1 /\ c # canon[p]
  /\ WritesCanon(p, c, NotARow)

\* A plan tool that writes: an approved command, under the lease.
CommandRuns(p, c) ==
  /\ Writes(p, c)
  /\ UNCHANGED <<head, snap, tree, retained, rows, work, process, saved, faults>>

\* A child of a shared run holds the lease for its whole attempt and works on
\* the canonical files; it writes one file at most.
SharedRuns(t, p, c, r) ==
  /\ Running(t, "idle") /\ ~isolated /\ holder = Nobody
  /\ attempt' = [attempt EXCEPT ![t] = @ + 1]
  /\ phase' = [phase EXCEPT ![t] = IF r = "failed" /\ attempt[t] = 0 THEN "idle" ELSE "done"]
  /\ \/ p \in Scope[t] /\ Writes(p, c)
     \/ UNCHANGED <<canon, touched, edits>>
  /\ UNCHANGED <<head, snap, tree, retained, rows, out, left, holder, process, saved, faults>>

\* isolate_lead_writes: the lead has its own writing tools only without a
\* snapshot.
LeadWrites(p, c) ==
  /\ ~isolated /\ Writes(p, c)
  /\ UNCHANGED <<head, snap, tree, retained, rows, work, process, saved, faults>>

\* A person edits a file, or commits what there is.
UserEdits(p, c) ==
  /\ edits < MaxEdits /\ edits' = edits + 1 /\ c # canon[p]
  /\ WritesCanon(p, c, NotARow)
  /\ saved' = [t \in Task |-> IF phase[t] \in Integrating THEN saved[t] \cup {p} ELSE saved[t]]
  /\ UNCHANGED <<head, snap, tree, retained, rows, work, process, faults>>

UserCommits ==
  /\ edits < MaxEdits /\ edits' = edits + 1 /\ head' = head + 1
  /\ UNCHANGED <<canon, snap, tree, retained, rows, work, process, touched, saved, faults>>

-----------------------------------------------------------------------------
\* The process dies, or is quit while a question is open.  What is in flight is
\* interrupted by the recovery of the next start.
Stop ==
  /\ stage \in {"capturing", "running"} /\ Fault
  /\ stage' = "down" /\ isolated' = FALSE /\ todo' = {}
  /\ phase' = [t \in Task |-> IF phase[t] = "idle" /\ attempt[t] = 0 THEN "idle" ELSE "done"]
  /\ left' = [t \in Task |-> {}] /\ holder' = Nobody
  /\ UNCHANGED <<disk, attempt, out, touched, saved, edits>>

\* The run is resumed in a new controller: with the mode that its constructor
\* gives it, not the one the run was started with.
Resume ==
  /\ stage = "down" /\ stage' = "running"
  /\ UNCHANGED <<disk, work, isolated, todo, touched, saved, counts>>

\* Or it is left, and a new instruction starts a new run.
LeaveRun ==
  /\ stage = "down" /\ stage' = "idle"
  /\ UNCHANGED <<disk, work, isolated, todo, touched, saved, counts>>

-----------------------------------------------------------------------------
\* The steps of a finished child: what the executor does by itself.
TaskStep(t) ==
  \/ Capture(t) \/ CaptureFails(t) \/ BeginApply(t) \/ BaseConflicts(t)
  \/ ReplaceFile(t) \/ MarkFile(t) \/ Integrated(t) \/ InDoubt(t) \/ JournalFails(t)
  \/ CleanupIntegrated(t) \/ CleanupIntegratedFails(t) \/ Cleanup(t)

\* The steps of an attempt that something else decides on.
ChildStep(t) ==
  \/ Materialize(t) \/ MaterializeRefused(t) \/ WaitCancelled(t)
  \/ \E r \in {"succeeded", "failed", "cancelled"} :
       ChildEnds(t, r) \/ \E p \in Path, c \in Written : SharedRuns(t, p, c, r)

OutsideStep ==
  \/ \E w \in BOOLEAN : StartRun(w) \/ CaptureEnds(w)
  \/ \E p \in Path : CapturePath(p)
  \/ \E p \in Path, c \in Image :
       CaptureTorn(p, c) \/ CommandRuns(p, c) \/ LeadWrites(p, c) \/ UserEdits(p, c)
  \/ UserCommits \/ Stop \/ Resume \/ LeaveRun

Next == OutsideStep \/ \E t \in Task : TaskStep(t) \/ ChildStep(t)

\* An attempt whose child is done goes on by itself, and the lease, whenever it
\* is free, is granted to each waiter in turn.  Nobody has to cancel anything.
Fairness ==
  \A t \in Task : WF_vars(TaskStep(t)) /\ SF_vars(Capture(t) \/ CaptureFails(t))

Spec == Init /\ [][Next]_vars /\ Fairness

-----------------------------------------------------------------------------
Row_ == {"none", "captured", "applying", "in_doubt", "integrated", "blocked"}
Phases == {"idle", "working", "waiting", "captured", "applying", "replaced",
           "integrated", "cleanup", "done"}

\* The values the variables take.
TypeOK ==
  /\ canon \in Files /\ snap.digests \in Files /\ snap.copies \in Files
  /\ \A t \in Task : tree[t] \in Files \cup {NoTree}
  /\ \A a \in Attempts :
       /\ rows[a].status \in Row_ /\ DOMAIN rows[a].before = DOMAIN rows[a].after
       /\ rows[a].applied \subseteq DOMAIN rows[a].before /\ touched[a] \subseteq Path
  /\ \A t \in Task : saved[t] \subseteq Path
  /\ stage \in {"idle", "capturing", "running", "down"} /\ todo \subseteq Path
  /\ \A t \in Task : phase[t] \in Phases /\ attempt[t] \in 0..2 /\ left[t] \subseteq Path
  /\ holder \in Task \cup {Nobody}

\* "The serialized integration owner checks stale inputs" (FEATURES.md:497):
\* from the check of the base until a change set has reached a file, that file
\* stays what its task started from: no other task, no command, no shared child
\* and no lead gets to write in between, whose result would be lost.  Only a
\* person, whom no lease stops, can.
AppliesToItsBase ==
  \A t \in Task : phase[t] = "applying" =>
    \A p \in left[t] \ saved[t] : canon[p] = Row(t).before[p]

\* The rows tell after a crash or an error how far an integration came: what is
\* marked was replaced, what is not was left alone, with one file in question
\* at most, as far as nobody else wrote there.
InDoubtIsLocated ==
  \A a \in Attempts : rows[a].status \in {"applying", "in_doubt"} =>
    LET Own == DOMAIN rows[a].after \ touched[a] IN
    /\ \A p \in Own \cap rows[a].applied : canon[p] = rows[a].after[p]
    /\ Cardinality({p \in Own \ rows[a].applied : canon[p] # rows[a].before[p]}) <= 1

\* No work of an agent is thrown away: a worktree is removed only when it
\* holds nothing, or when all it holds was integrated.  And "the stronger model
\* continues from the existing workspace state" (FEATURES.md:551): between the
\* attempts of an isolated task the work of the first is in its worktree, and
\* recorded, so that the second is let in.
UnintegratedWorkKept ==
  /\ [][\A t \in Task : (tree[t] # NoTree /\ tree'[t] = NoTree) =>
          tree[t] = snap.digests \/ Row(t).status = "integrated"]_vars
  /\ [](\A t \in Task :
          (isolated /\ phase[t] = "idle" /\ attempt[t] = 1 /\ tree[t] # NoTree) => retained[t])

\* A child that is done gets its verdict, without being cancelled: whoever holds
\* the lease gives it back, on every way out of an integration.
IntegrationEnds ==
  \A t \in Task : (phase[t] = "waiting") ~> (phase[t] \in {"idle", "done"})

=============================================================================
