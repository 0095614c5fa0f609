--------------------------- MODULE ChangeSetsProofs ---------------------------
(***************************************************************************)
(* No result of an agent is written over what it has not seen, an          *)
(* integration that was cut off can be located, and no work is thrown      *)
(* away: proofs about ChangeSets, for any tasks, files, contents and       *)
(* scopes, any edits in between and any number of failures and stops.      *)
(***************************************************************************)
EXTENDS ChangeSets, WellFoundedInduction, FiniteSetTheorems, TLAPS

-----------------------------------------------------------------------------
(* The inductive invariant. *)

\* The files of a change set: some paths, each with an image.
Partial == UNION {[S -> Image] : S \in SUBSET Path}

Rows == [status : Row_, before : Partial, after : Partial, applied : SUBSET Path]

Typed ==
  /\ canon \in Files /\ head \in Nat
  /\ snap \in [digests : Files, copies : Files, head : Nat]
  /\ tree \in [Task -> Files \cup {NoTree}] /\ retained \in [Task -> BOOLEAN]
  /\ rows \in [Attempts -> Rows] /\ touched \in [Attempts -> SUBSET Path]
  /\ stage \in {"idle", "capturing", "running", "down"}
  /\ isolated \in BOOLEAN /\ todo \subseteq Path
  /\ phase \in [Task -> Phases] /\ attempt \in [Task -> 0..2]
  /\ left \in [Task -> SUBSET Path] /\ saved \in [Task -> SUBSET Path]
  /\ holder \in Task \cup {Nobody}

\* An image before for every image after, and no file marked but these.
RowsFit ==
  \A a \in Attempts :
    DOMAIN rows[a].before = DOMAIN rows[a].after /\ rows[a].applied \subseteq DOMAIN rows[a].before

\* A task that is at work is at its first or second attempt.
Counted ==
  \A t \in Task :
    /\ phase[t] \notin {"idle", "done"} => attempt[t] \in 1..2
    /\ phase[t] = "idle" => attempt[t] \in 0..1

\* Only a running controller has tasks at work, or to try once more.
AtRest ==
  stage # "running" =>
    \A t \in Task : phase[t] = "done" \/ (phase[t] = "idle" /\ attempt[t] = 0)

HasTree == \A t \in Task : phase[t] \in {"working", "waiting"} => tree[t] \in Files

\* The row of a task that is at work says where its integration is.
Follows(t) ==
  /\ phase[t] = "captured" => Row(t).status = "captured" /\ Row(t).applied = {}
  /\ phase[t] = "integrated" => Row(t).status = "integrated"
  /\ phase[t] \in Integrating =>
       /\ Row(t).status = "applying" /\ left[t] \subseteq DOMAIN Row(t).before
       /\ Row(t).applied = DOMAIN Row(t).before \ left[t]
  /\ phase[t] = "replaced" => left[t] # {}

RowFollows == \A t \in Task : Follows(t)

\* What is not replaced yet is as the task found it.  Between the replacement
\* of a file and its mark, that file alone is ahead of the row.
Ahead(t) ==
  /\ phase[t] = "applying" =>
       \A p \in left[t] \ touched[Id(t)] : canon[p] = Row(t).before[p]
  /\ phase[t] = "replaced" =>
       \A p \in left[t] \ touched[Id(t)] :
         canon[p] = IF p = Min(left[t]) THEN Row(t).after[p] ELSE Row(t).before[p]

FilesFollow == \A t \in Task : Ahead(t)

Open(a) == rows[a].status \in {"applying", "in_doubt"}

\* Replaced, and not marked.
Stray(a) ==
  {p \in (DOMAIN rows[a].after \ touched[a]) \ rows[a].applied : canon[p] # rows[a].before[p]}

\* What is marked and nobody else wrote since is as the task left it; of the
\* rest, one file at most is not as the task found it.
Stands(a) ==
  /\ \A p \in rows[a].applied \ touched[a] : canon[p] = rows[a].after[p]
  /\ \A p, q \in Stray(a) : p = q

RowsStand == \A a \in Attempts : Open(a) => Stands(a)

\* The second attempt finds a record for the worktree of the first.
WorkRecorded ==
  \A t \in Task :
    (isolated /\ phase[t] = "idle" /\ attempt[t] = 1 /\ tree[t] # NoTree) => retained[t]

IInv ==
  /\ Typed /\ RowsFit /\ Counted /\ AtRest /\ HasTree /\ WorkRecorded
  /\ RowFollows /\ FilesFollow /\ RowsStand

-----------------------------------------------------------------------------
(* Operators. *)

\* Any nonempty set of numbers has a least one: the file that is next.
LEMMA SmallestIn ==
  ASSUME NEW S, S \subseteq Nat, S # {}
  PROVE  Min(S) \in S /\ \A q \in S : Min(S) <= q
<1>1. PICK p \in S : \A q \in S : <<q, p>> \notin OpToRel(<, Nat)
  BY WFMin, NatLessThanWellFounded, Zenon
<1>2. \A q \in S : ~ (q < p)
  BY <1>1, Zenon DEF OpToRel
<1>3. \E r \in S : \A q \in S : r =< q
  BY <1>2
<1> QED BY <1>3, Zenon DEF Min

\* The images of a change set are files of the workspace.
LEMMA PartialFiles ==
  /\ \A f \in Partial : DOMAIN f \subseteq Path /\ \A p \in DOMAIN f : f[p] \in Image
  /\ \A S \in SUBSET Path : [S -> Image] \subseteq Partial
<1>1. ASSUME NEW f \in Partial
      PROVE  DOMAIN f \subseteq Path /\ \A p \in DOMAIN f : f[p] \in Image
  <2>1. PICK S \in SUBSET Path : f \in [S -> Image]
    BY Zenon DEF Partial
  <2> QED BY <2>1
<1>2. \A S \in SUBSET Path : [S -> Image] \subseteq Partial
  BY Zenon DEF Partial
<1> QED BY <1>1, <1>2

\* The row of a task at work is one of the journal.
LEMMA OwnRow ==
  ASSUME Typed, Counted, NEW t \in Task, phase[t] \notin {"idle", "done"}
  PROVE  /\ Id(t) \in Attempts /\ Row(t) \in Rows
         /\ DOMAIN Row(t).before \subseteq Path /\ DOMAIN Row(t).after \subseteq Path
         /\ \A p \in DOMAIN Row(t).after : Row(t).after[p] \in Image
<1>1. Id(t) \in Attempts
  BY DEF Counted, Id, Attempts
<1>2. Row(t) \in Rows
  BY <1>1 DEF Typed, Row
<1>3. Row(t).before \in Partial /\ Row(t).after \in Partial
  BY <1>2 DEF Rows
<1> QED BY <1>1, <1>2, <1>3, PartialFiles

\* The rows of two tasks are never the same.
LEMMA OthersRow ==
  ASSUME NEW t \in Task, NEW u \in Task, u # t
  PROVE  Id(u) # Id(t)
BY DEF Id


-----------------------------------------------------------------------------
(* Types. *)

\* What others write is of the type of the files.
LEMMA WriteTyped ==
  ASSUME Typed, NEW p \in Path, NEW c \in Image, NEW w, WritesCanon(p, c, w)
  PROVE  canon' \in Files /\ touched' \in [Attempts -> SUBSET Path]
BY DEF Typed, WritesCanon, Files

LEMMA OutsideTyped ==
  ASSUME Typed, OutsideStep
  PROVE  Typed'
<1> USE DEF Typed
<1>1. ASSUME NEW w \in BOOLEAN, StartRun(w) PROVE Typed'
  BY <1>1 DEF StartRun, work, counts, Files
<1>2. ASSUME NEW w \in BOOLEAN, CaptureEnds(w) PROVE Typed'
  BY <1>2 DEF CaptureEnds, disk, work
<1>3. ASSUME NEW p \in Path, CapturePath(p) PROVE Typed'
  BY <1>3 DEF CapturePath, work, counts, Files
<1>4. ASSUME NEW p \in Path, NEW c \in Image, CaptureTorn(p, c) PROVE Typed'
  <2>1. canon' \in Files /\ touched' \in [Attempts -> SUBSET Path]
    BY <1>4, WriteTyped DEF CaptureTorn
  <2> QED BY <1>4, <2>1 DEF CaptureTorn, work, Files, Image
<1>5. ASSUME NEW p \in Path, NEW c \in Image, CommandRuns(p, c) \/ LeadWrites(p, c) \/ UserEdits(p, c)
      PROVE  Typed'
  <2>1. canon' \in Files /\ touched' \in [Attempts -> SUBSET Path]
    BY <1>5, WriteTyped DEF CommandRuns, LeadWrites, UserEdits, Writes
  <2>2. saved' \in [Task -> SUBSET Path]
    BY <1>5 DEF CommandRuns, LeadWrites, UserEdits
  <2> QED BY <1>5, <2>1, <2>2 DEF CommandRuns, LeadWrites, UserEdits, work, process
<1>6. ASSUME UserCommits PROVE Typed'
  BY <1>6 DEF UserCommits, work, process
<1>7. ASSUME Stop PROVE Typed'
  BY <1>7 DEF Stop, disk, Phases
<1>8. ASSUME Resume \/ LeaveRun PROVE Typed'
  BY <1>8 DEF Resume, LeaveRun, disk, work
<1> QED BY <1>1, <1>2, <1>3, <1>4, <1>5, <1>6, <1>7, <1>8 DEF OutsideStep

\* The outcome of an attempt is one of two phases.
LEMMA EndsIn ==
  ASSUME Typed, NEW t \in Task, NEW r, Ends(t, r)
  PROVE  /\ phase' \in [Task -> Phases] /\ \A u \in Task \ {t} : phase'[u] = phase[u]
         /\ phase'[t] = IF r = "failed" /\ attempt[t] = 1 THEN "idle" ELSE "done"
BY DEF Ends, Typed, Phases

LEMMA ChildTyped ==
  ASSUME Typed, Counted, HasTree, NEW t \in Task, ChildStep(t)
  PROVE  Typed'
<1> USE DEF Typed
<1>1. ASSUME CanLaunch(t) PROVE attempt' \in [Task -> 0..2]
  BY <1>1 DEF CanLaunch, Running, Counted
<1>2. ASSUME Materialize(t) PROVE Typed'
  BY <1>1, <1>2 DEF Materialize, process, counts, Phases
<1>3. ASSUME MaterializeRefused(t) PROVE Typed'
  <2>1. phase' \in [Task -> Phases]
    BY <1>3, EndsIn DEF MaterializeRefused
  <2> QED BY <1>1, <1>3, <2>1 DEF MaterializeRefused, disk, process, counts
<1>4. ASSUME NEW r \in {"succeeded", "failed", "cancelled"}, ChildEnds(t, r) PROVE Typed'
  <2>1. PICK W \in SUBSET Scope[t] : \E files \in [W -> Written] :
          tree' = [tree EXCEPT ![t] = [p \in Path |-> IF p \in W THEN files[p] ELSE tree[t][p]]]
    BY <1>4 DEF ChildEnds
  <2>2. PICK files \in [W -> Written] :
          tree' = [tree EXCEPT ![t] = [p \in Path |-> IF p \in W THEN files[p] ELSE tree[t][p]]]
    BY <2>1
  <2>3. tree[t] \in Files /\ Written \subseteq Image
    BY <1>4, ChangeSetsAssumption DEF ChildEnds, Goes, Running, HasTree, Image
  <2>4. [p \in Path |-> IF p \in W THEN files[p] ELSE tree[t][p]] \in Files
    BY <2>3 DEF Files
  <2>5. tree' \in [Task -> Files \cup {NoTree}]
    BY <2>2, <2>4
  <2> QED BY <1>4, <2>5 DEF ChildEnds, Goes, process, counts, Phases
<1>5. ASSUME NEW r \in {"succeeded", "failed", "cancelled"}, NEW p \in Path, NEW c \in Written,
             SharedRuns(t, p, c, r)
      PROVE  Typed'
  <2>1. canon' \in Files /\ touched' \in [Attempts -> SUBSET Path]
    BY <1>5, WriteTyped, ChangeSetsAssumption DEF SharedRuns, Writes, Image
  <2>2. attempt' \in [Task -> 0..2]
    BY <1>5 DEF SharedRuns, Running, Counted
  <2> QED BY <1>5, <2>1, <2>2 DEF SharedRuns, process, Phases
<1>6. ASSUME WaitCancelled(t) PROVE Typed'
  BY <1>6 DEF WaitCancelled, Goes, disk, process, counts, Phases
<1> QED BY <1>2, <1>3, <1>4, <1>5, <1>6 DEF ChildStep


\* A step of the integration changes one row at most.
LEMMA RowWritten ==
  ASSUME Typed, RowsFit, NEW a \in Attempts, NEW r \in Rows,
         DOMAIN r.before = DOMAIN r.after, r.applied \subseteq DOMAIN r.before,
         rows' = [rows EXCEPT ![a] = r]
  PROVE  rows' \in [Attempts -> Rows] /\ RowsFit' /\ rows'[a] = r
BY DEF Typed, RowsFit

LEMMA StatusWritten ==
  ASSUME Typed, RowsFit, Counted, NEW t \in Task, phase[t] \notin {"idle", "done"},
         NEW status \in Row_, MovesTo(t, status)
  PROVE  /\ rows' \in [Attempts -> Rows] /\ RowsFit'
         /\ rows' = [rows EXCEPT ![Id(t)] = [Row(t) EXCEPT !.status = status]]
<1>1. Id(t) \in Attempts /\ Row(t) \in Rows
  BY OwnRow
<1>2. rows' = [rows EXCEPT ![Id(t)] = [Row(t) EXCEPT !.status = status]]
  BY <1>1 DEF MovesTo, Row
<1>3. [Row(t) EXCEPT !.status = status] \in Rows
  BY <1>1 DEF Rows
<1>4. DOMAIN Row(t).before = DOMAIN Row(t).after /\ Row(t).applied \subseteq DOMAIN Row(t).before
  BY <1>1 DEF RowsFit, Row
<1> QED BY <1>1, <1>2, <1>3, <1>4, RowWritten DEF Rows

\* The row of a capture: the changed files, as they were and as they are.
LEMMA CaptureWritten ==
  ASSUME Typed, RowsFit, Counted, HasTree, NEW t \in Task, phase[t] = "waiting", RecordsRow(t)
  PROVE  /\ rows' \in [Attempts -> Rows] /\ RowsFit'
         /\ rows'[Id(t)].status = "captured" /\ rows'[Id(t)].applied = {}
         /\ \A a \in Attempts \ {Id(t)} : rows'[a] = rows[a]
<1> DEFINE r == [status |-> "captured", applied |-> {},
                 before |-> [p \in Changed(t) |-> snap.digests[p]],
                 after |-> [p \in Changed(t) |-> tree[t][p]]]
<1>1. Id(t) \in Attempts
  BY OwnRow
<1>2. Changed(t) \in SUBSET Path
  BY DEF Changed
<1>3. tree[t] \in Files /\ snap.digests \in Files
  BY DEF HasTree, Typed
<1>4. r.before \in [Changed(t) -> Image] /\ r.after \in [Changed(t) -> Image]
  BY <1>2, <1>3 DEF Files
<1>5. r.before \in Partial /\ r.after \in Partial
  BY <1>2, <1>4, PartialFiles, Zenon
<1>6. r \in Rows
  BY <1>5 DEF Rows, Row_
<1>7. rows' = [rows EXCEPT ![Id(t)] = r]
  BY DEF RecordsRow
<1>8. DOMAIN r.before = DOMAIN r.after /\ r.applied \subseteq DOMAIN r.before
  OBVIOUS
<1> HIDE DEF r
<1>9. rows' \in [Attempts -> Rows] /\ RowsFit' /\ rows'[Id(t)] = r
  BY <1>1, <1>6, <1>7, <1>8, RowWritten
<1> QED BY <1>7, <1>9 DEF r, Typed


\* The mark of the file that was replaced.
LEMMA MarkWritten ==
  ASSUME Typed, RowsFit, Counted, RowFollows, NEW t \in Task, MarkFile(t)
  PROVE  /\ rows' \in [Attempts -> Rows] /\ RowsFit'
         /\ rows' = [rows EXCEPT ![Id(t)] = [Row(t) EXCEPT !.applied = @ \cup {Min(left[t])}]]
         /\ left' = [left EXCEPT ![t] = @ \ {Min(left[t])}]
         /\ Min(left[t]) \in left[t] /\ left[t] \subseteq DOMAIN Row(t).before
<1>1. phase[t] = "replaced"
  BY DEF MarkFile, Goes, Running
<1>2. Id(t) \in Attempts /\ Row(t) \in Rows /\ DOMAIN Row(t).before \subseteq Path
  BY <1>1, OwnRow
<1>3. left[t] # {} /\ left[t] \subseteq DOMAIN Row(t).before
  BY <1>1 DEF RowFollows, Follows, Integrating
<1>4. Min(left[t]) \in left[t]
  BY <1>2, <1>3, SmallestIn, ChangeSetsAssumption
<1> DEFINE r == [Row(t) EXCEPT !.applied = @ \cup {Min(left[t])}]
<1>5. rows' = [rows EXCEPT ![Id(t)] = r]
  BY <1>2 DEF MarkFile, Row
<1>6. r \in Rows
  BY <1>2, <1>3, <1>4 DEF Rows
<1>7. DOMAIN r.before = DOMAIN r.after /\ r.applied \subseteq DOMAIN r.before
  BY <1>2, <1>3, <1>4 DEF RowsFit, Row, Rows
<1> HIDE DEF r
<1>8. rows' \in [Attempts -> Rows] /\ RowsFit'
  BY <1>2, <1>5, <1>6, <1>7, RowWritten
<1>9. left' = [left EXCEPT ![t] = @ \ {Min(left[t])}]
  BY DEF MarkFile
<1> QED BY <1>3, <1>4, <1>5, <1>8, <1>9 DEF r

\* The file that is replaced, and what it becomes.
LEMMA ReplaceWrites ==
  ASSUME Typed, RowsFit, Counted, RowFollows, NEW t \in Task, ReplaceFile(t)
  PROVE  /\ Min(left[t]) \in left[t] /\ left[t] \subseteq DOMAIN Row(t).after
         /\ Min(left[t]) \in Path /\ Row(t).after[Min(left[t])] \in Image
         /\ WritesCanon(Min(left[t]), Row(t).after[Min(left[t])], Id(t))
<1>1. phase[t] = "applying" /\ left[t] # {}
  BY DEF ReplaceFile, Goes, Running
<1>2. Id(t) \in Attempts /\ DOMAIN Row(t).after \subseteq Path
      /\ \A p \in DOMAIN Row(t).after : Row(t).after[p] \in Image
  BY <1>1, OwnRow
<1>3. left[t] \subseteq DOMAIN Row(t).after
  BY <1>1, <1>2 DEF RowFollows, Follows, Integrating, RowsFit, Row
<1>4. Min(left[t]) \in left[t]
  BY <1>1, <1>2, <1>3, SmallestIn, ChangeSetsAssumption
<1> QED BY <1>2, <1>3, <1>4 DEF ReplaceFile

LEMMA TaskTyped ==
  ASSUME Typed, RowsFit, Counted, HasTree, RowFollows, NEW t \in Task, TaskStep(t)
  PROVE  Typed' /\ RowsFit'
<1> USE DEF Typed
<1>1. ASSUME Capture(t) PROVE Typed' /\ RowsFit'
  <2>1. phase[t] = "waiting" /\ RecordsRow(t)
    BY <1>1 DEF Capture, Goes, Running
  <2> QED BY <1>1, <2>1, CaptureWritten DEF Capture, Goes, process, counts, Phases
<1>2. ASSUME CaptureFails(t) \/ JournalFails(t) PROVE Typed' /\ RowsFit'
  BY <1>2 DEF CaptureFails, JournalFails, Leaves, Retains, disk, process, RowsFit, Phases
<1>3. ASSUME BeginApply(t) PROVE Typed' /\ RowsFit'
  <2>1. phase[t] = "captured" /\ MovesTo(t, "applying")
    BY <1>3 DEF BeginApply, Goes, Running
  <2>2. rows' \in [Attempts -> Rows] /\ RowsFit'
    BY <2>1, StatusWritten DEF Row_
  <2>3. DOMAIN Row(t).before \subseteq Path
    BY <2>1, OwnRow
  <2> QED BY <1>3, <2>2, <2>3 DEF BeginApply, Goes, process, counts, Phases
<1>4. ASSUME BaseConflicts(t) PROVE Typed' /\ RowsFit'
  <2>1. phase[t] = "captured" /\ MovesTo(t, "blocked")
    BY <1>4 DEF BaseConflicts, Running
  <2>2. rows' \in [Attempts -> Rows] /\ RowsFit'
    BY <2>1, StatusWritten DEF Row_
  <2> QED BY <1>4, <2>2 DEF BaseConflicts, Leaves, process, counts, Phases
<1>5. ASSUME ReplaceFile(t) PROVE Typed' /\ RowsFit'
  <2>1. canon' \in Files /\ touched' \in [Attempts -> SUBSET Path]
    BY <1>5, ReplaceWrites, WriteTyped
  <2> QED BY <1>5, <2>1 DEF ReplaceFile, Goes, process, counts, RowsFit, Phases
<1>6. ASSUME MarkFile(t) PROVE Typed' /\ RowsFit'
  <2>1. rows' \in [Attempts -> Rows] /\ RowsFit' /\ left' \in [Task -> SUBSET Path]
    BY <1>6, MarkWritten
  <2> QED BY <1>6, <2>1 DEF MarkFile, Goes, process, counts, Phases
<1>7. ASSUME Integrated(t) PROVE Typed' /\ RowsFit'
  <2>1. phase[t] = "applying" /\ MovesTo(t, "integrated")
    BY <1>7 DEF Integrated, Goes, Running
  <2>2. rows' \in [Attempts -> Rows] /\ RowsFit'
    BY <2>1, StatusWritten DEF Row_
  <2> QED BY <1>7, <2>2 DEF Integrated, Goes, process, counts, Phases
<1>8. ASSUME InDoubt(t) PROVE Typed' /\ RowsFit'
  <2>1. phase[t] = "applying" /\ MovesTo(t, "in_doubt")
    BY <1>8 DEF InDoubt, Running
  <2>2. rows' \in [Attempts -> Rows] /\ RowsFit'
    BY <2>1, StatusWritten DEF Row_
  <2> QED BY <1>8, <2>2 DEF InDoubt, Leaves, process, Phases
<1>9. ASSUME CleanupIntegrated(t) \/ Cleanup(t) PROVE Typed' /\ RowsFit'
  <2>1. phase' \in [Task -> Phases]
    BY <1>9, EndsIn DEF CleanupIntegrated, Cleanup
  <2> QED BY <1>9, <2>1 DEF CleanupIntegrated, Cleanup, Retains, process, counts, RowsFit
<1>10. ASSUME CleanupIntegratedFails(t) PROVE Typed' /\ RowsFit'
  BY <1>10 DEF CleanupIntegratedFails, Goes, disk, process, counts, RowsFit, Phases
<1> QED BY <1>1, <1>2, <1>3, <1>4, <1>5, <1>6, <1>7, <1>8, <1>9, <1>10 DEF TaskStep


-----------------------------------------------------------------------------
(* Attempts, and the worktree between them. *)

Life == Counted /\ AtRest /\ HasTree /\ WorkRecorded

LEMMA OutsideLife ==
  ASSUME Typed, Life, OutsideStep
  PROVE  Life'
<1> USE DEF Typed, Life, Counted, AtRest, HasTree, WorkRecorded, Files
<1>1. ASSUME NEW w \in BOOLEAN, StartRun(w) PROVE Life'
  BY <1>1 DEF StartRun, work
<1>2. ASSUME NEW w \in BOOLEAN, CaptureEnds(w) PROVE Life'
  BY <1>2 DEF CaptureEnds, disk, work
<1>3. ASSUME NEW p \in Path, CapturePath(p) PROVE Life'
  BY <1>3 DEF CapturePath, work
<1>4. ASSUME NEW p \in Path, NEW c \in Image, CaptureTorn(p, c) PROVE Life'
  BY <1>4 DEF CaptureTorn, work
<1>5. ASSUME NEW p \in Path, NEW c \in Image, CommandRuns(p, c) \/ LeadWrites(p, c) \/ UserEdits(p, c)
      PROVE  Life'
  BY <1>5 DEF CommandRuns, LeadWrites, UserEdits, work, process
<1>6. ASSUME UserCommits PROVE Life'
  BY <1>6 DEF UserCommits, work, process
<1>7. ASSUME Stop PROVE Life'
  BY <1>7 DEF Stop, disk
<1>8. ASSUME Resume \/ LeaveRun PROVE Life'
  BY <1>8 DEF Resume, LeaveRun, disk, work
<1> QED BY <1>1, <1>2, <1>3, <1>4, <1>5, <1>6, <1>7, <1>8 DEF OutsideStep

LEMMA ChildLife ==
  ASSUME Typed, Life, NEW t \in Task, ChildStep(t)
  PROVE  Life'
<1> USE DEF Life, Counted, AtRest, HasTree, WorkRecorded
<1>1. ASSUME Materialize(t) PROVE Life'
  <2>1. /\ stage = "running" /\ attempt[t] \in 0..1 /\ UNCHANGED <<stage, isolated>>
        /\ attempt' = [attempt EXCEPT ![t] = @ + 1] /\ phase' = [phase EXCEPT ![t] = "working"]
    BY <1>1 DEF Materialize, CanLaunch, Running, process
  <2>2. tree'[t] \in Files
    BY <1>1 DEF Materialize, Resumable, Typed
  <2>3. \A u \in Task \ {t} : tree'[u] = tree[u] /\ retained'[u] = retained[u]
    BY <1>1 DEF Materialize, Typed
  <2> QED BY <2>1, <2>2, <2>3 DEF Typed
<1>2. ASSUME MaterializeRefused(t) PROVE Life'
  <2>1. /\ phase' \in [Task -> Phases] /\ \A u \in Task \ {t} : phase'[u] = phase[u]
        /\ phase'[t] = "done"
    BY <1>2, EndsIn DEF MaterializeRefused
  <2> QED BY <1>2, <2>1 DEF MaterializeRefused, CanLaunch, Running, disk, process, Typed
<1>3. ASSUME NEW r \in {"succeeded", "failed", "cancelled"}, ChildEnds(t, r) PROVE Life'
  <2>1. PICK W \in SUBSET Scope[t] : \E files \in [W -> Written] :
          tree' = [tree EXCEPT ![t] = [p \in Path |-> IF p \in W THEN files[p] ELSE tree[t][p]]]
    BY <1>3 DEF ChildEnds
  <2>2. PICK files \in [W -> Written] :
          tree' = [tree EXCEPT ![t] = [p \in Path |-> IF p \in W THEN files[p] ELSE tree[t][p]]]
    BY <2>1
  <2>3. tree[t] \in Files /\ Written \subseteq Image
    BY <1>3, ChangeSetsAssumption DEF ChildEnds, Goes, Running, Image
  <2>4. tree'[t] \in Files
    BY <2>2, <2>3 DEF Files, Typed
  <2>5. \A u \in Task \ {t} : tree'[u] = tree[u]
    BY <2>2 DEF Typed
  <2> QED BY <1>3, <2>4, <2>5 DEF ChildEnds, Goes, Running, process, Typed
<1>4. ASSUME NEW r \in {"succeeded", "failed", "cancelled"}, NEW p \in Path, NEW c \in Written,
             SharedRuns(t, p, c, r)
      PROVE  Life'
  BY <1>4 DEF SharedRuns, Running, process, Typed
<1>5. ASSUME WaitCancelled(t) PROVE Life'
  BY <1>5 DEF WaitCancelled, Goes, Running, process, disk, Typed
<1> QED BY <1>1, <1>2, <1>3, <1>4, <1>5 DEF ChildStep

\* A step of a task at work that goes on, or that ends the attempt and sees to
\* the worktree.
LEMMA TaskLife ==
  ASSUME Typed, Life, NEW t \in Task, TaskStep(t)
  PROVE  Life'
<1> USE DEF Life, Counted, AtRest, HasTree, WorkRecorded
<1>1. ASSUME Cleanup(t) PROVE Life'
  <2>1. /\ phase' \in [Task -> Phases] /\ \A u \in Task \ {t} : phase'[u] = phase[u]
        /\ phase'[t] = IF out[t] = "failed" /\ attempt[t] = 1 THEN "idle" ELSE "done"
    BY <1>1, EndsIn DEF Cleanup
  <2>2. \A u \in Task \ {t} : tree'[u] = tree[u] /\ retained'[u] = retained[u]
    BY <1>1 DEF Cleanup, Retains, Typed
  <2>3. tree'[t] = NoTree \/ retained'[t]
    BY <1>1 DEF Cleanup, Retains, Typed
  <2>4. stage = "running" /\ UNCHANGED <<stage, isolated, attempt>>
    BY <1>1 DEF Cleanup, Running, process
  <2> QED BY <2>1, <2>2, <2>3, <2>4
<1>2. ASSUME CleanupIntegrated(t) PROVE Life'
  <2>1. /\ phase' \in [Task -> Phases] /\ \A u \in Task \ {t} : phase'[u] = phase[u]
        /\ phase'[t] = "done"
    BY <1>2, EndsIn DEF CleanupIntegrated
  <2> QED BY <1>2, <2>1 DEF CleanupIntegrated, Running, process, Typed
<1>3. ASSUME Capture(t) \/ BeginApply(t) \/ ReplaceFile(t) \/ MarkFile(t) \/ Integrated(t)
             \/ CleanupIntegratedFails(t)
      PROVE  Life'
  <2>1. /\ stage = "running" /\ phase[t] \notin {"idle", "done"}
        /\ UNCHANGED <<tree, retained, stage, isolated, attempt>>
        /\ phase' \in {[phase EXCEPT ![t] = to] : to \in Phases \ {"idle", "done", "working", "waiting"}}
    BY <1>3 DEF Capture, BeginApply, ReplaceFile, MarkFile, Integrated, CleanupIntegratedFails,
                Goes, Running, process, disk, Phases
  <2> QED BY <2>1 DEF Typed
<1>4. ASSUME CaptureFails(t) \/ BaseConflicts(t) \/ InDoubt(t) \/ JournalFails(t) PROVE Life'
  <2>1. /\ stage = "running" /\ phase[t] \notin {"idle", "done"}
        /\ UNCHANGED <<tree, stage, isolated, attempt>>
        /\ retained' \in {retained, [retained EXCEPT ![t] = TRUE]}
        /\ phase' = [phase EXCEPT ![t] = "cleanup"]
    BY <1>4 DEF CaptureFails, BaseConflicts, InDoubt, JournalFails, Leaves, Retains, Running,
                process, disk
  <2> QED BY <2>1 DEF Typed
<1> QED BY <1>1, <1>2, <1>3, <1>4 DEF TaskStep


-----------------------------------------------------------------------------
(* The integration. *)

AtWork == {"captured", "integrated"} \cup Integrating

\* For the row of an attempt, all that a step wrote it has been told.
Told(a) ==
  touched[a] \subseteq touched'[a] /\ \A p \in Path \ touched'[a] : canon'[p] = canon[p]

\* A row that a step leaves alone, and whose files it touched openly, if at
\* all, stands as before.
LEMMA RowLeftAlone ==
  ASSUME Typed, RowsFit, RowsStand, NEW a \in Attempts,
         rows'[a] = rows[a], Open(a) => Told(a)
  PROVE  Open(a)' => Stands(a)'
<1> SUFFICES ASSUME Open(a)' PROVE Stands(a)'
  OBVIOUS
<1>1. Open(a) /\ Stands(a) /\ Told(a)
  BY DEF Open, RowsStand
<1>2. DOMAIN rows[a].after \subseteq Path /\ rows[a].applied \subseteq Path
  BY PartialFiles DEF Typed, Rows
<1>3. \A p \in rows[a].applied \ touched'[a] : canon'[p] = rows[a].after[p]
  BY <1>1, <1>2 DEF Stands, Told
<1>4. Stray(a)' \subseteq Stray(a)
  BY <1>1, <1>2 DEF Stray, Told
<1> QED BY <1>1, <1>3, <1>4 DEF Stands

\* So does the integration of a task that a step leaves alone.
LEMMA TaskLeftAlone ==
  ASSUME Typed, Counted, RowFollows, FilesFollow, NEW t \in Task,
         phase'[t] \in AtWork =>
           /\ UNCHANGED <<phase[t], attempt[t], left[t]>>
           /\ rows'[Id(t)] = rows[Id(t)] /\ (Open(Id(t)) => Told(Id(t)))
  PROVE  Follows(t)' /\ Ahead(t)'
<1>1. CASE phase'[t] \notin AtWork
  BY <1>1 DEF Follows, Ahead, AtWork, Integrating
<1>2. CASE phase'[t] \in AtWork
  <2>1. /\ UNCHANGED <<phase[t], attempt[t], left[t], Id(t), Row(t)>>
        /\ Open(Id(t)) => Told(Id(t))
    BY <1>2 DEF Id, Row
  <2>2. Follows(t)'
    BY <2>1 DEF RowFollows, Follows
  <2>3. CASE phase[t] \in Integrating
    <3>1. Told(Id(t))
      BY <2>1, <2>3 DEF RowFollows, Follows, Open, Row
    <3>2. left[t] \subseteq Path
      BY DEF Typed
    <3>3. touched[Id(t)] \subseteq touched'[Id(t)] /\ touched[Id(t)]' = touched'[Id(t)]
      BY <2>1, <3>1 DEF Told, Id
    <3>4. \A p \in left[t] \ touched'[Id(t)] : canon'[p] = canon[p] /\ p \notin touched[Id(t)]
      BY <3>1, <3>2, <3>3 DEF Told
    <3> QED BY <2>1, <2>2, <3>3, <3>4 DEF FilesFollow, Ahead
  <2>4. CASE phase[t] \notin Integrating
    BY <2>1, <2>2, <2>4 DEF Ahead, Integrating
  <2> QED BY <2>3, <2>4
<1> QED BY <1>1, <1>2


\* A write tells every open row but that of its writer.
LEMMA WriteTold ==
  ASSUME Typed, NEW p \in Path, NEW c \in Image, NEW w, WritesCanon(p, c, w),
         NEW a \in Attempts, a # w, Open(a)
  PROVE  Told(a)
BY DEF WritesCanon, Told, Open, Typed, Files

\* No step of the integration: no row changes, no task comes to it, and the
\* files are left alone or written by somebody else.
OthersWrite == \E p \in Path, c \in Image : WritesCanon(p, c, NotARow)

Aside ==
  /\ rows' = rows
  /\ UNCHANGED <<canon, touched>> \/ OthersWrite
  /\ \A t \in Task : phase'[t] \in AtWork => UNCHANGED <<phase[t], attempt[t], left[t]>>

LEMMA AsideKeeps ==
  ASSUME IInv, Aside
  PROVE  RowFollows' /\ FilesFollow' /\ RowsStand'
<1>1. ASSUME NEW a \in Attempts, Open(a) PROVE Told(a)
  <2>1. CASE UNCHANGED <<canon, touched>>
    BY <2>1 DEF Told
  <2>2. CASE OthersWrite
    <3>1. a # NotARow
      BY DEF Attempts, NotARow
    <3> QED BY <1>1, <2>2, <3>1, WriteTold DEF OthersWrite, IInv
  <2> QED BY <2>1, <2>2 DEF Aside
<1>2. \A a \in Attempts : Open(a)' => Stands(a)'
  BY <1>1, RowLeftAlone DEF IInv, Aside
<1>3. ASSUME NEW t \in Task PROVE Follows(t)' /\ Ahead(t)'
  <2>1. phase'[t] \in AtWork => Id(t) \in Attempts
    BY OwnRow DEF Aside, AtWork, Integrating, IInv
  <2> QED BY <1>1, <2>1, TaskLeftAlone DEF IInv, Aside
<1> QED BY <1>2, <1>3 DEF RowFollows, FilesFollow, RowsStand

LEMMA OutsideAside ==
  ASSUME IInv, OutsideStep
  PROVE  Aside
<1> USE DEF Aside, AtWork, Integrating
<1>1. ASSUME NEW w \in BOOLEAN, StartRun(w) \/ CaptureEnds(w) PROVE Aside
  BY <1>1 DEF StartRun, CaptureEnds, disk, work
<1>2. ASSUME NEW p \in Path, CapturePath(p) PROVE Aside
  BY <1>2 DEF CapturePath, work
<1>3. ASSUME NEW p \in Path, NEW c \in Image,
             CaptureTorn(p, c) \/ CommandRuns(p, c) \/ LeadWrites(p, c) \/ UserEdits(p, c)
      PROVE  Aside
  <2>1. WritesCanon(p, c, NotARow) /\ UNCHANGED <<rows, work>>
    BY <1>3 DEF CaptureTorn, CommandRuns, LeadWrites, UserEdits, Writes
  <2> QED BY <2>1 DEF OthersWrite, work
<1>4. ASSUME UserCommits \/ Stop \/ Resume \/ LeaveRun PROVE Aside
  BY <1>4 DEF UserCommits, Stop, Resume, LeaveRun, disk, work
<1> QED BY <1>1, <1>2, <1>3, <1>4 DEF OutsideStep

LEMMA ChildAside ==
  ASSUME IInv, NEW t \in Task, ChildStep(t)
  PROVE  Aside
<1> USE DEF Aside, AtWork, Integrating
<1>1. ASSUME Materialize(t) PROVE Aside
  BY <1>1 DEF Materialize, CanLaunch, IInv, Typed
<1>2. ASSUME MaterializeRefused(t) PROVE Aside
  <2>1. (\A u \in Task \ {t} : phase'[u] = phase[u]) /\ phase'[t] = "done"
    BY <1>2, EndsIn DEF MaterializeRefused, IInv
  <2> QED BY <1>2, <2>1 DEF MaterializeRefused, CanLaunch, disk, IInv, Typed
<1>3. ASSUME NEW r \in {"succeeded", "failed", "cancelled"}, ChildEnds(t, r) PROVE Aside
  BY <1>3 DEF ChildEnds, Goes, IInv, Typed
<1>4. ASSUME NEW r \in {"succeeded", "failed", "cancelled"}, NEW p \in Path, NEW c \in Written,
             SharedRuns(t, p, c, r)
      PROVE  Aside
  <2>1. UNCHANGED <<canon, touched>> \/ OthersWrite
    BY <1>4, ChangeSetsAssumption DEF SharedRuns, Writes, OthersWrite, Image
  <2> QED BY <1>4, <2>1 DEF SharedRuns, IInv, Typed
<1>5. ASSUME WaitCancelled(t) PROVE Aside
  BY <1>5 DEF WaitCancelled, Goes, disk, IInv, Typed
<1> QED BY <1>1, <1>2, <1>3, <1>4, <1>5 DEF ChildStep


\* The steps of a task that leave its row and the files alone.
Withdraws(t) ==
  \/ CaptureFails(t) \/ JournalFails(t) \/ Cleanup(t) \/ CleanupIntegrated(t)
  \/ CleanupIntegratedFails(t)

LEMMA WithdrawAside ==
  ASSUME IInv, NEW t \in Task, Withdraws(t)
  PROVE  Aside
<1> USE DEF Aside, AtWork, Integrating
<1>1. ASSUME CaptureFails(t) \/ JournalFails(t) PROVE Aside
  BY <1>1 DEF CaptureFails, JournalFails, Leaves, disk, IInv, Typed
<1>2. ASSUME Cleanup(t) \/ CleanupIntegrated(t) PROVE Aside
  <2>1. (\A u \in Task \ {t} : phase'[u] = phase[u]) /\ phase'[t] \in {"idle", "done"}
    BY <1>2, EndsIn DEF Cleanup, CleanupIntegrated, IInv
  <2>2. UNCHANGED <<rows, canon, touched, attempt, left>>
    BY <1>2 DEF Cleanup, CleanupIntegrated
  <2> QED BY <2>1, <2>2
<1>3. ASSUME CleanupIntegratedFails(t) PROVE Aside
  BY <1>3 DEF CleanupIntegratedFails, Goes, disk, IInv, Typed
<1> QED BY <1>1, <1>2, <1>3 DEF Withdraws

\* Only the row of its own attempt, and only its own phase and list.
Own(t) ==
  /\ \A a \in Attempts \ {Id(t)} : rows'[a] = rows[a]
  /\ \A u \in Task \ {t} : UNCHANGED <<phase[u], left[u]>>
  /\ UNCHANGED attempt

\* A step of a task that keeps to its own row leaves every other row and task
\* as they were, whatever it writes.
LEMMA OthersKept ==
  ASSUME IInv, NEW t \in Task, Own(t),
         \A a \in Attempts \ {Id(t)} : Open(a) => Told(a),
         Follows(t)' /\ Ahead(t)', Open(Id(t))' => Stands(Id(t))'
  PROVE  RowFollows' /\ FilesFollow' /\ RowsStand'
<1>1. Id(t)' = Id(t)
  BY DEF Own, Id
<1>2. ASSUME NEW a \in Attempts PROVE Open(a)' => Stands(a)'
  <2>1. CASE a = Id(t)
    BY <1>1, <2>1 DEF Open, Stands, Stray
  <2>2. CASE a # Id(t)
    BY <2>2, RowLeftAlone DEF IInv, Own
  <2> QED BY <2>1, <2>2
<1>3. ASSUME NEW u \in Task, u # t PROVE Follows(u)' /\ Ahead(u)'
  <2>1. UNCHANGED <<phase[u], attempt[u], left[u]>>
    BY <1>3 DEF Own
  <2>2. ASSUME phase'[u] \in AtWork PROVE Id(u) \in Attempts /\ Id(u) # Id(t)
    BY <1>3, <2>1, <2>2, OwnRow, OthersRow DEF AtWork, Integrating, IInv
  <2>3. phase'[u] \in AtWork => rows'[Id(u)] = rows[Id(u)] /\ (Open(Id(u)) => Told(Id(u)))
    BY <2>2 DEF Own
  <2> QED BY <2>1, <2>3, TaskLeftAlone DEF IInv
<1> QED BY <1>2, <1>3 DEF RowFollows, FilesFollow, RowsStand

\* The row of a step that changes its status only.
LEMMA StatusStep ==
  ASSUME IInv, NEW t \in Task, phase[t] \notin {"idle", "done"},
         NEW status \in Row_, MovesTo(t, status), attempt' = attempt
  PROVE  /\ Id(t)' = Id(t) /\ Row(t)' = [Row(t) EXCEPT !.status = status]
         /\ \A a \in Attempts \ {Id(t)} : rows'[a] = rows[a]
         /\ Row(t) \in Rows /\ Id(t) \in Attempts
         /\ DOMAIN Row(t).before = DOMAIN Row(t).after
<1>1. rows' = [rows EXCEPT ![Id(t)] = [Row(t) EXCEPT !.status = status]]
  BY StatusWritten DEF IInv
<1>2. Id(t) \in Attempts /\ Row(t) \in Rows
  BY OwnRow DEF IInv
<1>3. Id(t)' = Id(t)
  BY DEF Id
<1>4. rows \in [Attempts -> Rows]
  BY DEF IInv, Typed
<1>5. DOMAIN Row(t).before = DOMAIN Row(t).after
  BY <1>2 DEF IInv, RowsFit, Row
<1> QED BY <1>1, <1>2, <1>3, <1>4, <1>5 DEF Row

\* Nothing is written: no row has anything to be told.
LEMMA Silent ==
  ASSUME UNCHANGED <<canon, touched>>
  PROVE  \A a \in Attempts : Told(a)
BY DEF Told

LEMMA CaptureKeeps ==
  ASSUME IInv, NEW t \in Task, Capture(t)
  PROVE  RowFollows' /\ FilesFollow' /\ RowsStand'
<1>1. phase[t] = "waiting" /\ RecordsRow(t) /\ UNCHANGED <<canon, touched, attempt, left>>
      /\ phase' = [phase EXCEPT ![t] = "captured"]
  BY DEF Capture, Goes, Running
<1>2. /\ rows'[Id(t)].status = "captured" /\ rows'[Id(t)].applied = {}
      /\ \A a \in Attempts \ {Id(t)} : rows'[a] = rows[a]
  BY <1>1, CaptureWritten DEF IInv
<1>3. Own(t) /\ Id(t)' = Id(t)
  BY <1>1, <1>2 DEF Own, Id, IInv, Typed
<1>4. phase'[t] = "captured"
  BY <1>1 DEF IInv, Typed
<1>5. Follows(t)' /\ Ahead(t)' /\ ~ Open(Id(t))'
  BY <1>2, <1>3, <1>4 DEF Follows, Ahead, Open, Row, Integrating
<1> QED BY <1>1, <1>3, <1>5, OthersKept, Silent

\* The base was checked in the same step: every file is as the task found it.
LEMMA BeginKeeps ==
  ASSUME IInv, NEW t \in Task, BeginApply(t)
  PROVE  RowFollows' /\ FilesFollow' /\ RowsStand'
<1>1. /\ phase[t] = "captured" /\ BaseMatches(t) /\ MovesTo(t, "applying")
      /\ UNCHANGED <<canon, touched, attempt>>
      /\ phase' = [phase EXCEPT ![t] = "applying"]
      /\ left' = [left EXCEPT ![t] = DOMAIN Row(t).before]
  BY DEF BeginApply, Goes, Running
<1>2. /\ Id(t)' = Id(t) /\ Row(t)' = [Row(t) EXCEPT !.status = "applying"]
      /\ \A a \in Attempts \ {Id(t)} : rows'[a] = rows[a]
      /\ Row(t) \in Rows /\ DOMAIN Row(t).before = DOMAIN Row(t).after
  BY <1>1, StatusStep DEF Row_
<1>3. /\ Row(t)'.status = "applying" /\ Row(t)'.before = Row(t).before
      /\ Row(t)'.after = Row(t).after /\ Row(t)'.applied = Row(t).applied
  BY <1>2 DEF Rows
<1>4. phase'[t] = "applying" /\ left'[t] = DOMAIN Row(t).before /\ Own(t)
  BY <1>1, <1>2 DEF IInv, Typed, Own
<1>5. Row(t).applied = {}
  BY <1>1 DEF IInv, RowFollows, Follows
<1>6. Follows(t)'
  BY <1>3, <1>4, <1>5 DEF Follows
<1>7. Ahead(t)'
  BY <1>1, <1>2, <1>3, <1>4 DEF Ahead, BaseMatches
<1>8. Stands(Id(t))'
  BY <1>1, <1>2, <1>3, <1>5 DEF Stands, Stray, BaseMatches, Row
<1> QED BY <1>1, <1>4, <1>6, <1>7, <1>8, OthersKept, Silent

\* The attempt ends with its row, whether all is integrated or not.
LEMMA ConflictKeeps ==
  ASSUME IInv, NEW t \in Task, BaseConflicts(t)
  PROVE  RowFollows' /\ FilesFollow' /\ RowsStand'
<1>1. /\ phase[t] = "captured" /\ MovesTo(t, "blocked")
      /\ UNCHANGED <<canon, touched, attempt, left>>
      /\ phase' = [phase EXCEPT ![t] = "cleanup"]
  BY DEF BaseConflicts, Leaves, Running
<1>2. /\ Id(t)' = Id(t) /\ Row(t)' = [Row(t) EXCEPT !.status = "blocked"]
      /\ \A a \in Attempts \ {Id(t)} : rows'[a] = rows[a]
      /\ Row(t) \in Rows
  BY <1>1, StatusStep DEF Row_
<1>3. phase'[t] = "cleanup" /\ Own(t)
  BY <1>1, <1>2 DEF IInv, Typed, Own
<1>4. Follows(t)' /\ Ahead(t)' /\ ~ Open(Id(t))'
  BY <1>2, <1>3 DEF Follows, Ahead, Open, Row, Rows, Integrating
<1> QED BY <1>1, <1>3, <1>4, OthersKept, Silent

LEMMA IntegratedKeeps ==
  ASSUME IInv, NEW t \in Task, Integrated(t)
  PROVE  RowFollows' /\ FilesFollow' /\ RowsStand'
<1>1. /\ phase[t] = "applying" /\ MovesTo(t, "integrated")
      /\ UNCHANGED <<canon, touched, attempt, left>>
      /\ phase' = [phase EXCEPT ![t] = "integrated"]
  BY DEF Integrated, Goes, Running
<1>2. /\ Id(t)' = Id(t) /\ Row(t)' = [Row(t) EXCEPT !.status = "integrated"]
      /\ \A a \in Attempts \ {Id(t)} : rows'[a] = rows[a]
      /\ Row(t) \in Rows
  BY <1>1, StatusStep DEF Row_
<1>3. phase'[t] = "integrated" /\ Own(t)
  BY <1>1, <1>2 DEF IInv, Typed, Own
<1>4. Row(t)'.status = "integrated"
  BY <1>2 DEF Rows
<1>5. Follows(t)' /\ Ahead(t)' /\ ~ Open(Id(t))'
  BY <1>2, <1>3, <1>4 DEF Follows, Ahead, Open, Row, Integrating
<1> QED BY <1>1, <1>3, <1>5, OthersKept, Silent


\* What is in doubt is where the integration left it.
LEMMA InDoubtKeeps ==
  ASSUME IInv, NEW t \in Task, InDoubt(t)
  PROVE  RowFollows' /\ FilesFollow' /\ RowsStand'
<1>1. /\ phase[t] = "applying" /\ MovesTo(t, "in_doubt")
      /\ UNCHANGED <<canon, touched, attempt, left>>
      /\ phase' = [phase EXCEPT ![t] = "cleanup"]
  BY DEF InDoubt, Leaves, Running
<1>2. /\ Id(t)' = Id(t) /\ Row(t)' = [Row(t) EXCEPT !.status = "in_doubt"]
      /\ \A a \in Attempts \ {Id(t)} : rows'[a] = rows[a]
      /\ Row(t) \in Rows /\ Id(t) \in Attempts
  BY <1>1, StatusStep DEF Row_
<1>3. /\ Row(t)'.before = Row(t).before
      /\ Row(t)'.after = Row(t).after /\ Row(t)'.applied = Row(t).applied
  BY <1>2 DEF Rows
<1>4. phase'[t] = "cleanup" /\ Own(t)
  BY <1>1, <1>2 DEF IInv, Typed, Own
<1>5. Follows(t)' /\ Ahead(t)'
  BY <1>4 DEF Follows, Ahead, Integrating
<1>6. Stands(Id(t))
  BY <1>1, <1>2 DEF IInv, RowFollows, Follows, RowsStand, Open, Row, Integrating
<1>7. Stands(Id(t))'
  BY <1>1, <1>2, <1>3, <1>6 DEF Stands, Stray, Row
<1> QED BY <1>1, <1>4, <1>5, <1>7, OthersKept, Silent

\* Of the files that are left, the first alone is replaced, by the row that
\* has it next.
LEMMA ReplaceKeeps ==
  ASSUME IInv, NEW t \in Task, ReplaceFile(t)
  PROVE  RowFollows' /\ FilesFollow' /\ RowsStand'
<1> DEFINE f == Min(left[t])
<1>1. /\ phase[t] = "applying" /\ left[t] # {} /\ UNCHANGED <<rows, attempt, left>>
      /\ phase' = [phase EXCEPT ![t] = "replaced"]
  BY DEF ReplaceFile, Goes, Running
<1>2. /\ f \in left[t] /\ left[t] \subseteq DOMAIN Row(t).after /\ f \in Path
      /\ Row(t).after[f] \in Image /\ WritesCanon(f, Row(t).after[f], Id(t))
  BY ReplaceWrites DEF IInv
<1>3. /\ Id(t) \in Attempts /\ Id(t)' = Id(t) /\ Row(t)' = Row(t)
      /\ DOMAIN Row(t).after \subseteq Path /\ DOMAIN Row(t).before = DOMAIN Row(t).after
  BY <1>1, OwnRow DEF IInv, RowsFit, Id, Row
<1>4. phase'[t] = "replaced" /\ Own(t)
  BY <1>1 DEF IInv, Typed, Own
<1>5. /\ Row(t).status = "applying" /\ left[t] \subseteq DOMAIN Row(t).before
      /\ Row(t).applied = DOMAIN Row(t).before \ left[t]
  BY <1>1 DEF IInv, RowFollows, Follows, Integrating
<1>6. \A p \in left[t] \ touched[Id(t)] : canon[p] = Row(t).before[p]
  BY <1>1 DEF IInv, FilesFollow, Ahead
<1> HIDE DEF f
<1>7. /\ touched'[Id(t)] = touched[Id(t)] /\ canon'[f] = Row(t).after[f]
      /\ \A p \in Path \ {f} : canon'[p] = canon[p]
  BY <1>2, <1>3 DEF WritesCanon, IInv, Typed, Files
<1>8. Follows(t)'
  BY <1>1, <1>3, <1>4, <1>5 DEF Follows
<1>9. \A p \in left[t] \ touched[Id(t)] :
        canon'[p] = IF p = f THEN Row(t).after[p] ELSE Row(t).before[p]
  BY <1>2, <1>3, <1>6, <1>7
<1>10. Ahead(t)'
  BY <1>1, <1>3, <1>4, <1>7, <1>9 DEF Ahead, f
<1>11. Stands(Id(t))
  BY <1>3, <1>5 DEF IInv, RowsStand, Open, Row
<1>12. Stands(Id(t))'
  <2>1. \A p \in Row(t).applied \ touched[Id(t)] : canon'[p] = Row(t).after[p]
    BY <1>2, <1>3, <1>5, <1>7, <1>11 DEF Stands, Row
  <2>2. Stray(Id(t))' \subseteq {f}
    BY <1>1, <1>3, <1>5, <1>7, <1>9 DEF Stray, Row
  <2> QED BY <1>1, <1>3, <1>7, <2>1, <2>2 DEF Stands, Row
<1>13. \A a \in Attempts \ {Id(t)} : Open(a) => Told(a)
  BY <1>2, WriteTold DEF IInv
<1> QED BY <1>4, <1>8, <1>10, <1>12, <1>13, OthersKept

LEMMA MarkKeeps ==
  ASSUME IInv, NEW t \in Task, MarkFile(t)
  PROVE  RowFollows' /\ FilesFollow' /\ RowsStand'
<1> DEFINE f == Min(left[t])
<1>1. /\ phase[t] = "replaced" /\ UNCHANGED <<canon, touched, attempt>>
      /\ phase' = [phase EXCEPT ![t] = "applying"]
  BY DEF MarkFile, Goes, Running
<1>2. /\ rows' = [rows EXCEPT ![Id(t)] = [Row(t) EXCEPT !.applied = @ \cup {f}]]
      /\ left' = [left EXCEPT ![t] = @ \ {f}]
      /\ f \in left[t] /\ left[t] \subseteq DOMAIN Row(t).before
  BY MarkWritten DEF IInv
<1>3. /\ Id(t) \in Attempts /\ Row(t) \in Rows /\ Id(t)' = Id(t)
      /\ DOMAIN Row(t).after \subseteq Path /\ DOMAIN Row(t).before = DOMAIN Row(t).after
  BY <1>1, OwnRow DEF IInv, RowsFit, Id, Row
<1>4. \A p \in left[t] \ touched[Id(t)] :
        canon[p] = IF p = f THEN Row(t).after[p] ELSE Row(t).before[p]
  BY <1>1 DEF IInv, FilesFollow, Ahead
<1>5. /\ Row(t).status = "applying" /\ Row(t).applied = DOMAIN Row(t).before \ left[t]
  BY <1>1 DEF IInv, RowFollows, Follows, Integrating
<1> HIDE DEF f
<1>6. rows \in [Attempts -> Rows]
  BY DEF IInv, Typed
<1>7. /\ Row(t)' = [Row(t) EXCEPT !.applied = @ \cup {f}]
      /\ \A a \in Attempts \ {Id(t)} : rows'[a] = rows[a]
  BY <1>2, <1>3, <1>6 DEF Row
<1>8. /\ Row(t)'.status = "applying" /\ Row(t)'.before = Row(t).before
      /\ Row(t)'.after = Row(t).after /\ Row(t)'.applied = Row(t).applied \cup {f}
  BY <1>3, <1>5, <1>7 DEF Rows
<1>9. phase'[t] = "applying" /\ left'[t] = left[t] \ {f} /\ Own(t)
  BY <1>1, <1>2, <1>7 DEF IInv, Typed, Own
<1>10. Follows(t)'
  BY <1>2, <1>5, <1>8, <1>9 DEF Follows
<1>11. Ahead(t)'
  BY <1>1, <1>3, <1>4, <1>8, <1>9 DEF Ahead
<1>12. Stands(Id(t))
  BY <1>3, <1>5 DEF IInv, RowsStand, Open, Row
<1>13. Stands(Id(t))'
  <2>1. \A p \in Row(t)'.applied \ touched[Id(t)] : canon[p] = Row(t).after[p]
    BY <1>2, <1>4, <1>8, <1>12 DEF Stands, Row
  <2>2. Stray(Id(t))' = {}
    BY <1>1, <1>3, <1>4, <1>5, <1>8 DEF Stray, Row
  <2> QED BY <1>1, <1>3, <1>8, <2>1, <2>2 DEF Stands, Row
<1> QED BY <1>1, <1>9, <1>10, <1>11, <1>13, OthersKept, Silent


-----------------------------------------------------------------------------
(* The invariant. *)

LEMMA InitIInv == Init => IInv
<1> SUFFICES ASSUME Init PROVE IInv
  OBVIOUS
<1>1. NoTree \in [{} -> Image]
  BY DEF NoTree
<1>2. NoTree \in Partial
  BY <1>1, PartialFiles
<1>3. NoRow \in Rows /\ NoRow.status = "none" /\ DOMAIN NoRow.before = DOMAIN NoRow.after
      /\ NoRow.applied = {}
  BY <1>2 DEF NoRow, Rows, Row_
<1>4. canon \in Files
  BY ChangeSetsAssumption DEF Init, Files, Image
<1>5. Typed
  <2>1. /\ rows \in [Attempts -> Rows] /\ touched \in [Attempts -> SUBSET Path]
        /\ snap \in [digests : Files, copies : Files, head : Nat] /\ head \in Nat
    BY <1>3, <1>4 DEF Init
  <2>2. /\ tree \in [Task -> Files \cup {NoTree}] /\ retained \in [Task -> BOOLEAN]
        /\ stage = "idle" /\ isolated = FALSE /\ todo = {} /\ holder = Nobody
    BY DEF Init
  <2>3. /\ phase \in [Task -> Phases] /\ attempt \in [Task -> 0..2]
        /\ left \in [Task -> SUBSET Path] /\ saved \in [Task -> SUBSET Path]
    BY DEF Init, Phases
  <2> QED BY <1>4, <2>1, <2>2, <2>3 DEF Typed
<1>6. RowsFit
  BY <1>3 DEF Init, RowsFit
<1>7. Counted /\ AtRest /\ HasTree /\ WorkRecorded
  BY DEF Init, Counted, AtRest, HasTree, WorkRecorded
<1>8. RowFollows /\ FilesFollow
  BY DEF Init, RowFollows, FilesFollow, Follows, Ahead, Integrating
<1>9. RowsStand
  BY <1>3 DEF Init, RowsStand, Open
<1> QED BY <1>5, <1>6, <1>7, <1>8, <1>9 DEF IInv

LEMMA NextIInv ==
  ASSUME IInv, Next
  PROVE  IInv'
<1>1. CASE OutsideStep
  <2>1. Typed' /\ Life'
    BY <1>1, OutsideTyped, OutsideLife DEF IInv, Life
  <2>2. Aside
    BY <1>1, OutsideAside
  <2>3. RowsFit'
    BY <2>2 DEF Aside, IInv, RowsFit
  <2> QED BY <2>1, <2>2, <2>3, AsideKeeps DEF IInv, Life
<1>2. ASSUME NEW t \in Task, ChildStep(t) PROVE IInv'
  <2>1. Typed' /\ Life'
    BY <1>2, ChildTyped, ChildLife DEF IInv, Life
  <2>2. Aside
    BY <1>2, ChildAside
  <2>3. RowsFit'
    BY <2>2 DEF Aside, IInv, RowsFit
  <2> QED BY <2>1, <2>2, <2>3, AsideKeeps DEF IInv, Life
<1>3. ASSUME NEW t \in Task, TaskStep(t) PROVE IInv'
  <2>1. Typed' /\ RowsFit' /\ Life'
    BY <1>3, TaskTyped, TaskLife DEF IInv, Life
  <2>2. RowFollows' /\ FilesFollow' /\ RowsStand'
    <3>1. CASE Withdraws(t)
      BY <3>1, WithdrawAside, AsideKeeps
    <3>2. CASE ~ Withdraws(t)
      BY <1>3, <3>2, CaptureKeeps, BeginKeeps, ConflictKeeps, ReplaceKeeps, MarkKeeps,
         IntegratedKeeps, InDoubtKeeps, Zenon DEF TaskStep, Withdraws
    <3> QED BY <3>1, <3>2
  <2> QED BY <2>1, <2>2 DEF IInv, Life
<1> QED BY <1>1, <1>2, <1>3 DEF Next

LEMMA StutterIInv ==
  ASSUME IInv, UNCHANGED vars
  PROVE  IInv'
<1>1. Typed' /\ RowsFit' /\ Counted' /\ AtRest' /\ HasTree' /\ WorkRecorded'
  BY DEF IInv, vars, disk, work, process, counts, Typed, RowsFit, Counted, AtRest, HasTree,
         WorkRecorded
<1>2. Aside
  BY DEF Aside, vars, disk, work
<1> QED BY <1>1, <1>2, AsideKeeps DEF IInv

\* The inductive invariant of worktrees, change sets and the canonical files
\* holds for any tasks and files, under any edits, failures and stops.
THEOREM ChangesInvariance == Spec => []IInv
<1>1. IInv /\ [Next]_vars => IInv'
  BY NextIInv, StutterIInv
<1> QED BY <1>1, InitIInv, PTL DEF Spec

\* Files, snapshots, worktrees and rows are of their types.
THEOREM ChangesTyped == Spec => []TypeOK
<1>1. IInv => TypeOK
  BY DEF IInv, Typed, RowsFit, TypeOK, Rows, Attempts
<1> QED BY <1>1, ChangesInvariance, PTL

LEMMA OneOrNone ==
  ASSUME NEW S, \A p, q \in S : p = q
  PROVE  Cardinality(S) <= 1
<1>1. CASE S = {}
  BY <1>1, FS_EmptySet
<1>2. CASE S # {}
  <2>1. PICK p \in S : S = {p}
    BY <1>2
  <2>2. Cardinality(S) = 1
    BY <2>1, FS_Singleton, Zenon
  <2> QED BY <2>2
<1> QED BY <1>1, <1>2

\* After a crash or an error between any two steps of an integration, the row
\* tells which files were replaced, but for one at most
\* (begin_changeset_apply, mark_changeset_file_applied).
THEOREM CutOffIsLocated == Spec => []InDoubtIsLocated
<1>1. ASSUME IInv PROVE InDoubtIsLocated
  <2>1. SUFFICES ASSUME NEW a \in Attempts, rows[a].status \in {"applying", "in_doubt"}
                 PROVE  LET Mine == DOMAIN rows[a].after \ touched[a] IN
                        /\ \A p \in Mine \cap rows[a].applied : canon[p] = rows[a].after[p]
                        /\ Cardinality({p \in Mine \ rows[a].applied :
                                          canon[p] # rows[a].before[p]}) <= 1
    BY DEF InDoubtIsLocated
  <2>2. Stands(a)
    BY <1>1, <2>1 DEF IInv, RowsStand, Open
  <2>3. Cardinality(Stray(a)) <= 1
    BY <2>2, OneOrNone DEF Stands
  <2> QED BY <2>2, <2>3 DEF Stands, Stray
<1> QED BY <1>1, ChangesInvariance, PTL


-----------------------------------------------------------------------------
(* No work is thrown away. *)

\* What may become of a worktree in a step.
WorkKept ==
  \A t \in Task : (tree[t] # NoTree /\ tree'[t] = NoTree) =>
    tree[t] = snap.digests \/ Row(t).status = "integrated"

\* A child leaves a worktree behind, even if it was given no files.
LEMMA ChildKeepsTree ==
  ASSUME IInv, NEW t \in Task, NEW r, ChildEnds(t, r)
  PROVE  WorkKept
<1>1. PICK W \in SUBSET Scope[t] : \E files \in [W -> Written] :
        tree' = [tree EXCEPT ![t] = [p \in Path |-> IF p \in W THEN files[p] ELSE tree[t][p]]]
  BY DEF ChildEnds
<1>2. PICK files \in [W -> Written] :
        tree' = [tree EXCEPT ![t] = [p \in Path |-> IF p \in W THEN files[p] ELSE tree[t][p]]]
  BY <1>1
<1>3. tree[t] \in Files /\ (\A u \in Task \ {t} : tree'[u] = tree[u])
      /\ tree'[t] = [p \in Path |-> IF p \in W THEN files[p] ELSE tree[t][p]]
  BY <1>2 DEF ChildEnds, Goes, Running, IInv, HasTree, Typed
<1>4. ASSUME tree'[t] = NoTree PROVE tree[t] = NoTree
  <2>1. DOMAIN tree'[t] = Path /\ DOMAIN NoTree = {}
    BY <1>3 DEF NoTree
  <2>2. Path = {}
    BY <1>4, <2>1
  <2> QED BY <1>3, <2>2 DEF Files, NoTree
<1> QED BY <1>3, <1>4 DEF WorkKept

LEMMA StepKeepsWork ==
  ASSUME IInv, Next
  PROVE  WorkKept
<1>1. CASE UNCHANGED tree
  BY <1>1 DEF WorkKept
<1>2. ASSUME OutsideStep PROVE UNCHANGED tree
  BY <1>2 DEF OutsideStep, StartRun, CaptureEnds, CapturePath, CaptureTorn, CommandRuns,
              LeadWrites, UserEdits, UserCommits, Stop, Resume, LeaveRun, disk
<1>3. ASSUME NEW t \in Task, ChildStep(t) PROVE WorkKept
  <2>1. CASE Materialize(t)
    BY <2>1 DEF Materialize, WorkKept, IInv, Typed
  <2>2. CASE MaterializeRefused(t)
    BY <1>1, <2>2 DEF MaterializeRefused, disk
  <2>3. CASE \E r \in {"succeeded", "failed", "cancelled"} : ChildEnds(t, r)
    BY <2>3, ChildKeepsTree
  <2>4. CASE \E r \in {"succeeded", "failed", "cancelled"}, p \in Path, c \in Written :
               SharedRuns(t, p, c, r)
    BY <1>1, <2>4 DEF SharedRuns
  <2>5. CASE WaitCancelled(t)
    BY <1>1, <2>5 DEF WaitCancelled, disk
  <2> QED BY <1>3, <2>1, <2>2, <2>3, <2>4, <2>5 DEF ChildStep
<1>4. ASSUME NEW t \in Task, TaskStep(t) PROVE WorkKept
  <2>1. CASE Cleanup(t)
    BY <2>1 DEF Cleanup, IsSnapshot, WorkKept, IInv, Typed
  <2>2. CASE CleanupIntegrated(t)
    <3>1. Row(t).status = "integrated"
      BY <2>2 DEF CleanupIntegrated, Running, IInv, RowFollows, Follows
    <3> QED BY <2>2, <3>1 DEF CleanupIntegrated, WorkKept, IInv, Typed
  <2>3. CASE \/ Capture(t) \/ CaptureFails(t) \/ BeginApply(t) \/ BaseConflicts(t)
             \/ ReplaceFile(t) \/ MarkFile(t) \/ Integrated(t) \/ InDoubt(t) \/ JournalFails(t)
             \/ CleanupIntegratedFails(t)
    BY <1>1, <2>3 DEF Capture, CaptureFails, BeginApply, BaseConflicts, ReplaceFile, MarkFile,
                      Integrated, InDoubt, JournalFails, CleanupIntegratedFails, disk
  <2> QED BY <1>4, <2>1, <2>2, <2>3 DEF TaskStep
<1> QED BY <1>1, <1>2, <1>3, <1>4 DEF Next

\* A worktree is removed only when it holds nothing of its task's or when all
\* it holds was integrated, and between two attempts the work of the first is
\* there and recorded (cleanup, cleanup_integrated, retain, _resume_retained).
THEOREM WorkIsKept == Spec => UnintegratedWorkKept
<1>1. IInv /\ [Next]_vars => [WorkKept]_vars
  BY StepKeepsWork
<1>2. IInv => \A t \in Task :
        (isolated /\ phase[t] = "idle" /\ attempt[t] = 1 /\ tree[t] # NoTree) => retained[t]
  BY DEF IInv, WorkRecorded
<1> QED BY <1>1, <1>2, ChangesInvariance, PTL DEF Spec, UnintegratedWorkKept, WorkKept


-----------------------------------------------------------------------------
(* Nobody but a person writes between the check and the last replacement. *)

\* From its capture to its last transition an integration has the lease.
Leased == \A t \in Task : phase[t] \in {"captured"} \cup Integrating => holder = t

\* What is to be replaced after the next file, and that one unless it is
\* replaced already.
Unreached(t) == IF phase[t] = "replaced" THEN left[t] \ {Min(left[t])} ELSE left[t]

\* It is as the task found it, unless a person saved it.
Guarded(t) ==
  phase[t] \in Integrating =>
    \A p \in Unreached(t) \ saved[t] : canon[p] = Row(t).before[p]

Unseen == Leased /\ \A t \in Task : Guarded(t)

\* Every step that enters these phases takes the lease, every step that gives
\* it back leaves them, and nobody takes it from its holder.
LEMMA OutsideLeased ==
  ASSUME IInv, Leased, OutsideStep
  PROVE  Leased'
<1> USE DEF Leased, Integrating
<1>1. ASSUME NEW w \in BOOLEAN, StartRun(w) \/ CaptureEnds(w) PROVE Leased'
  BY <1>1 DEF StartRun, CaptureEnds, work
<1>2. ASSUME NEW p \in Path, CapturePath(p) PROVE Leased'
  BY <1>2 DEF CapturePath, work
<1>3. ASSUME NEW p \in Path, NEW c \in Image,
             CaptureTorn(p, c) \/ CommandRuns(p, c) \/ LeadWrites(p, c) \/ UserEdits(p, c)
      PROVE  Leased'
  BY <1>3 DEF CaptureTorn, CommandRuns, LeadWrites, UserEdits, work
<1>4. ASSUME UserCommits \/ Stop \/ Resume \/ LeaveRun PROVE Leased'
  BY <1>4 DEF UserCommits, Stop, Resume, LeaveRun, work
<1> QED BY <1>1, <1>2, <1>3, <1>4 DEF OutsideStep

LEMMA ChildLeased ==
  ASSUME IInv, Leased, NEW t \in Task, ChildStep(t)
  PROVE  Leased'
<1> USE DEF Leased, Integrating
<1>1. ASSUME Materialize(t) PROVE Leased'
  BY <1>1 DEF Materialize, IInv, Typed
<1>2. ASSUME MaterializeRefused(t) PROVE Leased'
  BY <1>2, EndsIn DEF MaterializeRefused, IInv
<1>3. ASSUME NEW r \in {"succeeded", "failed", "cancelled"}, ChildEnds(t, r) PROVE Leased'
  BY <1>3 DEF ChildEnds, Goes, IInv, Typed
<1>4. ASSUME NEW r \in {"succeeded", "failed", "cancelled"}, NEW p \in Path, NEW c \in Written,
             SharedRuns(t, p, c, r)
      PROVE  Leased'
  BY <1>4 DEF SharedRuns, IInv, Typed
<1>5. ASSUME WaitCancelled(t) PROVE Leased'
  BY <1>5 DEF WaitCancelled, Goes, IInv, Typed
<1> QED BY <1>1, <1>2, <1>3, <1>4, <1>5 DEF ChildStep

LEMMA TaskLeased ==
  ASSUME IInv, Leased, NEW t \in Task, TaskStep(t)
  PROVE  Leased'
<1> USE ChangeSetsAssumption DEF Leased, Integrating
<1>1. ASSUME Capture(t) PROVE Leased'
  BY <1>1 DEF Capture, Goes, IInv, Typed
<1>2. ASSUME BeginApply(t) \/ ReplaceFile(t) \/ MarkFile(t) PROVE Leased'
  BY <1>2 DEF BeginApply, ReplaceFile, MarkFile, Goes, Running, IInv, Typed
<1>3. ASSUME BaseConflicts(t) \/ InDoubt(t) \/ Integrated(t) PROVE Leased'
  BY <1>3 DEF BaseConflicts, InDoubt, Integrated, Leaves, Goes, Running, IInv, Typed
<1>4. ASSUME CaptureFails(t) \/ JournalFails(t) PROVE Leased'
  BY <1>4 DEF CaptureFails, JournalFails, Leaves, Running, IInv, Typed
<1>5. ASSUME Cleanup(t) \/ CleanupIntegrated(t) PROVE Leased'
  BY <1>5, EndsIn DEF Cleanup, CleanupIntegrated, IInv
<1>6. ASSUME CleanupIntegratedFails(t) PROVE Leased'
  BY <1>6 DEF CleanupIntegratedFails, Goes, IInv, Typed
<1> QED BY <1>1, <1>2, <1>3, <1>4, <1>5, <1>6 DEF TaskStep

\* An integration that a step leaves alone, with files that only a person may
\* have written, and who is seen to have.
LEMMA StaysGuarded ==
  ASSUME IInv, NEW t \in Task, Guarded(t),
         phase'[t] \in Integrating =>
           /\ UNCHANGED <<phase[t], attempt[t], left[t], rows[Id(t)]>>
           /\ saved[t] \subseteq saved'[t]
           /\ \A p \in Path \ saved'[t] : canon'[p] = canon[p]
  PROVE  Guarded(t)'
<1> SUFFICES ASSUME phase'[t] \in Integrating PROVE Guarded(t)'
  BY DEF Guarded
<1>1. /\ UNCHANGED <<phase[t], left[t], Id(t), Row(t)>>
      /\ saved[t] \subseteq saved'[t] /\ \A p \in Path \ saved'[t] : canon'[p] = canon[p]
  BY DEF Id, Row
<1>2. left[t] \subseteq Path /\ Unreached(t) \subseteq left[t] /\ Unreached(t)' = Unreached(t)
  BY <1>1 DEF IInv, Typed, Unreached
<1> QED BY <1>1, <1>2 DEF Guarded

\* A write of the canonical workspace that needs the lease finds none of them.
LEMMA WriteNeedsLease ==
  ASSUME Leased, holder = Nobody
  PROVE  \A t \in Task : phase[t] \notin Integrating
BY ChangeSetsAssumption DEF Leased

LEMMA OutsideGuarded ==
  ASSUME IInv, Unseen, OutsideStep, NEW t \in Task
  PROVE  Guarded(t)'
<1>1. CASE \E p \in Path, c \in Image : CommandRuns(p, c) \/ LeadWrites(p, c)
  <2>1. holder = Nobody /\ UNCHANGED phase
    BY <1>1 DEF CommandRuns, LeadWrites, Writes, work
  <2> QED BY <2>1, WriteNeedsLease DEF Unseen, Guarded
<1>2. ASSUME NEW p \in Path, NEW c \in Image, UserEdits(p, c) PROVE Guarded(t)'
  <2>1. phase[t] \in Integrating => saved'[t] = saved[t] \cup {p}
    BY <1>2 DEF UserEdits, IInv, Typed
  <2>2. \A q \in Path \ {p} : canon'[q] = canon[q]
    BY <1>2 DEF UserEdits, WritesCanon, IInv, Typed, Files
  <2>3. UNCHANGED <<rows, phase, attempt, left>>
    BY <1>2 DEF UserEdits, work
  <2>4. UNCHANGED <<phase[t], attempt[t], left[t], rows[Id(t)]>>
    BY <2>3 DEF Id
  <2> QED BY <2>1, <2>2, <2>4, StaysGuarded DEF Unseen
<1>3. ASSUME NEW p \in Path, NEW c \in Image, CaptureTorn(p, c) PROVE Guarded(t)'
  <2>1. phase[t] \notin Integrating /\ UNCHANGED phase
    BY <1>3 DEF CaptureTorn, work, IInv, AtRest, Integrating
  <2> QED BY <2>1 DEF Guarded
<1>4. CASE Stop
  BY <1>4 DEF Stop, Guarded, Integrating
<1>5. CASE \/ \E w \in BOOLEAN : StartRun(w) \/ CaptureEnds(w)
           \/ \E p \in Path : CapturePath(p)
           \/ UserCommits \/ Resume \/ LeaveRun
  <2>1. UNCHANGED <<canon, rows, phase, attempt, left, saved>>
    BY <1>5 DEF StartRun, CaptureEnds, CapturePath, UserCommits, Resume, LeaveRun, disk, work
  <2>2. UNCHANGED <<phase[t], attempt[t], left[t], rows[Id(t)]>>
    BY <2>1 DEF Id
  <2> QED BY <2>1, <2>2, StaysGuarded DEF Unseen
<1> QED BY <1>1, <1>2, <1>3, <1>4, <1>5 DEF OutsideStep

LEMMA ChildGuarded ==
  ASSUME IInv, Unseen, NEW u \in Task, ChildStep(u), NEW t \in Task
  PROVE  Guarded(t)'
<1>1. ASSUME NEW r \in {"succeeded", "failed", "cancelled"}, NEW p \in Path, NEW c \in Written,
             SharedRuns(u, p, c, r)
      PROVE  Guarded(t)'
  <2>1. holder = Nobody /\ (phase'[t] = phase[t] \/ phase'[t] \in {"idle", "done"})
    BY <1>1 DEF SharedRuns, IInv, Typed
  <2> QED BY <2>1, WriteNeedsLease DEF Unseen, Guarded, Integrating
<1>2. CASE \/ Materialize(u) \/ MaterializeRefused(u) \/ WaitCancelled(u)
           \/ \E r \in {"succeeded", "failed", "cancelled"} : ChildEnds(u, r)
  <2>1. UNCHANGED <<canon, rows, left, saved>>
    BY <1>2 DEF Materialize, MaterializeRefused, WaitCancelled, ChildEnds, disk
  <2>2. phase'[t] \in Integrating => UNCHANGED <<phase[t], attempt[t], left[t]>>
    BY ChildAside DEF Aside, AtWork
  <2>3. phase'[t] \in Integrating => UNCHANGED rows[Id(t)]
    BY <2>1, <2>2 DEF Id
  <2> QED BY <2>1, <2>2, <2>3, StaysGuarded DEF Unseen
<1> QED BY <1>1, <1>2 DEF ChildStep

\* The check of the base, the replacement of the next file, and its mark.
LEMMA OwnGuarded ==
  ASSUME IInv, Unseen, NEW t \in Task, BeginApply(t) \/ ReplaceFile(t) \/ MarkFile(t)
  PROVE  Guarded(t)'
<1>1. CASE BeginApply(t)
  <2>1. /\ phase[t] = "captured" /\ BaseMatches(t) /\ MovesTo(t, "applying")
        /\ UNCHANGED <<canon, attempt>>
        /\ phase'[t] = "applying" /\ left'[t] = DOMAIN Row(t).before
    BY <1>1 DEF BeginApply, Goes, Running, IInv, Typed
  <2>2. Row(t)' = [Row(t) EXCEPT !.status = "applying"] /\ Row(t) \in Rows
    BY <2>1, StatusStep DEF Row_
  <2>3. Row(t)'.before = Row(t).before
    BY <2>2 DEF Rows
  <2> QED BY <2>1, <2>3 DEF Guarded, Unreached, BaseMatches
<1>2. CASE ReplaceFile(t)
  <2>1. /\ phase[t] = "applying" /\ phase'[t] = "replaced"
        /\ UNCHANGED <<rows, attempt, left, saved>>
    BY <1>2 DEF ReplaceFile, Goes, Running, IInv, Typed
  <2>2. \A p \in Path \ {Min(left[t])} : canon'[p] = canon[p]
    BY <1>2, ReplaceWrites DEF WritesCanon, IInv, Typed, Files
  <2>3. Row(t)' = Row(t) /\ left[t] \subseteq Path
    BY <2>1 DEF Row, Id, IInv, Typed
  <2>4. Unreached(t) = left[t] /\ Unreached(t)' = left[t] \ {Min(left[t])}
    BY <2>1 DEF Unreached
  <2> QED BY <2>1, <2>2, <2>3, <2>4 DEF Unseen, Guarded, Integrating
<1>3. CASE MarkFile(t)
  <2>1. /\ phase[t] = "replaced" /\ phase'[t] = "applying" /\ UNCHANGED <<canon, attempt, saved>>
    BY <1>3 DEF MarkFile, Goes, Running, IInv, Typed
  <2>2. /\ rows' = [rows EXCEPT ![Id(t)] = [Row(t) EXCEPT !.applied = @ \cup {Min(left[t])}]]
        /\ left'[t] = left[t] \ {Min(left[t])}
    BY <1>3, MarkWritten DEF IInv, Typed
  <2>3. Id(t) \in Attempts /\ Row(t) \in Rows /\ Id(t)' = Id(t)
    BY <2>1, OwnRow DEF IInv, Id
  <2>4. Row(t)'.before = Row(t).before
    BY <2>2, <2>3 DEF IInv, Typed, Row, Rows
  <2>5. Unreached(t)' = Unreached(t)
    BY <2>1, <2>2 DEF Unreached
  <2> QED BY <2>1, <2>4, <2>5 DEF Unseen, Guarded, Integrating
<1> QED BY <1>1, <1>2, <1>3

\* Another task replaces files only while it has the lease itself.
LEMMA TaskGuarded ==
  ASSUME IInv, Unseen, NEW u \in Task, TaskStep(u), NEW t \in Task
  PROVE  Guarded(t)'
<1>1. CASE Withdraws(u)
  <2>1. UNCHANGED <<canon, rows, saved>>
    BY <1>1 DEF Withdraws, CaptureFails, JournalFails, Cleanup, CleanupIntegrated,
                CleanupIntegratedFails, disk
  <2>2. phase'[t] \in Integrating => UNCHANGED <<phase[t], attempt[t], left[t]>>
    BY <1>1, WithdrawAside DEF Aside, AtWork
  <2>3. phase'[t] \in Integrating => UNCHANGED rows[Id(t)]
    BY <2>1, <2>2 DEF Id
  <2> QED BY <2>1, <2>2, <2>3, StaysGuarded DEF Unseen
<1>2. CASE t = u /\ (BeginApply(u) \/ ReplaceFile(u) \/ MarkFile(u))
  BY <1>2, OwnGuarded
<1>3. CASE Capture(u) \/ BaseConflicts(u) \/ Integrated(u) \/ InDoubt(u)
  <2>1. UNCHANGED <<canon, attempt, left, saved>>
        /\ phase' \in {[phase EXCEPT ![u] = to] : to \in {"captured", "cleanup", "integrated"}}
    BY <1>3 DEF Capture, BaseConflicts, Integrated, InDoubt, Leaves, Goes
  <2>2. phase'[t] \in Integrating => t # u /\ phase'[t] = phase[t]
    BY <2>1 DEF IInv, Typed, Integrating
  <2>3. phase'[t] \in Integrating => UNCHANGED rows[Id(t)]
    <3>1. SUFFICES ASSUME phase'[t] \in Integrating PROVE rows[Id(t)]' = rows[Id(t)]
      OBVIOUS
    <3>2. Id(t) \in Attempts /\ Id(t)' = Id(t) /\ Id(t) # Id(u)
      BY <2>1, <2>2, <3>1, OwnRow, OthersRow DEF IInv, Integrating, Id
    <3>3. rows'[Id(t)] = rows[Id(t)]
      BY <1>3, <3>2 DEF Capture, RecordsRow, BaseConflicts, Integrated, InDoubt, MovesTo, IInv, Typed
    <3> QED BY <3>2, <3>3
  <2> QED BY <2>1, <2>2, <2>3, StaysGuarded DEF Unseen
<1>4. CASE t # u /\ (BeginApply(u) \/ ReplaceFile(u) \/ MarkFile(u))
  <2>1. phase'[t] = phase[t] /\ holder = u
    BY <1>4 DEF BeginApply, ReplaceFile, MarkFile, Goes, Running, IInv, Typed, Unseen, Leased,
                Integrating
  <2>2. phase[t] \notin Integrating
    BY <1>4, <2>1 DEF Unseen, Leased
  <2> QED BY <2>1, <2>2 DEF Guarded
<1> QED BY <1>1, <1>2, <1>3, <1>4 DEF TaskStep, Withdraws

LEMMA StutterUnseen ==
  ASSUME IInv, Unseen, UNCHANGED vars
  PROVE  Unseen'
<1>1. UNCHANGED <<canon, rows, phase, attempt, left, holder, saved>>
  BY DEF vars, disk, work
<1>2. Leased'
  BY <1>1 DEF Unseen, Leased
<1>3. ASSUME NEW t \in Task PROVE Guarded(t)'
  BY <1>1, <1>3 DEF Unseen, Guarded, Unreached, Row, Id
<1> QED BY <1>2, <1>3 DEF Unseen

\* From the check of the base until a change set reaches a file, that file
\* stays what its task started from, unless a person saves it: the lease keeps
\* every other task, command, shared child and the lead out
\* (WorkspaceMutationLease, ChangeSetIntegrator.integrate).
THEOREM AppliedToItsBase == Spec => []AppliesToItsBase
<1>1. Init => Unseen
  BY DEF Init, Unseen, Leased, Guarded, Integrating
<1>2. ASSUME IInv, Unseen, Next PROVE Unseen'
  <2>1. Leased'
    BY <1>2, OutsideLeased, ChildLeased, TaskLeased DEF Next, Unseen
  <2>2. \A t \in Task : Guarded(t)'
    BY <1>2, OutsideGuarded, ChildGuarded, TaskGuarded DEF Next
  <2> QED BY <2>1, <2>2 DEF Unseen
<1>3. IInv /\ Unseen /\ [Next]_vars => Unseen'
  BY <1>2, StutterUnseen
<1>4. Unseen => AppliesToItsBase
  BY DEF Unseen, Guarded, Unreached, Integrating, AppliesToItsBase
<1> QED BY <1>1, <1>3, <1>4, ChangesInvariance, PTL DEF Spec

=============================================================================
