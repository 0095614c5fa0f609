--------------------------- MODULE CallAccounting ---------------------------
(***************************************************************************)
(* The paid provider calls of one run and what becomes of the money        *)
(* reserved for them: the middleware around each model call                *)
(* (runtime/model_middleware.py), AssignmentUsageSettler                   *)
(* (routing/assignment.py), the finalization of an attempt by its own      *)
(* worker and by the end of the run (runtime/run_controller.py), the       *)
(* session recovery, and the command with which an operator reconciles a   *)
(* call.  The reservations are those of BudgetLedger, one per attempt.     *)
(*                                                                         *)
(* Every transaction is a step.  The calls of one attempt follow each      *)
(* other; attempts run side by side.  A request is identified by its       *)
(* execution key, the digest of its messages: an agent that goes on only   *)
(* ever adds messages, an agent that is restored from a checkpoint may ask *)
(* again what it asked before.  Once an attempt has ended none of its      *)
(* calls is in flight, so what a finalization reads after it marked the    *)
(* calls that never returned is read in one step.                          *)
(***************************************************************************)
EXTENDS BudgetLedger

CONSTANTS
  Lead,               \* the reservation of the lead's own attempt
  Key,                \* execution keys of the requests an attempt can make
  NoRow, Unpriced,    \* no usage row, and a row without a cost
  Estimate,           \* the frozen estimate of an attempt
  MaxCrashes          \* bound on the crashes of the process

\* The attempts of the run, the lead's and its children's: each has a reservation.
Attempt == Resv

ASSUME AttemptAssumption ==
  /\ Lead \in Attempt /\ IsFiniteSet(Attempt) /\ IsFiniteSet(Key)
  /\ Task = Attempt /\ TaskOf = [a \in Attempt |-> a]   \* one attempt of each task
ASSUME CostAssumption ==
  /\ Costs \subseteq Nat   \* what a call with measured tokens can cost
  /\ NoRow \notin Nat /\ Unpriced \notin Nat /\ NoRow # Unpriced
  /\ \E m \in Costs : \A c \in Costs : c <= m   \* a model's window and prices bound a call
  /\ Estimate \in Nat /\ Limit \in Nat \ {0} /\ MaxCrashes \in Nat

VARIABLES
  call,      \* provider_calls.status
  recorded,  \* assignment_call_usage: NoRow, Unpriced, or the cost
  failure,   \* accounting_reconciliation_failures.status of each call
  broken,    \* attempts with an open failure that names no call
  phase,     \* how far the worker of an attempt is
  asked,     \* keys in the transcript of an attempt
  saved,     \* keys in the lead's transcript when its checkpoint was recorded
  live,      \* the latest checkpoint lists the lead's attempt as live
  marked,    \* finalizations between their two steps
  alive,     \* the process is up
  crashes,
  sent       \* how often each request went out to the provider

rows == <<call, recorded, failure, broken>>
life == <<phase, asked, saved, live, marked>>
vars == <<ledger, rows, life, alive, crashes, sent>>

Who == {"own", "sweep"}
Uncalled(v) == [a \in Attempt |-> [k \in Key |-> v]]

Init ==
  /\ LedgerInit
  /\ call = Uncalled("none") /\ recorded = Uncalled(NoRow) /\ failure = Uncalled("none")
  /\ broken = {}
  /\ phase = [a \in Attempt |-> "off"]
  /\ asked = [a \in Attempt |-> {}] /\ saved = {} /\ live = FALSE
  /\ marked = {}
  /\ alive = TRUE /\ crashes = 0
  /\ sent = Uncalled(0)

-----------------------------------------------------------------------------
\* Provider calls, as the settler sees them.
Priced(a) == {k \in Key : recorded[a][k] \in Costs}
Known(a) == MapThenSumSet(LAMBDA k : recorded[a][k], Priced(a))
HasRows(a) == \E k \in Key : recorded[a][k] # NoRow

\* has_unaccounted_calls: calls that may cost something and left no row.
Unaccounted(a) ==
  {k \in Key : call[a][k] \in {"started", "completed", "ambiguous"} /\ recorded[a][k] = NoRow}

\* Calls whose outcome nobody knows and nobody has reconciled.
Uncertain(a) == {k \in Key : call[a][k] = "ambiguous" /\ failure[a][k] # "estimated"}

\* What the completed calls of the run were priced at.
Observed ==
  MapThenSumSet(LAMBDA x : recorded[x[1]][x[2]],
                {x \in Attempt \X Key : call[x[1]][x[2]] = "completed" /\ x[2] \in Priced(x[1])})

OpenFailure == broken # {} \/ \E a \in Attempt, k \in Key : failure[a][k] = "open"

\* Mutant: a request is refused only while the first is under way.
MayBeginAgain(a, k) ==
  /\ call[a][k] # "started"
  /\ ~OpenFailure
  /\ Observed < Limit
  /\ state[a] = "reserved"

\* Mutant: the last cent may be spent twice.
MayBeginAtLimit(a, k) ==
  /\ call[a][k] = "none"
  /\ ~OpenFailure
  /\ Observed <= Limit
  /\ state[a] = "reserved"

\* begin_call: never a second time for one request, not while the run has an
\* unreconciled call, not when what was observed reached the budget, and not
\* without an open reservation.
MayBegin(a, k) ==
  /\ call[a][k] = "none"
  /\ ~OpenFailure
  /\ Observed < Limit
  /\ state[a] = "reserved"

Goes(a, from, to) == alive /\ phase[a] = from /\ phase' = [phase EXCEPT ![a] = to]
Set(f, a, k, v) == [f EXCEPT ![a][k] = v]

-----------------------------------------------------------------------------
\* The worker of an attempt.

\* assign: the lead's attempt first; a denied reservation starts nothing.
Starts(a) ==
  /\ Goes(a, "off", "turn")
  /\ a = Lead \/ phase[Lead] = "turn"
  /\ Assign(a, Estimate)
  /\ UNCHANGED <<rows, asked, saved, live, marked, alive, crashes, sent>>

\* The row is committed before the request goes out.
Calls(a, k) ==
  /\ Goes(a, "turn", "calling")
  /\ k \notin asked[a] /\ MayBegin(a, k)
  /\ call' = Set(call, a, k, "started")
  /\ sent' = [sent EXCEPT ![a][k] = @ + 1]
  /\ asked' = [asked EXCEPT ![a] = @ \cup {k}]
  /\ UNCHANGED <<ledger, recorded, failure, broken, saved, live, marked, alive, crashes>>

InFlight(a, k) == k \in asked[a] /\ call[a][k] = "started" /\ phase[a] = "calling"

\* _token_cost_usd: what a response is priced at; without tokens or without a
\* price of both kinds it has no cost.
Pricings == Costs \cup {Unpriced}

\* mark_call_succeeded, of a call that is still started
MarkSucceeded(a, k) == call' = Set(call, a, k, "completed")

\* _complete_call: the usage of the response is recorded, with a cost when its
\* tokens are measured and priced.
Answered(a, k, c) ==
  /\ InFlight(a, k) /\ Goes(a, "calling", "turn")
  /\ call' = Set(call, a, k, "completed")
  /\ recorded' = Set(recorded, a, k, c)
  /\ UNCHANGED <<ledger, failure, broken, asked, saved, live, marked, alive, crashes, sent>>

\* The usage cannot be recorded (record_call raises and rolls back); the call
\* is marked as succeeded, without a row.
AnsweredUnrecorded(a, k) ==
  /\ InFlight(a, k) /\ Goes(a, "calling", "turn")
  /\ MarkSucceeded(a, k)
  /\ UNCHANGED <<ledger, recorded, failure, broken, asked, saved, live, marked, alive, crashes, sent>>

\* A definitive rejection cost nothing, and ends the agent's graph.
Rejected(a, k) ==
  /\ InFlight(a, k) /\ Goes(a, "calling", "returned")
  /\ call' = Set(call, a, k, "rejected")
  /\ UNCHANGED <<ledger, recorded, failure, broken, asked, saved, live, marked, alive, crashes, sent>>

\* Any other error, and a cancellation: the outcome is unknown.
Ambiguous(a, k) ==
  /\ InFlight(a, k) /\ Goes(a, "calling", "returned")
  /\ call' = Set(call, a, k, "ambiguous")
  /\ failure' = Set(failure, a, k, "open")
  /\ UNCHANGED <<ledger, recorded, broken, asked, saved, live, marked, alive, crashes, sent>>

\* The journal is busy when the outcome is to be marked: the call stays started.
OutcomeLost(a, k) ==
  /\ InFlight(a, k) /\ Goes(a, "calling", "returned")
  /\ UNCHANGED <<ledger, rows, asked, saved, live, marked, alive, crashes, sent>>

\* The agent's graph ends between two calls: with a result, because a call was
\* refused, or because it was cancelled.
Returns(a) ==
  /\ Goes(a, "turn", "returned")
  /\ UNCHANGED <<ledger, rows, asked, saved, live, marked, alive, crashes, sent>>

ChildrenRest == \A a \in Attempt \ {Lead} : phase[a] \notin {"turn", "calling"}

\* The lead asks the person: its transcript is saved, its attempt is live.
Parks ==
  /\ Goes(Lead, "turn", "parked") /\ ChildrenRest
  /\ saved' = asked[Lead] /\ live' = TRUE
  /\ UNCHANGED <<ledger, rows, asked, marked, alive, crashes, sent>>

Resumes ==
  /\ Goes(Lead, "parked", "turn")
  /\ UNCHANGED <<ledger, rows, asked, saved, live, marked, alive, crashes, sent>>

-----------------------------------------------------------------------------
\* Settlement.

\* Mutant: an attempt is settled at what is known of it.
SettlementAtKnown(a) == Known(a)

\* The cost an attempt is settled at: what its calls cost if all of them are
\* measured, otherwise at least the estimate.
Measured(a) == HasRows(a) /\ Unaccounted(a) = {} /\ \A k \in Key : recorded[a][k] # Unpriced
Settlement(a) ==
  IF Measured(a) \/ Known(a) > Estimate THEN Known(a) ELSE Estimate

\* RECONCILED_ESTIMATE is "measured" to the ledger.
AuthorityOf(a, reconciled) == IF Measured(a) \/ reconciled THEN "measured" ELSE "conservative"

Replays(a, authority) == usage[a] = authority /\ cost[a] = Settlement(a)

\* settle accepts a first usage of an open reservation, and a replacement.
LedgerAccepts(a, authority) ==
  \/ state[a] = "reserved" /\ usage[a] = "none"
  \/ usage[a] # "none" /\ Replaces(a, Settlement(a), authority)

\* settle_attempt: what the ledger refuses becomes an open failure.
SettlesAttempt(a) ==
  LET authority == AuthorityOf(a, FALSE)
  IN  IF Replays(a, authority) THEN UNCHANGED <<ledger, broken>>
      ELSE IF LedgerAccepts(a, authority)
      THEN Settle(a, Settlement(a), authority) /\ UNCHANGED broken
      ELSE UNCHANGED ledger /\ broken' = broken \cup {a}

\* ledger.release: nothing to do for what is released or settled already.
ReleasesAttempt(a) ==
  /\ IF state[a] = "reserved" THEN Release(a) ELSE UNCHANGED ledger
  /\ UNCHANGED broken

\* record_settle of a child, or the last rows of the lead: the attempt's row
\* leaves running before its money is looked at.
Records(a) ==
  /\ Goes(a, "returned", "recorded")
  /\ a = Lead => ChildrenRest
  /\ live' = (live /\ a # Lead)
  /\ UNCHANGED <<ledger, rows, asked, saved, marked, alive, crashes, sent>>

\* A resumed lead that completes settles without looking for lost calls.
CompletesResumed ==
  /\ Goes(Lead, "turn", "direct")
  /\ live /\ ChildrenRest
  /\ UNCHANGED <<ledger, rows, asked, saved, live, marked, alive, crashes, sent>>

SettlesDirectly ==
  /\ Goes(Lead, "direct", "ended")
  /\ SettlesAttempt(Lead)
  /\ UNCHANGED <<call, recorded, failure, asked, saved, live, marked, alive, crashes, sent>>

\* Who finalizes an attempt: its own worker, and for a child the end of a run
\* that failed or was cancelled.
MayFinalize(a, who) ==
  \/ who = "own" /\ phase[a] = "recorded"
  \/ who = "sweep" /\ a # Lead /\ phase[Lead] = "recorded" /\ phase[a] # "off"

\* The entries of an attempt in a table, with v at its calls that never returned.
AtLost(table, a, v) ==
  [table EXCEPT ![a] = [k \in Key |-> IF call[a][k] = "started" THEN v ELSE @[k]]]

\* mark_unreturned_calls_ambiguous
FinalizeMarks(a, who) ==
  /\ alive /\ MayFinalize(a, who) /\ <<a, who>> \notin marked
  /\ call' = AtLost(call, a, "ambiguous")
  /\ failure' = AtLost(failure, a, "open")
  /\ marked' = marked \cup {<<a, who>>}
  /\ UNCHANGED <<ledger, recorded, broken, phase, asked, saved, live, alive, crashes, sent>>

\* Mutant: money is given back while a call has no known outcome.
FinalizeActsAnyway(a, who) ==
  /\ alive /\ <<a, who>> \in marked
  /\ marked' = marked \ {<<a, who>>}
  /\ phase' = IF who = "own" THEN [phase EXCEPT ![a] = "ended"] ELSE phase
  /\ IF HasRows(a) THEN SettlesAttempt(a) ELSE ReleasesAttempt(a)
  /\ UNCHANGED <<call, recorded, failure, asked, saved, live, alive, crashes, sent>>

\* _finalize_assignment_budget: an uncertain call keeps the reservation.
FinalizeActs(a, who) ==
  /\ alive /\ <<a, who>> \in marked
  /\ marked' = marked \ {<<a, who>>}
  /\ phase' = IF who = "own" THEN [phase EXCEPT ![a] = "ended"] ELSE phase
  /\ IF Uncertain(a) # {} \/ state[a] = "settled" THEN UNCHANGED <<ledger, broken>>
     ELSE IF HasRows(a) \/ \E k \in Key : call[a][k] = "completed" THEN SettlesAttempt(a)
     ELSE ReleasesAttempt(a)
  /\ UNCHANGED <<call, recorded, failure, asked, saved, live, alive, crashes, sent>>

\* reject_interrupted: the rows of the lead first, then its money, for which
\* only the usage rows are looked at.
RejectsRun ==
  /\ Goes(Lead, "parked", "rejected")
  /\ live' = FALSE
  /\ UNCHANGED <<ledger, rows, asked, saved, marked, alive, crashes, sent>>

RejectSettles ==
  /\ Goes(Lead, "rejected", "ended")
  /\ IF HasRows(Lead) THEN SettlesAttempt(Lead) ELSE ReleasesAttempt(Lead)
  /\ UNCHANGED <<call, recorded, failure, asked, saved, live, marked, alive, crashes, sent>>

-----------------------------------------------------------------------------
\* Mutant: the call that is being reconciled still counts.
StillOpenWithItself(a, k) ==
  {j \in Key : call[a][j] = "started" \/ j \in Uncertain(a)}

\* Calls of the attempt that keep it from being settled once k is estimated.
StillOpen(a, k) ==
  {j \in Key : call[a][j] = "started" \/ (j \in Uncertain(a) /\ j # k)}

\* reconcile_ambiguous_call, from another process at any time: the last call
\* of an attempt settles it; a settlement the ledger refuses rolls back.
Reconcile(a, k) ==
  /\ call[a][k] = "ambiguous" /\ failure[a][k] \in {"open", "estimated"}
  /\ state[a] # "settled"
  /\ failure' = Set(failure, a, k, "estimated")
  /\ IF StillOpen(a, k) = {} /\ a \notin broken
     THEN LET authority == AuthorityOf(a, TRUE)
          IN  LedgerAccepts(a, authority) /\ Settle(a, Settlement(a), authority)
     ELSE failure[a][k] = "open" /\ UNCHANGED ledger
  /\ UNCHANGED <<call, recorded, broken, life, alive, crashes, sent>>

\* What a crash leaves: rows.  Whoever had recorded its result is not resumed.
Crash ==
  /\ alive /\ crashes < MaxCrashes
  /\ alive' = FALSE /\ crashes' = crashes + 1
  /\ marked' = {}
  /\ phase' = [a \in Attempt |-> IF phase[a] \in {"recorded", "direct", "rejected"}
                                 THEN "ended" ELSE phase[a]]
  /\ UNCHANGED <<ledger, rows, asked, saved, live, sent>>

\* Attempts whose rows say assigned or running, and no checkpoint vouches for.
Orphans ==
  {a \in Attempt : phase[a] \notin {"off", "ended", "lost"} /\ (a = Lead => ~live)}

\* Mutant: only calls that were marked are ambiguous to the recovery.
UnknownToRecoveryMarked(a) == \E k \in Key : call[a][k] = "ambiguous"

\* The recovery protects a task with a call of unknown outcome.
UnknownToRecovery(a) == \E k \in Key : call[a][k] \in {"started", "ambiguous"}

\* recover_session and restore_interrupted: orphans give their money back,
\* unless a call of theirs may have been paid; a live lead waits for a person,
\* with a transcript of its thread that is no older than the checkpoint.
Recover ==
  LET freed == {a \in Orphans : ~UnknownToRecovery(a)}
      back == live /\ phase[Lead] \notin {"off", "ended", "lost"}
  IN  /\ ~alive /\ alive' = TRUE
      /\ IF \E a \in freed : state[a] = "reserved" THEN ReleaseOrphaned(freed) ELSE UNCHANGED ledger
      /\ phase' = [a \in Attempt |-> CASE a \in Orphans -> "lost"
                                       [] a = Lead /\ back -> "parked"
                                       [] OTHER -> phase[a]]
      /\ \E kept \in SUBSET asked[Lead] :
           /\ saved \subseteq kept
           /\ asked' = IF back THEN [asked EXCEPT ![Lead] = kept] ELSE asked
      /\ UNCHANGED <<rows, saved, live, marked, crashes, sent>>

-----------------------------------------------------------------------------
WorkerStep(a) ==
  \/ Starts(a) \/ Returns(a) \/ Records(a)
  \/ \E k \in Key :
       \/ Calls(a, k) \/ AnsweredUnrecorded(a, k)
       \/ \E c \in Pricings : Answered(a, k, c)
       \/ Rejected(a, k) \/ Ambiguous(a, k) \/ OutcomeLost(a, k)

Next ==
  \/ \E a \in Attempt : WorkerStep(a)
  \/ Parks \/ Resumes \/ CompletesResumed \/ SettlesDirectly \/ RejectsRun \/ RejectSettles
  \/ \E a \in Attempt, who \in Who : FinalizeMarks(a, who) \/ FinalizeActs(a, who)
  \/ \E a \in Attempt, k \in Key : Reconcile(a, k)
  \/ Crash \/ Recover

Spec == Init /\ [][Next]_vars

-----------------------------------------------------------------------------
\* The values the variables take.
TypeOK ==
  /\ LedgerTypeOK
  /\ call \in [Attempt -> [Key -> {"none", "started", "completed", "rejected", "ambiguous"}]]
  /\ recorded \in [Attempt -> [Key -> Costs \cup {NoRow, Unpriced}]]
  /\ failure \in [Attempt -> [Key -> {"none", "open", "estimated"}]]
  /\ broken \subseteq Attempt
  /\ phase \in [Attempt -> {"off", "turn", "calling", "returned", "recorded", "direct",
                            "parked", "rejected", "ended", "lost"}]
  /\ asked \in [Attempt -> SUBSET Key] /\ saved \subseteq Key
  /\ live \in BOOLEAN /\ alive \in BOOLEAN
  /\ marked \subseteq Attempt \X Who
  /\ crashes \in 0..MaxCrashes
  /\ sent \in [Attempt -> [Key -> Nat]]

\* "Orphaned in-flight provider calls become interrupted; Skail does not replay
\* them" (FEATURES.md:755): whatever crashes, resumes and answers, no request
\* of an attempt goes out to the provider twice.
RequestSentOnce == \A a \in Attempt, k \in Key : sent[a][k] <= 1

\* A reservation is not given back while a call made on it has no known
\* outcome, by its worker, the end of the run or a recovery; only a person who
\* rejects the run ends it over such a call (reject_interrupted looks at usage
\* rows alone).
UncertainKeepsMoney ==
  [][\A a \in Attempt :
       (state[a] = "reserved" /\ state'[a] = "released")
         => \/ \A k \in Key : call[a][k] # "started" /\ k \notin Uncertain(a)
            \/ phase[a] = "rejected"]_vars

\* A settlement is never below what the calls of the attempt are known to have
\* cost, nor below the estimate while one of them has no measured cost
\* (SPEC.md:302), and no later call escapes it.  Reconciliation comes to its end
\* (FEATURES.md:470): an attempt whose uncertain calls have all been estimated is
\* settled, and holds no money.
SettledCoversCalls ==
  \A a \in Attempt :
    /\ state[a] = "settled" =>
         /\ cost[a] >= Known(a)
         /\ (Unaccounted(a) # {} \/ \E k \in Key : recorded[a][k] = Unpriced) => cost[a] >= Estimate
    /\ /\ \E k \in Key : failure[a][k] = "estimated"
       /\ \A k \in Key : call[a][k] # "started" /\ k \notin Uncertain(a)
       /\ a \notin broken
       => state[a] = "settled"

\* "Skail prevents subsequent calls and reports any bounded overshoot"
\* (SPEC.md:309): however attempts run side by side, each takes the run past its
\* limit by one call at most.
OvershootBounded ==
  Observed < Limit + Cardinality(Attempt) * (CHOOSE m \in Costs : \A c \in Costs : c <= m)

=============================================================================
