----------------------------- MODULE BudgetLedger -----------------------------
(***************************************************************************)
(* The money of one run: the tables budget_reservations, usage_records and *)
(* budget_warning_state, and every operation that writes them: BudgetLedger*)
(* (src/src/skail/routing/budget.py), the assignment service that reserves *)
(* (routing/assignment.py) and the session recovery that gives money back  *)
(* (sessions/recovery.py).                                                 *)
(*                                                                         *)
(* Each operation is one BEGIN IMMEDIATE transaction, hence one action,    *)
(* whatever thread it runs on; a refusal rolls back and is no step, and so *)
(* is the replay of a request that is stored already.  Money is a natural  *)
(* number of the smallest unit the code's Decimal amounts share.           *)
(*                                                                         *)
(* LedgerSpec is the ledger by itself, whatever is asked of it and when;   *)
(* CallAccounting says when the calls of a run ask for what.               *)
(***************************************************************************)
EXTENDS Naturals, FiniteSets, FiniteSetsExt

CONSTANTS
  Resv,          \* reservation ids (bounds the attempts explored)
  Task, NoTask,  \* tasks; a lead allowance belongs to none
  TaskOf,        \* the task each reservation is made for
  Limit,         \* runs.budget_limit_usd, or NoLimit
  TaskLimit,     \* TaskRequest.budget_usd of each task, or NoLimit
  NoLimit,
  Percent,       \* warning_percent, of one hundred
  Allowance,     \* the lead allowance retained with a batch
  Estimates,     \* estimated costs a candidate model can have
  Costs          \* costs an attempt can turn out to have

ASSUME TaskAssumption ==
  /\ IsFiniteSet(Resv)   \* the rows of a table
  /\ NoTask \notin Task /\ TaskOf \in [Resv -> Task \cup {NoTask}]
ASSUME LimitAssumption ==
  /\ NoLimit \notin Nat
  /\ Limit \in Nat \cup {NoLimit}
  /\ TaskLimit \in [Task -> Nat \cup {NoLimit}]
  /\ Percent \in 1..100
ASSUME AmountAssumption ==
  Allowance \in Nat /\ Estimates \subseteq Nat /\ Costs \subseteq Nat

VARIABLES
  state,     \* budget_reservations.status, "none" when there is no row
  amount,    \* budget_reservations.amount_usd
  usage,     \* usage_records.authority of the reservation's row, or "none"
  cost,      \* usage_records.amount_usd
  latch,     \* budget_warning_state.is_above_threshold
  warnings   \* number of budget.warned events in the journal

ledger == <<state, amount, usage, cost, latch, warnings>>

\* UsageAuthority, as far as settle tells its members apart: "measured" is a
\* token-derived or a reconciled estimate.
Authority == {"authoritative", "conservative", "measured"}

-----------------------------------------------------------------------------
\* What one reservation takes from the balance: its usage row, and the row of
\* the reservation itself while that is open.
Charge(st, am, r) ==
  (IF usage[r] # "none" THEN cost[r] ELSE 0) + (IF st[r] = "reserved" THEN am[r] ELSE 0)

CommittedOf(st, am, S) == MapThenSumSet(LAMBDA r : Charge(st, am, r), S)

\* hard limit minus available_usd, were the reservations st with amounts am.
Committed(st, am) == CommittedOf(st, am, Resv)

\* task_committed_usd
TaskCommitted(st, am, t) == CommittedOf(st, am, {r \in Resv : TaskOf[r] = t})

\* Mutant: the gate looks at what was spent and forgets what is held.
FitsUsage(st, am, S) ==
  /\ Limit # NoLimit => Committed([r \in Resv |-> IF r \in S THEN st[r] ELSE "none"], am) <= Limit
  /\ \A t \in {TaskOf[r] : r \in S} \cap Task :
       TaskLimit[t] # NoLimit => TaskCommitted(st, am, t) <= TaskLimit[t]

\* The gates of reserve_in_transaction, read on the balance that the new
\* reservations S leave: within the run's limit, and each within its task's.
Fits(st, am, S) ==
  /\ Limit # NoLimit => Committed(st, am) <= Limit
  /\ \A t \in {TaskOf[r] : r \in S} \cap Task :
       TaskLimit[t] # NoLimit => TaskCommitted(st, am, t) <= TaskLimit[t]

AboveIf(committed) ==
  Limit # NoLimit /\ Limit > 0 /\ committed * 100 >= Limit * Percent

\* _update_warning: the stored flag follows the balance.
WarnAt(st, am) == AboveIf(Committed(st, am))

-----------------------------------------------------------------------------
LedgerInit ==
  /\ state = [r \in Resv |-> "none"]
  /\ amount = [r \in Resv |-> 0]
  /\ usage = [r \in Resv |-> "none"]
  /\ cost = [r \in Resv |-> 0]
  /\ latch = FALSE
  /\ warnings = 0

\* _persist appends budget.warned when its own reservation takes the flag from
\* down to up.
Announce(before, st, am) ==
  /\ latch' = WarnAt(st, am)
  /\ warnings' = IF latch' /\ ~before THEN warnings + 1 ELSE warnings

\* assign: one reservation for one attempt (children, retries and the lead).
Assign(r, a) ==
  LET st == [state EXCEPT ![r] = "reserved"]
      am == [amount EXCEPT ![r] = a]
  IN  /\ state[r] = "none" /\ TaskOf[r] # NoTask
      /\ Fits(st, am, {r})
      /\ state' = st /\ amount' = am
      /\ Announce(latch, st, am)
      /\ UNCHANGED <<usage, cost>>

\* assign with fallback_of_assignment_id: another provider takes over an
\* attempt; what the first assignment still holds is released before.
Fallback(source, r, a) ==
  LET freed == IF state[source] = "reserved"
               THEN [state EXCEPT ![source] = "released"] ELSE state
      st == [freed EXCEPT ![r] = "reserved"]
      am == [amount EXCEPT ![r] = a]
  IN  /\ state[source] # "none" /\ state[r] = "none"
      /\ TaskOf[r] # NoTask /\ TaskOf[source] = TaskOf[r]
      /\ Fits(st, am, {r})
      /\ state' = st /\ amount' = am
      /\ Announce(IF freed = state THEN latch ELSE WarnAt(freed, amount), st, am)
      /\ UNCHANGED <<usage, cost>>

\* assign_batch: a maps the children that were funded to their estimates; they
\* and the allowance of the lead are reserved together.  The reservation of
\* the lead is the first, and its result (warning_crossed too) is dropped.
AssignBatch(lead, a) ==
  LET first == [state EXCEPT ![lead] = "reserved"]
      st == [r \in Resv |-> IF r \in DOMAIN a THEN "reserved" ELSE first[r]]
      am == [r \in Resv |-> CASE r = lead -> Allowance
                              [] r \in DOMAIN a -> a[r]
                              [] OTHER -> amount[r]]
  IN  /\ state[lead] = "none" /\ TaskOf[lead] = NoTask
      /\ DOMAIN a # {} /\ \A r \in DOMAIN a : state[r] = "none" /\ TaskOf[r] # NoTask
      /\ Fits(st, am, DOMAIN a \cup {lead})
      /\ state' = st /\ amount' = am
      /\ Announce(WarnAt(first, am), st, am)
      /\ UNCHANGED <<usage, cost>>

\* release: asked again of a released reservation it does nothing.
Release(r) ==
  /\ state[r] = "reserved"
  /\ state' = [state EXCEPT ![r] = "released"]
  /\ UNCHANGED <<amount, usage, cost, warnings>>
  /\ latch' = WarnAt(state, amount)'

-----------------------------------------------------------------------------
\* Mutant: any later report of the attempt takes the place of the first.
ReplacesAny(r, c, authority) == TRUE

\* The reports that may replace a usage row: the provider's own figure instead
\* of an estimate, and a conservative estimate that does not lower it.
Replaces(r, c, authority) ==
  /\ usage[r] # "authoritative"
  /\ \/ authority = "authoritative"
     \/ authority = "conservative" /\ c >= cost[r]

\* Mutant: the usage is booked and the reservation stays open.
SettledStateOpen(r) == state

SettledState(r) == [state EXCEPT ![r] = "settled"]

\* settle: the first usage of an open reservation closes it; nothing caps it
\* at the amount reserved.  The crossing it may cause is announced to nobody.
Settle(r, c, authority) ==
  /\ \/ state[r] = "reserved" /\ usage[r] = "none" /\ state' = SettledState(r)
     \/ usage[r] # "none" /\ Replaces(r, c, authority) /\ UNCHANGED state
  /\ usage' = [usage EXCEPT ![r] = authority]
  /\ cost' = [cost EXCEPT ![r] = c]
  /\ UNCHANGED <<amount, warnings>>
  /\ latch' = WarnAt(state, amount)'

\* The session recovery releases what the tasks it found orphaned hold, unless
\* a provider call of the task has no known outcome; it writes the table
\* directly, and the warning flag is not looked at.
ReleaseOrphaned(T) ==
  /\ \E r \in Resv : TaskOf[r] \in T /\ state[r] = "reserved"
  /\ state' = [r \in Resv |-> IF TaskOf[r] \in T /\ state[r] = "reserved"
                              THEN "released" ELSE state[r]]
  /\ UNCHANGED <<amount, usage, cost, latch, warnings>>

LedgerNext ==
  \/ \E r \in Resv :
       \/ \E a \in Estimates : Assign(r, a) \/ \E s \in Resv : Fallback(s, r, a)
       \/ Release(r)
       \/ \E c \in Costs, authority \in Authority : Settle(r, c, authority)
  \/ \E lead \in Resv, S \in SUBSET Resv : \E a \in [S -> Estimates] : AssignBatch(lead, a)
  \/ \E T \in SUBSET Task : ReleaseOrphaned(T)

LedgerSpec == LedgerInit /\ [][LedgerNext]_ledger

-----------------------------------------------------------------------------
\* The values the variables take.
LedgerTypeOK ==
  /\ state \in [Resv -> {"none", "reserved", "settled", "released"}]
  /\ amount \in [Resv -> Nat]
  /\ usage \in [Resv -> Authority \cup {"none"}]
  /\ cost \in [Resv -> Nat]
  /\ latch \in BOOLEAN
  /\ warnings \in Nat

\* A cost is counted once: a reservation has a usage row exactly when it is
\* settled, so held money and spent money never stand for the same attempt.
UsageReplacesReservation ==
  \A r \in Resv : usage[r] # "none" <=> state[r] = "settled"

\* "Skail prevents subsequent calls and reports any bounded overshoot"
\* (SPEC.md:309): only what an attempt turned out to cost takes a run or a task
\* past its limit; no single assignment, batch, fallback, release or recovery
\* commits more than before and leaves more committed than the limit.
OnlyCostsOvershoot ==
  [][usage' = usage /\ cost' = cost =>
       /\ Limit # NoLimit /\ Committed(state, amount)' > Limit
            => Committed(state, amount)' <= Committed(state, amount)
       /\ \A t \in Task : TaskLimit[t] # NoLimit /\ TaskCommitted(state, amount, t)' > TaskLimit[t]
            => TaskCommitted(state, amount, t)' <= TaskCommitted(state, amount, t)]_ledger

\* What was booked for an attempt only gets better: the provider's own figure
\* stays, an estimate is not lowered by another estimate, and money that was
\* settled or given back is never held again.
BookedOnlyImproves ==
  [][\A r \in Resv :
       /\ usage[r] # "none" =>
            \/ usage'[r] = usage[r] /\ cost'[r] = cost[r]
            \/ /\ usage[r] # "authoritative"
               /\ \/ usage'[r] = "authoritative"
                  \/ usage'[r] = "conservative" /\ cost'[r] >= cost[r]
       /\ state[r] \in {"settled", "released"} => state'[r] = state[r]]_ledger
=============================================================================
