-------------------------- MODULE AccountingProofs --------------------------
(***************************************************************************)
(* Theorems about the money of a run, in three parts.  Sums: what the      *)
(* balances are made of, defined over a set one element at a time, and the *)
(* few facts the proofs use of them.  The ledger by itself, for every set  *)
(* of reservations, tasks, limits and amounts: nothing in this part rests  *)
(* on what CallAccounting assumes.  The calls of a run, for any number of  *)
(* attempts, requests, costs and crashes: no request is sent twice, no     *)
(* money is given back over a call of unknown outcome, what is settled     *)
(* covers what was called, and the limit is passed by at most one call of  *)
(* each attempt.                                                           *)
(***************************************************************************)
EXTENDS CallAccounting, FiniteSetTheorems, WellFoundedInduction, TLAPS

\* What BudgetLedger assumes of its constants, whatever calls it is used for.
LedgerConstants ==
  /\ IsFiniteSet(Resv)
  /\ NoTask \notin Task /\ TaskOf \in [Resv -> Task \cup {NoTask}]
  /\ NoLimit \notin Nat /\ Limit \in Nat \cup {NoLimit}
  /\ TaskLimit \in [Task -> Nat \cup {NoLimit}]
  /\ Percent \in 1..100
  /\ Allowance \in Nat /\ Estimates \subseteq Nat /\ Costs \subseteq Nat

LEMMA ConstantsOfLedger == LedgerConstants
BY TaskAssumption, LimitAssumption, AmountAssumption DEF LedgerConstants

-----------------------------------------------------------------------------
(***************************************************************************)
(* Sums.  The elements are taken one at a time, in no stated order, so     *)
(* that an induction goes by a smallest set that breaks the rule.          *)
(***************************************************************************)
\* The sum of g over S, as MapThenSumSet computes it: the elements one by one.
SumOf(g, S) == MapThenSumSet(LAMBDA r : g[r], S)
Pick(s) == CHOOSE x \in s : TRUE
AddsUp(f, g, S) == f = [s \in SUBSET S |-> IF s = {} THEN 0 ELSE g[Pick(s)] + f[s \ {Pick(s)}]]

\* The sum written out: the function over the subsets that adds one by one.
LEMMA SumUnfolds == ASSUME NEW g, NEW S PROVE SumOf(g, S) = (CHOOSE f : AddsUp(f, g, S))[S]
BY DEF SumOf, MapThenSumSet, MapThenFoldSet, AddsUp, Pick

\* A set of sets of finitely many elements has one none of the others is part of.
LEMMA SmallestSet ==
  ASSUME NEW S, IsFiniteSet(S), NEW Q, Q \subseteq SUBSET S, Q # {}
  PROVE  \E T \in Q : \A U \in Q : U \subseteq T => U = T
<1>1. Q \subseteq FiniteSubsetsOf(S)
  BY FS_Subset DEF FiniteSubsetsOf
<1>2. PICK T \in Q : \A U \in Q : <<U, T>> \notin StrictSubsetOrdering(S)
  BY <1>1, WFMin, FS_StrictSubsetOrderingWellFounded, Zenon
<1> QED BY <1>2, Zenon DEF StrictSubsetOrdering

\* The element that is taken first is one of the set.
LEMMA PickIn == ASSUME NEW s, s # {} PROVE Pick(s) \in s
BY DEF Pick

\* Summing one by one is well defined: first for the sets of at most n elements.
Approximates(f, g, S, n) ==
  /\ f \in [SUBSET S -> Nat]
  /\ \A s \in SUBSET S : Cardinality(s) <= n =>
       f[s] = IF s = {} THEN 0 ELSE g[Pick(s)] + f[s \ {Pick(s)}]

\* From the sets of at most n elements to those of at most n + 1.
LEMMA SumGrows ==
  ASSUME NEW S, IsFiniteSet(S), NEW g, \A r \in S : g[r] \in Nat,
         NEW n \in Nat, NEW f, Approximates(f, g, S, n)
  PROVE  \E h : Approximates(h, g, S, n + 1)
<1> DEFINE Step(s) == IF s = {} THEN 0 ELSE g[Pick(s)] + f[s \ {Pick(s)}]
           grown == [s \in SUBSET S |-> IF Cardinality(s) <= n THEN f[s] ELSE Step(s)]
<1>1. ASSUME NEW s \in SUBSET S
      PROVE  /\ Cardinality(s) \in Nat
             /\ s # {} => /\ Pick(s) \in s /\ s \ {Pick(s)} \in SUBSET S
                          /\ Cardinality(s \ {Pick(s)}) = Cardinality(s) - 1
  <2>1. IsFiniteSet(s)
    BY FS_Subset
  <2> QED BY <2>1, PickIn, FS_CardinalityType, FS_RemoveElement
<1>2. ASSUME NEW s \in SUBSET S PROVE Step(s) \in Nat
  <2>1. CASE s # {}
    <3>1. Pick(s) \in S /\ f[s \ {Pick(s)}] \in Nat
      BY <1>1, <2>1 DEF Approximates
    <3> QED BY <2>1, <3>1
  <2> QED BY <2>1
<1>3. grown \in [SUBSET S -> Nat]
  BY <1>2 DEF Approximates
<1>4. ASSUME NEW s \in SUBSET S, Cardinality(s) <= n + 1
      PROVE  grown[s] = IF s = {} THEN 0 ELSE g[Pick(s)] + grown[s \ {Pick(s)}]
  <2>1. grown[s] = Step(s)
    <3>1. CASE Cardinality(s) <= n
      BY <3>1 DEF Approximates
    <3>2. CASE ~(Cardinality(s) <= n)
      BY <3>2
    <3> QED BY <3>1, <3>2
  <2>2. CASE s # {}
    <3>1. grown[s \ {Pick(s)}] = f[s \ {Pick(s)}]
      BY <1>1, <1>4, <2>2
    <3> QED BY <2>1, <2>2, <3>1
  <2> QED BY <2>1, <2>2
<1> HIDE DEF grown
<1> QED BY <1>3, <1>4 DEF Approximates

\* Hence for the sets of every size.
LEMMA SumApproximated ==
  ASSUME NEW S, IsFiniteSet(S), NEW g, \A r \in S : g[r] \in Nat, NEW n \in Nat
  PROVE  \E f : Approximates(f, g, S, n)
<1> DEFINE Out == {m \in Nat : ~ \E f : Approximates(f, g, S, m)}
<1> SUFFICES ASSUME Out # {} PROVE FALSE
  OBVIOUS
<1>1. PICK m \in Out : \A q \in Out : <<q, m>> \notin OpToRel(<, Nat)
  BY WFMin, NatLessThanWellFounded, Zenon
<1>2. \A q \in Out : ~ (q < m)
  BY <1>1, Zenon DEF OpToRel
<1>3. CASE m = 0
  <2>1. \A s \in SUBSET S : Cardinality(s) <= 0 => s = {}
    BY FS_Subset, FS_EmptySet, FS_CardinalityType
  <2>2. Approximates([s \in SUBSET S |-> 0], g, S, 0)
    BY <2>1 DEF Approximates
  <2> QED BY <1>3, <2>2
<1>4. CASE m # 0
  <2>1. m - 1 \in Nat /\ m - 1 < m /\ m - 1 + 1 = m
    BY <1>4
  <2>2. PICK f : Approximates(f, g, S, m - 1)
    BY <1>2, <2>1
  <2>3. \E h : Approximates(h, g, S, m)
    BY <2>1, <2>2, SumGrows
  <2> QED BY <2>3
<1> QED BY <1>3, <1>4

\* There is a function that adds up, and the sum is its value on the whole set.
LEMMA SumDefined ==
  ASSUME NEW S, IsFiniteSet(S), NEW g, \A r \in S : g[r] \in Nat
  PROVE  \E f \in [SUBSET S -> Nat] : AddsUp(f, g, S) /\ SumOf(g, S) = f[S]
<1>1. Cardinality(S) \in Nat
  BY FS_CardinalityType
<1>2. PICK f : Approximates(f, g, S, Cardinality(S))
  BY <1>1, SumApproximated
<1>3. AddsUp(f, g, S)
  BY <1>2, FS_Subset DEF Approximates, AddsUp
<1> DEFINE h == CHOOSE h : AddsUp(h, g, S)
<1>4. AddsUp(h, g, S) /\ SumOf(g, S) = h[S]
  BY <1>3, SumUnfolds
<1>5. ASSUME NEW d, AddsUp(d, g, S) PROVE d \in [SUBSET S -> Nat]
  <2> DEFINE Out == {s \in SUBSET S : d[s] \notin Nat}
  <2>1. d = [s \in SUBSET S |-> d[s]]
    BY <1>5 DEF AddsUp
  <2> SUFFICES ASSUME Out # {} PROVE FALSE
    BY <2>1
  <2>2. PICK s \in Out : \A U \in Out : U \subseteq s => U = s
    <3>1. Out \subseteq SUBSET S
      OBVIOUS
    <3> HIDE DEF Out
    <3> QED BY <3>1, SmallestSet
  <2>3. d[s] = IF s = {} THEN 0 ELSE g[Pick(s)] + d[s \ {Pick(s)}]
    BY <1>5 DEF AddsUp
  <2>4. s # {}
    BY <2>3
  <2>5. Pick(s) \in s /\ s \ {Pick(s)} \in SUBSET S
    BY <2>4, PickIn
  <2>6. d[s \ {Pick(s)}] \in Nat
    BY <2>2, <2>5
  <2> QED BY <2>3, <2>4, <2>5, <2>6
<1> HIDE DEF h
<1> QED BY <1>4, <1>5

\* Two sums of the same amounts agree, whatever larger set each was begun for.
LEMMA SumsAgree ==
  ASSUME NEW S, IsFiniteSet(S), NEW R, S \subseteq R, NEW g, NEW d, \A r \in S : g[r] = d[r],
         NEW f, NEW h, AddsUp(f, g, S), AddsUp(h, d, R)
  PROVE  f[S] = h[S]
<1> DEFINE Out == {s \in SUBSET S : f[s] # h[s]}
<1> SUFFICES ASSUME Out # {} PROVE FALSE
  OBVIOUS
<1>1. PICK s \in Out : \A U \in Out : U \subseteq s => U = s
  <2>1. Out \subseteq SUBSET S
    OBVIOUS
  <2> HIDE DEF Out
  <2> QED BY <2>1, SmallestSet
<1>2. s \in SUBSET R
  OBVIOUS
<1>3. f[s] = IF s = {} THEN 0 ELSE g[Pick(s)] + f[s \ {Pick(s)}]
  BY DEF AddsUp
<1>4. h[s] = IF s = {} THEN 0 ELSE d[Pick(s)] + h[s \ {Pick(s)}]
  BY <1>2 DEF AddsUp
<1>5. s # {}
  BY <1>3, <1>4
<1>6. Pick(s) \in s /\ s \ {Pick(s)} \in SUBSET S
  BY <1>5, PickIn
<1>7. f[s \ {Pick(s)}] = h[s \ {Pick(s)}]
  BY <1>1, <1>6
<1> QED BY <1>3, <1>4, <1>5, <1>6, <1>7

\* The order in which elements are taken does not matter.
LEMMA AnyFirst ==
  ASSUME NEW S, IsFiniteSet(S), NEW g, \A r \in S : g[r] \in Nat,
         NEW f \in [SUBSET S -> Nat], AddsUp(f, g, S), NEW x \in S
  PROVE  f[S] = g[x] + f[S \ {x}]
<1> DEFINE Out == {s \in SUBSET S : \E y \in s : f[s] # g[y] + f[s \ {y}]}
<1> SUFFICES ASSUME Out # {} PROVE FALSE
  OBVIOUS
<1>1. PICK s \in Out : \A U \in Out : U \subseteq s => U = s
  <2>1. Out \subseteq SUBSET S
    OBVIOUS
  <2> HIDE DEF Out
  <2> QED BY <2>1, SmallestSet
<1>2. PICK y \in s : f[s] # g[y] + f[s \ {y}]
  OBVIOUS
<1> DEFINE p == Pick(s)
<1>3. p \in s
  BY PickIn
<1>4. f[s] = g[p] + f[s \ {p}]
  BY <1>3 DEF AddsUp
<1> HIDE DEF p
<1>5. p # y
  BY <1>2, <1>4
<1>6. \A t \in SUBSET s : t # s => \A z \in t : f[t] = g[z] + f[t \ {z}]
  BY <1>1
<1>7. /\ f[s \ {p}] = g[y] + f[(s \ {p}) \ {y}]
      /\ f[s \ {y}] = g[p] + f[(s \ {y}) \ {p}]
  <2>1. s \ {p} # s /\ s \ {y} # s /\ y \in s \ {p} /\ p \in s \ {y}
    BY <1>3, <1>5
  <2> QED BY <1>6, <2>1
<1>8. (s \ {p}) \ {y} = (s \ {y}) \ {p}
  OBVIOUS
<1>9. /\ g[p] \in Nat /\ g[y] \in Nat
      /\ f[(s \ {y}) \ {p}] \in Nat /\ f[s \ {p}] \in Nat /\ f[s \ {y}] \in Nat
  BY <1>3
<1>10. f[s] = g[p] + (g[y] + f[(s \ {y}) \ {p}])
  BY <1>4, <1>7, <1>8
<1>11. f[s] = g[y] + f[s \ {y}]
  BY <1>7, <1>9, <1>10
<1> QED BY <1>2, <1>11

-----------------------------------------------------------------------------
\* What the proofs use of sums: nothing but these.
LEMMA SumNat ==
  ASSUME NEW S, IsFiniteSet(S), NEW g, \A r \in S : g[r] \in Nat
  PROVE  SumOf(g, S) \in Nat
<1>1. PICK f \in [SUBSET S -> Nat] : SumOf(g, S) = f[S]
  BY SumDefined
<1> QED BY <1>1

\* Nothing adds up to 0.
LEMMA SumEmpty == ASSUME NEW g PROVE SumOf(g, {}) = 0
<1>1. PICK f : AddsUp(f, g, {}) /\ SumOf(g, {}) = f[{}]
  BY SumDefined, FS_EmptySet
<1> QED BY <1>1 DEF AddsUp

\* Equal amounts, equal sums.
LEMMA SumSame ==
  ASSUME NEW S, IsFiniteSet(S), NEW g, NEW d, \A r \in S : g[r] \in Nat /\ g[r] = d[r]
  PROVE  SumOf(g, S) = SumOf(d, S)
<1>1. PICK f : AddsUp(f, g, S) /\ SumOf(g, S) = f[S]
  BY SumDefined
<1>2. PICK h : AddsUp(h, d, S) /\ SumOf(d, S) = h[S]
  BY SumDefined
<1> QED BY <1>1, <1>2, SumsAgree

\* Any element can be taken out of a sum.
LEMMA SumWithout ==
  ASSUME NEW S, IsFiniteSet(S), NEW g, \A r \in S : g[r] \in Nat, NEW x \in S
  PROVE  SumOf(g, S) = g[x] + SumOf(g, S \ {x})
<1>1. PICK f \in [SUBSET S -> Nat] : AddsUp(f, g, S) /\ SumOf(g, S) = f[S]
  BY SumDefined
<1>2. IsFiniteSet(S \ {x})
  BY FS_RemoveElement
<1>3. PICK h : AddsUp(h, g, S \ {x}) /\ SumOf(g, S \ {x}) = h[S \ {x}]
  BY <1>2, SumDefined
<1>4. h[S \ {x}] = f[S \ {x}]
  BY <1>1, <1>2, <1>3, SumsAgree
<1>5. f[S] = g[x] + f[S \ {x}]
  BY <1>1, AnyFirst
<1> QED BY <1>1, <1>3, <1>4, <1>5

\* Any new element can be added to a sum.
LEMMA SumWith ==
  ASSUME NEW S, IsFiniteSet(S), NEW x, x \notin S, NEW g, \A r \in S \cup {x} : g[r] \in Nat
  PROVE  SumOf(g, S \cup {x}) = g[x] + SumOf(g, S)
<1>1. IsFiniteSet(S \cup {x}) /\ (S \cup {x}) \ {x} = S
  BY FS_AddElement
<1> QED BY <1>1, SumWithout

\* Larger amounts, larger sum.
LEMMA SumAtMost ==
  ASSUME NEW S, IsFiniteSet(S), NEW g, NEW d,
         \A r \in S : g[r] \in Nat /\ d[r] \in Nat /\ g[r] <= d[r]
  PROVE  SumOf(g, S) <= SumOf(d, S)
<1> DEFINE Out == {s \in SUBSET S : ~(SumOf(g, s) <= SumOf(d, s))}
<1> SUFFICES ASSUME Out # {} PROVE FALSE
  OBVIOUS
<1>1. PICK s \in Out : \A U \in Out : U \subseteq s => U = s
  <2>1. Out \subseteq SUBSET S
    OBVIOUS
  <2> HIDE DEF Out
  <2> QED BY <2>1, SmallestSet
<1>2. IsFiniteSet(s) /\ \A x : IsFiniteSet(s \ {x})
  BY FS_Subset, FS_RemoveElement
<1>3. s # {}
  BY SumEmpty
<1>4. PICK x \in s : TRUE
  BY <1>3
<1>5. SumOf(g, s) = g[x] + SumOf(g, s \ {x}) /\ SumOf(d, s) = d[x] + SumOf(d, s \ {x})
  BY <1>2, SumWithout
<1>6. SumOf(g, s \ {x}) <= SumOf(d, s \ {x})
  BY <1>1
<1>7. SumOf(g, s \ {x}) \in Nat /\ SumOf(d, s \ {x}) \in Nat
  BY <1>2, SumNat
<1> QED BY <1>5, <1>6, <1>7

-----------------------------------------------------------------------------
(***************************************************************************)
(* The ledger by itself.  LedgerInv is its inductive invariant: the types, *)
(* and a usage row exactly for a settled reservation.                      *)
(***************************************************************************)
\* A warning flag is a Boolean, whatever the balance adds up to.
LEMMA WarnAtBoolean ==
  ASSUME NEW st, NEW am PROVE WarnAt(st, am) \in BOOLEAN
BY DEF WarnAt, AboveIf

\* The same of the next state.
LEMMA WarnAtPrimeBoolean == WarnAt(state, amount)' \in BOOLEAN
BY DEF WarnAt, AboveIf

\* A step that announces keeps the flag and the count of warnings typed.
LEMMA AnnounceTyped ==
  ASSUME NEW before, NEW st, NEW am, warnings \in Nat, Announce(before, st, am)
  PROVE  latch' \in BOOLEAN /\ warnings' \in Nat
BY WarnAtBoolean DEF Announce

LedgerInv == LedgerTypeOK /\ UsageReplacesReservation

-----------------------------------------------------------------------------
\* An empty ledger is in order.
LEMMA InitLedgerInv == LedgerInit => LedgerInv
<1> SUFFICES ASSUME LedgerInit PROVE LedgerInv
  OBVIOUS
<1>1. LedgerTypeOK
  BY DEF LedgerInit, LedgerTypeOK
<1>2. UsageReplacesReservation
  BY DEF LedgerInit, UsageReplacesReservation
<1> QED BY <1>1, <1>2 DEF LedgerInv

\* One attempt reserved: its row was not there, hence had no usage either.
LEMMA AssignLedgerInv ==
  ASSUME LedgerConstants, LedgerInv, NEW r \in Resv, NEW a \in Estimates, Assign(r, a)
  PROVE  LedgerInv'
<1> DEFINE st == [state EXCEPT ![r] = "reserved"]
           am == [amount EXCEPT ![r] = a]
<1>1. a \in Nat
  BY DEF LedgerConstants
<1>2. latch' \in BOOLEAN /\ warnings' \in Nat
  <2>1. Announce(latch, st, am) /\ warnings \in Nat
    BY DEF Assign, LedgerInv, LedgerTypeOK
  <2> HIDE DEF st, am
  <2> QED BY <2>1, AnnounceTyped
<1>3. LedgerTypeOK'
  BY <1>1, <1>2 DEF LedgerInv, LedgerTypeOK, Assign
<1>4. UsageReplacesReservation'
  BY DEF LedgerInv, LedgerTypeOK, UsageReplacesReservation, Assign
<1> QED BY <1>3, <1>4 DEF LedgerInv

\* A fallback gives back only what was still reserved: a settled source keeps
\* its state, and its usage with it.
LEMMA FallbackLedgerInv ==
  ASSUME LedgerConstants, LedgerInv, NEW s \in Resv, NEW r \in Resv, NEW a \in Estimates, Fallback(s, r, a)
  PROVE  LedgerInv'
<1> DEFINE freed == IF state[s] = "reserved" THEN [state EXCEPT ![s] = "released"] ELSE state
           st == [freed EXCEPT ![r] = "reserved"]
           am == [amount EXCEPT ![r] = a]
           before == IF freed = state THEN latch ELSE WarnAt(freed, amount)
<1>1. a \in Nat
  BY DEF LedgerConstants
<1>2. latch' \in BOOLEAN /\ warnings' \in Nat
  <2>1. Announce(before, st, am) /\ warnings \in Nat
    BY DEF Fallback, LedgerInv, LedgerTypeOK
  <2> HIDE DEF st, am, freed, before
  <2> QED BY <2>1, AnnounceTyped
<1>3. s # r /\ state' = st /\ amount' = am /\ UNCHANGED <<usage, cost>>
  BY DEF Fallback
<1>4. LedgerTypeOK'
  BY <1>1, <1>2, <1>3 DEF LedgerInv, LedgerTypeOK
<1>5. UsageReplacesReservation'
  BY <1>3 DEF LedgerInv, LedgerTypeOK, UsageReplacesReservation, Fallback
<1> QED BY <1>4, <1>5 DEF LedgerInv

\* A batch reserves rows that were not there: the children and the lead.
LEMMA AssignBatchLedgerInv ==
  ASSUME LedgerConstants, LedgerInv, NEW lead \in Resv, NEW S \in SUBSET Resv, NEW a \in [S -> Estimates],
         AssignBatch(lead, a)
  PROVE  LedgerInv'
<1> DEFINE first == [state EXCEPT ![lead] = "reserved"]
           st == [r \in Resv |-> IF r \in DOMAIN a THEN "reserved" ELSE first[r]]
           am == [r \in Resv |-> CASE r = lead -> Allowance
                                   [] r \in DOMAIN a -> a[r]
                                   [] OTHER -> amount[r]]
<1>1. Allowance \in Nat /\ \A r \in S : a[r] \in Nat
  BY DEF LedgerConstants
<1>2. latch' \in BOOLEAN /\ warnings' \in Nat
  <2>1. Announce(WarnAt(first, am), st, am) /\ warnings \in Nat
    BY DEF AssignBatch, LedgerInv, LedgerTypeOK
  <2> HIDE DEF first, st, am
  <2> QED BY <2>1, AnnounceTyped
<1>3. /\ state' = st /\ amount' = am /\ UNCHANGED <<usage, cost>>
      /\ DOMAIN a = S /\ state[lead] = "none" /\ \A r \in S : state[r] = "none"
  BY DEF AssignBatch
<1>4. st \in [Resv -> {"none", "reserved", "settled", "released"}]
  BY DEF LedgerInv, LedgerTypeOK
<1>5. am \in [Resv -> Nat]
  <2> SUFFICES ASSUME NEW r \in Resv PROVE am[r] \in Nat
    OBVIOUS
  <2>1. CASE r = lead
    BY <1>1, <2>1
  <2>2. CASE r # lead /\ r \in S
    BY <1>1, <1>3, <2>2
  <2>3. CASE r # lead /\ r \notin S
    BY <1>3, <2>3 DEF LedgerInv, LedgerTypeOK
  <2> QED BY <2>1, <2>2, <2>3
<1>6. LedgerTypeOK'
  BY <1>2, <1>3, <1>4, <1>5 DEF LedgerInv, LedgerTypeOK
<1>7. UsageReplacesReservation'
  BY <1>3 DEF LedgerInv, LedgerTypeOK, UsageReplacesReservation
<1> QED BY <1>6, <1>7 DEF LedgerInv

\* A release closes a reservation that had no usage.
LEMMA ReleaseLedgerInv ==
  ASSUME LedgerInv, NEW r \in Resv, Release(r)
  PROVE  LedgerInv'
BY WarnAtPrimeBoolean DEF LedgerInv, LedgerTypeOK, UsageReplacesReservation, Release

\* A settlement books the usage and closes the reservation together; a report
\* that replaces one finds the reservation settled.
LEMMA SettleLedgerInv ==
  ASSUME LedgerConstants, LedgerInv, NEW r \in Resv, NEW c \in Costs, NEW authority \in Authority,
         Settle(r, c, authority)
  PROVE  LedgerInv'
<1>1. c \in Nat /\ authority # "none"
  BY DEF LedgerConstants, Authority
<1>2. CASE state[r] = "reserved" /\ usage[r] = "none" /\ state' = SettledState(r)
  BY <1>1, <1>2, WarnAtPrimeBoolean
     DEF LedgerInv, LedgerTypeOK, UsageReplacesReservation, Settle, SettledState
<1>3. CASE usage[r] # "none" /\ UNCHANGED state
  BY <1>1, <1>3, WarnAtPrimeBoolean DEF LedgerInv, LedgerTypeOK, UsageReplacesReservation, Settle
<1> QED BY <1>2, <1>3 DEF Settle

\* The recovery changes reservations that are open, which have no usage.
LEMMA RecoverLedgerInv ==
  ASSUME LedgerInv, NEW T \in SUBSET Task, ReleaseOrphaned(T)
  PROVE  LedgerInv'
BY DEF LedgerInv, LedgerTypeOK, UsageReplacesReservation, ReleaseOrphaned

\* Every step of the ledger keeps it in order.
LEMMA NextLedgerInv == LedgerConstants /\ LedgerInv /\ [LedgerNext]_ledger => LedgerInv'
<1> SUFFICES ASSUME LedgerConstants, LedgerInv, [LedgerNext]_ledger PROVE LedgerInv'
  OBVIOUS
<1>1. ASSUME NEW r \in Resv, NEW a \in Estimates, Assign(r, a) PROVE LedgerInv'
  BY <1>1, AssignLedgerInv
<1>2. ASSUME NEW r \in Resv, NEW a \in Estimates, NEW s \in Resv, Fallback(s, r, a)
      PROVE LedgerInv'
  BY <1>2, FallbackLedgerInv
<1>3. ASSUME NEW r \in Resv, Release(r) PROVE LedgerInv'
  BY <1>3, ReleaseLedgerInv
<1>4. ASSUME NEW r \in Resv, NEW c \in Costs, NEW authority \in Authority,
             Settle(r, c, authority)
      PROVE LedgerInv'
  BY <1>4, SettleLedgerInv
<1>5. ASSUME NEW lead \in Resv, NEW S \in SUBSET Resv, NEW a \in [S -> Estimates],
             AssignBatch(lead, a)
      PROVE LedgerInv'
  BY <1>5, AssignBatchLedgerInv
<1>6. ASSUME NEW T \in SUBSET Task, ReleaseOrphaned(T) PROVE LedgerInv'
  BY <1>6, RecoverLedgerInv
<1>7. CASE UNCHANGED ledger
  BY <1>7 DEF ledger, LedgerInv, LedgerTypeOK, UsageReplacesReservation
<1> QED BY <1>1, <1>2, <1>3, <1>4, <1>5, <1>6, <1>7 DEF LedgerNext

-----------------------------------------------------------------------------
\* In every reachable state the tables are typed and a usage row stands
\* exactly for a settled reservation.
THEOREM LedgerInvariance == LedgerSpec => []LedgerInv
<1>1. LedgerInit => LedgerInv
  BY InitLedgerInv, ConstantsOfLedger
<1>2. LedgerInv /\ [LedgerNext]_ledger => LedgerInv'
  BY NextLedgerInv, ConstantsOfLedger
<1> QED BY <1>1, <1>2, PTL DEF LedgerSpec

\* Type correctness, over batches, fallbacks, settlements and recoveries.
THEOREM LedgerTyped == LedgerSpec => []LedgerTypeOK
<1>1. LedgerInv => LedgerTypeOK
  BY DEF LedgerInv
<1> QED BY <1>1, LedgerInvariance, PTL

\* settle and the recovery never leave an attempt counted twice: money is
\* held or booked, not both, and a booked cost belongs to a settled row.
THEOREM NothingCountedTwice == LedgerSpec => []UsageReplacesReservation
<1>1. LedgerInv => UsageReplacesReservation
  BY DEF LedgerInv
<1> QED BY <1>1, LedgerInvariance, PTL

\* What one step may do to one reservation.
BookImproves(r) ==
  /\ usage[r] # "none" =>
       \/ usage'[r] = usage[r] /\ cost'[r] = cost[r]
       \/ /\ usage[r] # "authoritative"
          /\ \/ usage'[r] = "authoritative"
             \/ usage'[r] = "conservative" /\ cost'[r] >= cost[r]
  /\ state[r] \in {"settled", "released"} => state'[r] = state[r]

\* What a settlement does to one reservation: a better cost, or the first.
LEMMA SettleImproves ==
  ASSUME LedgerInv, NEW r \in Resv, NEW c \in Costs, NEW authority \in Authority,
         Settle(r, c, authority), NEW x \in Resv
  PROVE  BookImproves(x)
<1>1. CASE x # r
  BY <1>1 DEF LedgerInv, LedgerTypeOK, Settle, SettledState, BookImproves
<1>2. CASE x = r /\ usage[r] = "none"
  BY <1>2 DEF LedgerInv, LedgerTypeOK, UsageReplacesReservation, Settle, SettledState, BookImproves
<1>3. CASE x = r /\ usage[r] # "none"
  <2>1. Replaces(r, c, authority) /\ UNCHANGED state
    BY <1>3 DEF Settle
  <2>2. usage'[r] = authority /\ cost'[r] = c
    BY DEF LedgerInv, LedgerTypeOK, Settle
  <2> QED BY <1>3, <2>1, <2>2 DEF Replaces, BookImproves
<1> QED BY <1>1, <1>2, <1>3

\* Every step of the ledger, the recovery's direct write included.
LEMMA StepImproves == LedgerInv /\ [LedgerNext]_ledger => \A x \in Resv : BookImproves(x)
<1> SUFFICES ASSUME LedgerInv, [LedgerNext]_ledger, NEW x \in Resv PROVE BookImproves(x)
  OBVIOUS
<1>1. ASSUME NEW r \in Resv, NEW a \in Estimates, Assign(r, a) PROVE BookImproves(x)
  BY <1>1 DEF LedgerInv, LedgerTypeOK, Assign, BookImproves
<1>2. ASSUME NEW r \in Resv, NEW a \in Estimates, NEW s \in Resv, Fallback(s, r, a)
      PROVE BookImproves(x)
  BY <1>2 DEF LedgerInv, LedgerTypeOK, Fallback, BookImproves
<1>3. ASSUME NEW r \in Resv, Release(r) PROVE BookImproves(x)
  BY <1>3 DEF LedgerInv, LedgerTypeOK, Release, BookImproves
<1>4. ASSUME NEW r \in Resv, NEW c \in Costs, NEW authority \in Authority,
             Settle(r, c, authority)
      PROVE BookImproves(x)
  BY <1>4, SettleImproves
<1>5. ASSUME NEW lead \in Resv, NEW S \in SUBSET Resv, NEW a \in [S -> Estimates],
             AssignBatch(lead, a)
      PROVE BookImproves(x)
  BY <1>5 DEF LedgerInv, LedgerTypeOK, AssignBatch, BookImproves
<1>6. ASSUME NEW T \in SUBSET Task, ReleaseOrphaned(T) PROVE BookImproves(x)
  BY <1>6 DEF LedgerInv, LedgerTypeOK, ReleaseOrphaned, BookImproves
<1>7. CASE UNCHANGED ledger
  BY <1>7 DEF ledger, BookImproves
<1> QED BY <1>1, <1>2, <1>3, <1>4, <1>5, <1>6, <1>7 DEF LedgerNext

\* A provider's own figure is final, estimates never go down on a retry, and
\* no later operation takes back what was settled or released.
THEOREM BooksOnlyImprove == LedgerSpec => BookedOnlyImproves
<1>1. LedgerInv /\ [LedgerNext]_ledger => [\A r \in Resv :
       /\ usage[r] # "none" =>
            \/ usage'[r] = usage[r] /\ cost'[r] = cost[r]
            \/ /\ usage[r] # "authoritative"
               /\ \/ usage'[r] = "authoritative"
                  \/ usage'[r] = "conservative" /\ cost'[r] >= cost[r]
       /\ state[r] \in {"settled", "released"} => state'[r] = state[r]]_ledger
  BY StepImproves DEF BookImproves
<1> QED BY <1>1, LedgerInvariance, PTL DEF LedgerSpec, BookedOnlyImproves

-----------------------------------------------------------------------------
\* What the reservations take from the balance, each by itself.
Charges(st, am) == [r \in Resv |-> Charge(st, am, r)]

\* A reservation takes a natural number from the balance.
LEMMA ChargeNat ==
  ASSUME LedgerInv, NEW st, NEW am \in [Resv -> Nat], NEW r \in Resv
  PROVE  Charge(st, am, r) \in Nat
BY DEF Charge, LedgerInv, LedgerTypeOK

\* The committed money of some reservations is the sum of their charges.
LEMMA CommittedIsSum ==
  ASSUME NEW st, NEW am, NEW S \in SUBSET Resv
  PROVE  CommittedOf(st, am, S) = SumOf(Charges(st, am), S)
<1> DEFINE g == Charges(st, am)
           P(f) == f = [s \in SUBSET S |-> IF s = {} THEN 0
                                           ELSE Charge(st, am, Pick(s)) + f[s \ {Pick(s)}]]
<1>1. CommittedOf(st, am, S) = (CHOOSE f : P(f))[S]
  BY DEF CommittedOf, MapThenSumSet, MapThenFoldSet, Pick
<1>2. ASSUME NEW s \in SUBSET S, s # {} PROVE g[Pick(s)] = Charge(st, am, Pick(s))
  BY <1>2, PickIn DEF Charges
<1>3. \A f : P(f) <=> AddsUp(f, g, S)
  <2> HIDE DEF g
  <2> QED BY <1>2 DEF AddsUp
<1>4. (CHOOSE f : P(f)) = (CHOOSE f : AddsUp(f, g, S))
  <2> HIDE DEF P, g
  <2> QED BY <1>3
<1> QED BY <1>1, <1>4, SumUnfolds

\* The same of the next state, of a step that books nothing.
LEMMA CommittedNextIsSum ==
  ASSUME usage' = usage, cost' = cost, NEW S \in SUBSET Resv
  PROVE  CommittedOf(state, amount, S)' = SumOf(Charges(state', amount'), S)
<1> DEFINE g == Charges(state', amount')
           P(f) == f = [s \in SUBSET S |-> IF s = {} THEN 0
                                           ELSE Charge(state', amount', Pick(s)) + f[s \ {Pick(s)}]]
           Q(f) == f = [s \in SUBSET S |-> IF s = {} THEN 0
                                           ELSE Charge(state, amount, Pick(s))' + f[s \ {Pick(s)}]]
<1>1. CommittedOf(state, amount, S)' = (CHOOSE f : Q(f))[S]
  BY DEF CommittedOf, MapThenSumSet, MapThenFoldSet, Pick
<1>2. \A x : Charge(state, amount, x)' = Charge(state', amount', x)
  BY DEF Charge
<1>3. ASSUME NEW s \in SUBSET S, s # {} PROVE g[Pick(s)] = Charge(state, amount, Pick(s))'
  BY <1>2, <1>3, PickIn DEF Charges
<1>4. \A f : Q(f) <=> AddsUp(f, g, S)
  <2> HIDE DEF g
  <2> QED BY <1>3 DEF AddsUp
<1>5. (CHOOSE f : Q(f)) = (CHOOSE f : AddsUp(f, g, S))
  <2> HIDE DEF Q, g
  <2> QED BY <1>4
<1> QED BY <1>1, <1>5, SumUnfolds

\* The reservations of a task, and what they commit.
Of(t) == {r \in Resv : TaskOf[r] = t}

\* What a step that books nothing does to the balance of the run or of a task:
\* it commits no more there than before, or it passed the gate there.
NoMore(S) == CommittedOf(state, amount, S)' <= CommittedOf(state, amount, S)
Gated(S, limit) == CommittedOf(state, amount, S)' <= limit

\* Closing reservations commits no more.
LEMMA ClosingCommitsNoMore ==
  ASSUME LedgerConstants, LedgerInv, LedgerInv', usage' = usage, cost' = cost,
         NEW S \in SUBSET Resv,
         \A r \in S : amount'[r] = amount[r] /\ (state'[r] = state[r] \/ state'[r] # "reserved")
  PROVE  NoMore(S)
<1> DEFINE g == Charges(state', amount')
           d == Charges(state, amount)
<1>1. IsFiniteSet(S)
  BY FS_Subset DEF LedgerConstants
<1>2. amount \in [Resv -> Nat] /\ amount' \in [Resv -> Nat]
  BY DEF LedgerInv, LedgerTypeOK
<1>3. \A r \in S : g[r] \in Nat /\ d[r] \in Nat /\ g[r] <= d[r]
  <2> TAKE r \in S
  <2>1. g[r] \in Nat /\ d[r] \in Nat
    BY <1>2, ChargeNat DEF Charges
  <2>2. g[r] = Charge(state', amount', r) /\ d[r] = Charge(state, amount, r)
    BY DEF Charges
  <2>3. amount[r] \in Nat /\ cost[r] \in Nat
    BY DEF LedgerInv, LedgerTypeOK
  <2>4. g[r] <= d[r]
    BY <2>2, <2>3 DEF Charge
  <2> QED BY <2>1, <2>4
<1>4. SumOf(g, S) <= SumOf(d, S)
  <2> HIDE DEF g, d
  <2> QED BY <1>1, <1>3, SumAtMost
<1> QED BY <1>4, CommittedIsSum, CommittedNextIsSum DEF NoMore

\* The gate of a reservation looked at the balance the step leaves.
LEMMA GatedCommits ==
  ASSUME usage' = usage, cost' = cost, NEW A \in SUBSET Resv, Fits(state', amount', A)
  PROVE  /\ Limit # NoLimit => Gated(Resv, Limit)
         /\ \A t \in {TaskOf[r] : r \in A} \cap Task :
              TaskLimit[t] # NoLimit => Gated(Of(t), TaskLimit[t])
<1>1. ASSUME NEW S \in SUBSET Resv
      PROVE  CommittedOf(state, amount, S)' = CommittedOf(state', amount', S)
  BY CommittedIsSum, CommittedNextIsSum
<1>2. \A t : Of(t) \in SUBSET Resv
  BY DEF Of
<1>3. Limit # NoLimit => CommittedOf(state', amount', Resv) <= Limit
  BY DEF Fits, Committed
<1>4. \A t \in {TaskOf[r] : r \in A} \cap Task :
        TaskLimit[t] # NoLimit => CommittedOf(state', amount', Of(t)) <= TaskLimit[t]
  BY DEF Fits, TaskCommitted, Of
<1> QED BY <1>1, <1>2, <1>3, <1>4 DEF Gated

\* A step that reserves rows of A and closes others: where it commits more, the
\* gate held.
LEMMA ReservingIsGated ==
  ASSUME LedgerConstants, LedgerInv, LedgerInv', usage' = usage, cost' = cost,
         NEW A \in SUBSET Resv, Fits(state', amount', A),
         \A r \in Resv \ A :
           amount'[r] = amount[r] /\ (state'[r] = state[r] \/ state'[r] # "reserved")
  PROVE  /\ Limit # NoLimit => Gated(Resv, Limit)
         /\ \A t \in Task : NoMore(Of(t)) \/ (TaskLimit[t] # NoLimit => Gated(Of(t), TaskLimit[t]))
<1>1. /\ Limit # NoLimit => Gated(Resv, Limit)
      /\ \A t \in {TaskOf[r] : r \in A} \cap Task :
           TaskLimit[t] # NoLimit => Gated(Of(t), TaskLimit[t])
  BY GatedCommits
<1>2. ASSUME NEW t \in Task, t \notin {TaskOf[r] : r \in A} PROVE NoMore(Of(t))
  <2>1. Of(t) \in SUBSET Resv /\ \A r \in Of(t) : r \in Resv \ A
    BY <1>2 DEF Of
  <2> QED BY <2>1, ClosingCommitsNoMore
<1> QED BY <1>1, <1>2

\* Where a step that books nothing commits more, it passed the gate there.
LEMMA MoreOnlyGated ==
  ASSUME LedgerConstants, LedgerInv, LedgerInv', [LedgerNext]_ledger, usage' = usage, cost' = cost
  PROVE  /\ NoMore(Resv) \/ (Limit # NoLimit => Gated(Resv, Limit))
         /\ \A t \in Task : NoMore(Of(t)) \/ (TaskLimit[t] # NoLimit => Gated(Of(t), TaskLimit[t]))
<1>1. ASSUME \A r \in Resv :
               amount'[r] = amount[r] /\ (state'[r] = state[r] \/ state'[r] # "reserved")
      PROVE  NoMore(Resv) /\ \A t \in Task : NoMore(Of(t))
  <2>1. \A t : Of(t) \in SUBSET Resv
    BY DEF Of
  <2> QED BY <1>1, <2>1, ClosingCommitsNoMore
<1>2. ASSUME NEW r \in Resv, NEW a \in Estimates, Assign(r, a) PROVE Fits(state', amount', {r})
  BY <1>2 DEF Assign
<1>3. ASSUME NEW r \in Resv, NEW a \in Estimates, Assign(r, a)
      PROVE  \A x \in Resv \ {r} : amount'[x] = amount[x] /\ state'[x] = state[x]
  BY <1>3 DEF Assign, LedgerInv, LedgerTypeOK
<1>4. ASSUME NEW r \in Resv, NEW a \in Estimates, NEW s \in Resv, Fallback(s, r, a)
      PROVE  /\ Fits(state', amount', {r})
             /\ \A x \in Resv \ {r} :
                  amount'[x] = amount[x] /\ (state'[x] = state[x] \/ state'[x] # "reserved")
  BY <1>4 DEF Fallback, LedgerInv, LedgerTypeOK
<1>5. ASSUME NEW lead \in Resv, NEW S \in SUBSET Resv, NEW a \in [S -> Estimates],
             AssignBatch(lead, a)
      PROVE  /\ Fits(state', amount', S \cup {lead})
             /\ \A x \in Resv \ (S \cup {lead}) : amount'[x] = amount[x] /\ state'[x] = state[x]
  <2>1. DOMAIN a = S
    OBVIOUS
  <2>2. Fits(state', amount', DOMAIN a \cup {lead})
    BY <1>5 DEF AssignBatch
  <2>3. \A x \in Resv \ (S \cup {lead}) : amount'[x] = amount[x] /\ state'[x] = state[x]
    BY <1>5, <2>1 DEF AssignBatch, LedgerInv, LedgerTypeOK
  <2> QED BY <2>1, <2>2, <2>3
<1>6. ASSUME \/ \E r \in Resv : Release(r)
             \/ \E r \in Resv, c \in Costs, authority \in Authority : Settle(r, c, authority)
             \/ \E T \in SUBSET Task : ReleaseOrphaned(T)
             \/ UNCHANGED ledger
      PROVE  \A r \in Resv :
               amount'[r] = amount[r] /\ (state'[r] = state[r] \/ state'[r] # "reserved")
  <2>1. ASSUME NEW r \in Resv, Release(r)
        PROVE  \A x \in Resv :
                 amount'[x] = amount[x] /\ (state'[x] = state[x] \/ state'[x] # "reserved")
    BY <2>1 DEF Release, LedgerInv, LedgerTypeOK
  <2>2. ASSUME NEW r \in Resv, NEW c \in Costs, NEW authority \in Authority,
               Settle(r, c, authority)
        PROVE  \A x \in Resv :
                 amount'[x] = amount[x] /\ (state'[x] = state[x] \/ state'[x] # "reserved")
    BY <2>2 DEF Settle, SettledState, LedgerInv, LedgerTypeOK
  <2>3. ASSUME NEW T \in SUBSET Task, ReleaseOrphaned(T)
        PROVE  \A x \in Resv :
                 amount'[x] = amount[x] /\ (state'[x] = state[x] \/ state'[x] # "reserved")
    BY <2>3 DEF ReleaseOrphaned, LedgerInv, LedgerTypeOK
  <2>4. CASE UNCHANGED ledger
    BY <2>4 DEF ledger
  <2> QED BY <1>6, <2>1, <2>2, <2>3, <2>4
<1>7. ASSUME NEW A \in SUBSET Resv, Fits(state', amount', A),
             \A r \in Resv \ A :
               amount'[r] = amount[r] /\ (state'[r] = state[r] \/ state'[r] # "reserved")
      PROVE  /\ Limit # NoLimit => Gated(Resv, Limit)
             /\ \A t \in Task : NoMore(Of(t)) \/ (TaskLimit[t] # NoLimit => Gated(Of(t), TaskLimit[t]))
  BY <1>7, ReservingIsGated
<1>8. CASE \E r \in Resv, a \in Estimates : Assign(r, a) \/ \E s \in Resv : Fallback(s, r, a)
  <2>1. PICK r \in Resv : Fits(state', amount', {r}) /\ \A x \in Resv \ {r} :
               amount'[x] = amount[x] /\ (state'[x] = state[x] \/ state'[x] # "reserved")
    BY <1>2, <1>3, <1>4, <1>8
  <2> QED BY <1>7, <2>1
<1>9. CASE \E lead \in Resv, S \in SUBSET Resv : \E a \in [S -> Estimates] : AssignBatch(lead, a)
  <2>1. PICK lead \in Resv, S \in SUBSET Resv :
          /\ Fits(state', amount', S \cup {lead})
          /\ \A x \in Resv \ (S \cup {lead}) : amount'[x] = amount[x] /\ state'[x] = state[x]
    BY <1>5, <1>9
  <2> QED BY <1>7, <2>1
<1>10. CASE \/ \E r \in Resv : Release(r)
            \/ \E r \in Resv, c \in Costs, authority \in Authority : Settle(r, c, authority)
            \/ \E T \in SUBSET Task : ReleaseOrphaned(T)
            \/ UNCHANGED ledger
  BY <1>1, <1>6, <1>10
<1> QED BY <1>8, <1>9, <1>10 DEF LedgerNext

\* Only what an attempt turned out to cost takes a run or a task past its limit:
\* whatever is assigned, in batches or as a fallback, released or recovered.
THEOREM OnlyCostsTakePast == LedgerSpec => OnlyCostsOvershoot
<1>1. LedgerInv /\ LedgerInv' /\ [LedgerNext]_ledger =>
        [usage' = usage /\ cost' = cost =>
           /\ Limit # NoLimit /\ Committed(state, amount)' > Limit
                => Committed(state, amount)' <= Committed(state, amount)
           /\ \A t \in Task : TaskLimit[t] # NoLimit /\ TaskCommitted(state, amount, t)' > TaskLimit[t]
                => TaskCommitted(state, amount, t)' <= TaskCommitted(state, amount, t)]_ledger
  <2> SUFFICES ASSUME LedgerInv, LedgerInv', [LedgerNext]_ledger, usage' = usage, cost' = cost
               PROVE  /\ Limit # NoLimit /\ Committed(state, amount)' > Limit
                           => Committed(state, amount)' <= Committed(state, amount)
                      /\ \A t \in Task :
                           TaskLimit[t] # NoLimit /\ TaskCommitted(state, amount, t)' > TaskLimit[t]
                             => TaskCommitted(state, amount, t)' <= TaskCommitted(state, amount, t)
    OBVIOUS
  <2>1. /\ Committed(state, amount)' = CommittedOf(state, amount, Resv)'
        /\ Committed(state, amount) = CommittedOf(state, amount, Resv)
        /\ \A t : TaskCommitted(state, amount, t)' = CommittedOf(state, amount, Of(t))'
        /\ \A t : TaskCommitted(state, amount, t) = CommittedOf(state, amount, Of(t))
    BY DEF Committed, TaskCommitted, Of
  <2>2. ASSUME NEW S \in SUBSET Resv PROVE CommittedOf(state, amount, S)' \in Nat
    <3>1. IsFiniteSet(S) /\ amount' \in [Resv -> Nat]
      BY FS_Subset, ConstantsOfLedger DEF LedgerConstants, LedgerInv, LedgerTypeOK
    <3>2. \A r \in S : Charges(state', amount')[r] \in Nat
      BY <3>1, ChargeNat DEF Charges
    <3> QED BY <3>1, <3>2, SumNat, CommittedNextIsSum
  <2>3. /\ Limit \in Nat \cup {NoLimit} /\ \A t \in Task : TaskLimit[t] \in Nat \cup {NoLimit}
        /\ \A t : Of(t) \in SUBSET Resv
    BY ConstantsOfLedger DEF LedgerConstants, Of
  <2>4. /\ NoMore(Resv) \/ (Limit # NoLimit => Gated(Resv, Limit))
        /\ \A t \in Task : NoMore(Of(t)) \/ (TaskLimit[t] # NoLimit => Gated(Of(t), TaskLimit[t]))
    BY MoreOnlyGated, ConstantsOfLedger
  <2>5. Limit # NoLimit /\ Committed(state, amount)' > Limit
          => Committed(state, amount)' <= Committed(state, amount)
    BY <2>1, <2>2, <2>3, <2>4 DEF NoMore, Gated
  <2>6. ASSUME NEW t \in Task, TaskLimit[t] # NoLimit, TaskCommitted(state, amount, t)' > TaskLimit[t]
        PROVE  TaskCommitted(state, amount, t)' <= TaskCommitted(state, amount, t)
    BY <2>1, <2>2, <2>3, <2>4, <2>6 DEF NoMore, Gated
  <2> QED BY <2>5, <2>6
<1> QED BY <1>1, LedgerInvariance, PTL DEF LedgerSpec, OnlyCostsOvershoot

-----------------------------------------------------------------------------
(***************************************************************************)
(* The calls.  IInv says what the rows of the calls and the place of every *)
(* worker have to do with each other.                                      *)
(***************************************************************************)
USE DEF Attempt

CallStatus == {"none", "started", "completed", "rejected", "ambiguous"}
Phase == {"off", "turn", "calling", "returned", "recorded", "direct",
          "parked", "rejected", "ended", "lost"}
Working == {"turn", "calling"}

RowsTyped ==
  /\ call \in [Attempt -> [Key -> CallStatus]]
  /\ sent \in [Attempt -> [Key -> Nat]]
  /\ phase \in [Attempt -> Phase]
  /\ marked \subseteq Attempt \X Who
  /\ state \in [Attempt -> {"none", "reserved", "settled", "released"}]

\* A request that went out has a row, and a row goes out once.
SentHasRow ==
  \A a \in Attempt, k \in Key : sent[a][k] <= 1 /\ (call[a][k] = "none" => sent[a][k] = 0)

\* Children work only under a lead that has not ended its graph.
ChildrenUnderLead ==
  phase[Lead] \notin {"turn", "calling", "returned"} =>
    \A a \in Attempt \ {Lead} : phase[a] \notin Working

\* A finalization that looked for lost calls left none, and the attempt makes
\* no further ones.
MarkedIsOver ==
  \A a \in Attempt, who \in Who :
    <<a, who>> \in marked =>
      /\ alive /\ phase[a] \notin Working \cup {"off"}
      /\ a = Lead => who = "own" /\ phase[a] = "recorded"
      /\ \A k \in Key : call[a][k] # "started"

IInv == RowsTyped /\ SentHasRow /\ ChildrenUnderLead /\ MarkedIsOver

-----------------------------------------------------------------------------
\* The ledger under the calls.

\* A settlement releases nothing.
LEMMA SettleReleasesNothing ==
  ASSUME RowsTyped, NEW a \in Attempt, NEW c, NEW authority, Settle(a, c, authority)
  PROVE  /\ state' \in [Attempt -> {"none", "reserved", "settled", "released"}]
         /\ \A b \in Attempt : state'[b] = "released" => state[b] = "released"
BY DEF RowsTyped, Settle, SettledState

\* Whatever settle_attempt does, it releases nothing.
LEMMA SettlesReleasesNothing ==
  ASSUME RowsTyped, NEW a \in Attempt, SettlesAttempt(a)
  PROVE  /\ state' \in [Attempt -> {"none", "reserved", "settled", "released"}]
         /\ \A b \in Attempt : state'[b] = "released" => state[b] = "released"
<1>1. CASE UNCHANGED ledger
  BY <1>1 DEF ledger, RowsTyped
<1>2. CASE Settle(a, Settlement(a), AuthorityOf(a, FALSE))
  BY <1>2, SettleReleasesNothing
<1> QED BY <1>1, <1>2 DEF SettlesAttempt

\* A release touches one reservation.
LEMMA ReleasesOne ==
  ASSUME RowsTyped, NEW a \in Attempt, ReleasesAttempt(a)
  PROVE  /\ state' \in [Attempt -> {"none", "reserved", "settled", "released"}]
         /\ \A b \in Attempt \ {a} : state'[b] = state[b]
<1>1. CASE UNCHANGED ledger
  BY <1>1 DEF ledger, RowsTyped
<1>2. CASE Release(a)
  BY <1>2 DEF Release, RowsTyped
<1> QED BY <1>1, <1>2 DEF ReleasesAttempt

-----------------------------------------------------------------------------
\* Before the first attempt nothing was sent.
LEMMA InitIInv == Init => IInv
BY AttemptAssumption DEF Init, IInv, RowsTyped, SentHasRow, ChildrenUnderLead, MarkedIsOver, Uncalled,
      LedgerInit, CallStatus, Phase, Working, Who

\* An attempt begins under a lead that is at work.
LEMMA StartsIInv ==
  ASSUME IInv, NEW a \in Attempt, Starts(a) PROVE IInv'
<1> USE AttemptAssumption DEF Starts, Goes, rows, IInv, RowsTyped, Phase, Working
<1>1. RowsTyped'
  BY DEF Assign
<1>2. SentHasRow'
  BY DEF SentHasRow
<1>3. ChildrenUnderLead'
  BY DEF ChildrenUnderLead
<1>4. MarkedIsOver'
  BY DEF MarkedIsOver
<1> QED BY <1>1, <1>2, <1>3, <1>4

\* A request goes out with a row that was not there.
LEMMA CallsIInv ==
  ASSUME IInv, NEW a \in Attempt, NEW k \in Key, Calls(a, k) PROVE IInv'
<1> USE AttemptAssumption DEF Calls, Goes, Set, MayBegin, ledger, IInv, RowsTyped, Phase, Working,
      CallStatus
<1>1. RowsTyped'
  OBVIOUS
<1>2. SentHasRow'
  <2>1. call[a][k] = "none" /\ sent[a][k] = 0
    BY DEF SentHasRow
  <2>2. sent'[a][k] = 1 /\ call'[a][k] = "started"
    BY <2>1
  <2>3. ASSUME NEW b \in Attempt, NEW j \in Key, b # a \/ j # k
        PROVE  sent'[b][j] = sent[b][j] /\ call'[b][j] = call[b][j]
    BY <2>3
  <2>4. ASSUME NEW b \in Attempt, NEW j \in Key
        PROVE  sent'[b][j] <= 1 /\ (call'[b][j] = "none" => sent'[b][j] = 0)
    <3>1. CASE b = a /\ j = k
      BY <2>2, <3>1
    <3>2. CASE b # a \/ j # k
      <4>1. sent'[b][j] = sent[b][j] /\ call'[b][j] = call[b][j]
        BY <2>3, <3>2
      <4>2. sent[b][j] <= 1 /\ (call[b][j] = "none" => sent[b][j] = 0)
        BY DEF SentHasRow
      <4> QED BY <4>1, <4>2
    <3> QED BY <3>1, <3>2
  <2> QED BY <2>4 DEF SentHasRow
<1>3. ChildrenUnderLead'
  BY DEF ChildrenUnderLead
<1>4. MarkedIsOver'
  BY DEF MarkedIsOver
<1> QED BY <1>1, <1>2, <1>3, <1>4

\* A call that comes to an end keeps its row.
LEMMA CallEndsIInv ==
  ASSUME IInv, NEW a \in Attempt, NEW k \in Key, NEW v \in {"completed", "rejected", "ambiguous"},
         NEW to \in {"turn", "returned"}, Goes(a, "calling", to),
         call' = call \/ call' = Set(call, a, k, v),
         UNCHANGED <<ledger, marked, alive, sent>>
  PROVE  IInv'
<1> USE AttemptAssumption DEF Goes, Set, ledger, IInv, RowsTyped, Phase, Working, CallStatus
<1>1. RowsTyped'
  <2>1. CASE call' = call
    BY <2>1
  <2>2. CASE call' = Set(call, a, k, v)
    <3>1. call' \in [Attempt -> [Key -> CallStatus]]
      BY <2>2
    <3>2. phase' \in [Attempt -> Phase]
      OBVIOUS
    <3> QED BY <3>1, <3>2
  <2> QED BY <2>1, <2>2
<1>2. SentHasRow'
  <2>1. ASSUME NEW b \in Attempt, NEW j \in Key
        PROVE  call'[b][j] = "none" => call[b][j] = "none"
    <3>1. CASE call' = call
      BY <3>1
    <3>2. CASE call' = Set(call, a, k, v)
      <4>1. call'[b][j] = IF b = a /\ j = k THEN v ELSE call[b][j]
        BY <3>2
      <4> QED BY <4>1
    <3> QED BY <3>1, <3>2
  <2>2. sent' = sent
    OBVIOUS
  <2>3. ASSUME NEW b \in Attempt, NEW j \in Key
        PROVE  sent[b][j] <= 1 /\ (call'[b][j] = "none" => sent[b][j] = 0)
    BY <2>1 DEF SentHasRow
  <2> QED BY <2>2, <2>3 DEF SentHasRow
<1>3. ChildrenUnderLead'
  BY DEF ChildrenUnderLead
<1>4. MarkedIsOver'
  BY DEF MarkedIsOver
<1> QED BY <1>1, <1>2, <1>3, <1>4

\* Steps of a worker between two calls, and of the lead around its questions.
LEMMA LifeIInv ==
  ASSUME IInv,
         \/ \E a \in Attempt : Returns(a) \/ Records(a)
         \/ Parks \/ Resumes \/ CompletesResumed \/ RejectsRun
  PROVE  IInv'
<1> USE AttemptAssumption DEF Returns, Records, Parks, Resumes, CompletesResumed, RejectsRun, Goes,
      ChildrenRest, ledger, rows, IInv, RowsTyped, Phase, Working
<1>1. RowsTyped'
  OBVIOUS
<1>2. SentHasRow'
  BY DEF SentHasRow
<1>3. ChildrenUnderLead'
  BY DEF ChildrenUnderLead
<1>4. MarkedIsOver'
  BY DEF MarkedIsOver
<1> QED BY <1>1, <1>2, <1>3, <1>4

\* The money of a lead that ends without looking for lost calls.
LEMMA EndsIInv ==
  ASSUME IInv, SettlesDirectly \/ RejectSettles PROVE IInv'
<1> USE AttemptAssumption DEF IInv, RowsTyped, Phase, Working
<1>1. /\ state' \in [Attempt -> {"none", "reserved", "settled", "released"}]
      /\ phase' = [phase EXCEPT ![Lead] = "ended"]
      /\ UNCHANGED <<call, marked, alive, sent>>
  <2>1. SettlesAttempt(Lead) \/ ReleasesAttempt(Lead)
    BY DEF SettlesDirectly, RejectSettles
  <2>2. state' \in [Attempt -> {"none", "reserved", "settled", "released"}]
    BY <2>1, SettlesReleasesNothing, ReleasesOne
  <2> QED BY <2>2 DEF SettlesDirectly, RejectSettles, Goes
<1>2. RowsTyped'
  BY <1>1
<1>3. SentHasRow'
  BY <1>1 DEF SentHasRow
<1>4. phase[Lead] \in {"direct", "rejected"}
  BY DEF SettlesDirectly, RejectSettles, Goes
<1>5. ChildrenUnderLead'
  BY <1>1, <1>4 DEF ChildrenUnderLead
<1>6. MarkedIsOver'
  <2>1. \A who \in Who : <<Lead, who>> \notin marked
    BY <1>4 DEF MarkedIsOver
  <2>2. \A b \in Attempt \ {Lead} : phase'[b] = phase[b]
    BY <1>1
  <2> QED BY <1>1, <2>1, <2>2 DEF MarkedIsOver
<1> QED BY <1>2, <1>3, <1>5, <1>6

\* A finalization finds its attempt at rest and marks the calls it lost.
LEMMA MarksIInv ==
  ASSUME IInv, NEW a \in Attempt, NEW who \in Who, FinalizeMarks(a, who) PROVE IInv'
<1> USE AttemptAssumption DEF FinalizeMarks, AtLost, ledger, IInv, RowsTyped, Phase, Working, CallStatus
<1>1. RowsTyped'
  OBVIOUS
<1>2. SentHasRow'
  BY DEF SentHasRow
<1>3. ChildrenUnderLead'
  BY DEF ChildrenUnderLead
<1>4. MarkedIsOver'
  <2>1. /\ phase[a] \notin Working \cup {"off"}
        /\ a = Lead => who = "own" /\ phase[a] = "recorded"
    BY DEF MayFinalize, ChildrenUnderLead
  <2>2. \A k \in Key : call'[a][k] # "started"
    OBVIOUS
  <2>3. \A b \in Attempt, k \in Key : call'[b][k] = "started" => call[b][k] = "started"
    OBVIOUS
  <2> QED BY <2>1, <2>2, <2>3 DEF MarkedIsOver
<1> QED BY <1>1, <1>2, <1>3, <1>4

\* A finalization moves the money of its attempt and no call.
LEMMA ActsShape ==
  ASSUME IInv, NEW a \in Attempt, NEW who \in Who, FinalizeActs(a, who)
  PROVE  /\ state' \in [Attempt -> {"none", "reserved", "settled", "released"}]
         /\ \A b \in Attempt :
              state[b] = "reserved" /\ state'[b] = "released" => b = a /\ Uncertain(a) = {}
<1> USE DEF IInv
<1>1. CASE UNCHANGED <<ledger, broken>>
  BY <1>1 DEF ledger, RowsTyped
<1>2. CASE SettlesAttempt(a)
  BY <1>2, SettlesReleasesNothing
<1>3. CASE Uncertain(a) = {} /\ ReleasesAttempt(a)
  BY <1>3, ReleasesOne
<1> QED BY <1>1, <1>2, <1>3 DEF FinalizeActs

\* What a worker or the lead does keeps the invariant.
LEMMA ActsIInv ==
  ASSUME IInv, NEW a \in Attempt, NEW who \in Who, FinalizeActs(a, who) PROVE IInv'
<1> USE AttemptAssumption DEF IInv, RowsTyped, Phase, Working
<1>1. /\ phase' = phase \/ (who = "own" /\ phase' = [phase EXCEPT ![a] = "ended"])
      /\ phase[a] \notin Working \cup {"off"}
      /\ a = Lead => who = "own" /\ phase[a] = "recorded"
      /\ marked' = marked \ {<<a, who>>}
      /\ UNCHANGED <<call, alive, sent>>
  BY DEF FinalizeActs, MarkedIsOver
<1>2. RowsTyped'
  BY <1>1, ActsShape
<1>3. SentHasRow'
  BY <1>1 DEF SentHasRow
<1>4. ChildrenUnderLead'
  BY <1>1 DEF ChildrenUnderLead
<1>5. MarkedIsOver'
  BY <1>1 DEF MarkedIsOver
<1> QED BY <1>2, <1>3, <1>4, <1>5

\* A reconciliation closes a failure and settles, from outside the run.
LEMMA ReconcileIInv ==
  ASSUME IInv, NEW a \in Attempt, NEW k \in Key, Reconcile(a, k) PROVE IInv'
<1> USE DEF IInv
<1>1. UNCHANGED <<call, sent, phase, marked, alive>>
  BY DEF Reconcile, life
<1>2. state' \in [Attempt -> {"none", "reserved", "settled", "released"}]
  <2>1. CASE UNCHANGED ledger
    BY <2>1 DEF ledger, RowsTyped
  <2>2. CASE Settle(a, Settlement(a), AuthorityOf(a, TRUE))
    BY <2>2, SettleReleasesNothing
  <2> QED BY <2>1, <2>2 DEF Reconcile
<1> QED BY <1>1, <1>2 DEF RowsTyped, SentHasRow, ChildrenUnderLead, MarkedIsOver

\* A stop of the process: the marks are gone, the rows are as they were.
LEMMA CrashIInv ==
  ASSUME IInv, Crash PROVE IInv'
<1> USE AttemptAssumption DEF Crash, ledger, rows, IInv, RowsTyped, Phase, Working
<1>1. RowsTyped'
  OBVIOUS
<1>2. SentHasRow'
  BY DEF SentHasRow
<1>3. ChildrenUnderLead'
  BY DEF ChildrenUnderLead
<1>4. MarkedIsOver'
  BY DEF MarkedIsOver
<1> QED BY <1>1, <1>2, <1>3, <1>4

\* A recovery leaves no child at work, and gives back the money of orphans
\* whose calls all have an outcome.
LEMMA RecoverShape ==
  ASSUME IInv, Recover
  PROVE  /\ state' \in [Attempt -> {"none", "reserved", "settled", "released"}]
         /\ \A b \in Attempt :
              state[b] = "reserved" /\ state'[b] = "released" => ~UnknownToRecovery(b)
<1> DEFINE freed == {a \in Orphans : ~UnknownToRecovery(a)}
<1>1. CASE UNCHANGED ledger
  BY <1>1 DEF ledger, IInv, RowsTyped
<1>2. CASE ReleaseOrphaned(freed)
  <2>1. state' = [r \in Attempt |-> IF r \in freed /\ state[r] = "reserved"
                                   THEN "released" ELSE state[r]]
    BY <1>2, AttemptAssumption DEF ReleaseOrphaned
  <2> QED BY <2>1 DEF IInv, RowsTyped
<1> QED BY <1>1, <1>2 DEF Recover

\* After a recovery nobody works and the rows are as they were.
LEMMA RecoverIInv ==
  ASSUME IInv, Recover PROVE IInv'
<1> USE AttemptAssumption DEF IInv, RowsTyped, Phase, Working
<1>1. UNCHANGED <<call, sent, marked>> /\ ~alive
  BY DEF Recover, rows
<1>2. \A a \in Attempt :
        \/ phase'[a] = "lost"
        \/ a = Lead /\ phase'[a] = "parked"
        \/ a \notin Orphans /\ phase'[a] = phase[a]
  BY DEF Recover
<1>3. RowsTyped'
  <2>1. phase' \in [Attempt -> Phase]
    BY DEF Recover
  <2> QED BY <1>1, <2>1, RecoverShape
<1>4. SentHasRow'
  BY <1>1 DEF SentHasRow
<1>5. ChildrenUnderLead'
  BY <1>2 DEF ChildrenUnderLead, Orphans
<1>6. MarkedIsOver'
  BY <1>1 DEF MarkedIsOver, Who
<1> QED BY <1>3, <1>4, <1>5, <1>6

-----------------------------------------------------------------------------
\* Every step preserves the invariant.
LEMMA StepIInv ==
  ASSUME IInv, [Next]_vars PROVE IInv'
<1>1. CASE UNCHANGED vars
  BY <1>1 DEF vars, ledger, rows, life, IInv, RowsTyped, SentHasRow, ChildrenUnderLead, MarkedIsOver
<1>2. ASSUME NEW a \in Attempt, WorkerStep(a) PROVE IInv'
  <2>1. CASE Starts(a)
    BY <2>1, StartsIInv
  <2>2. CASE Returns(a) \/ Records(a)
    BY <2>2, LifeIInv
  <2>3. ASSUME NEW k \in Key, Calls(a, k) PROVE IInv'
    BY <2>3, CallsIInv
  <2>4. ASSUME NEW k \in Key,
               \/ AnsweredUnrecorded(a, k) \/ Rejected(a, k) \/ Ambiguous(a, k) \/ OutcomeLost(a, k)
               \/ \E c \in Pricings : Answered(a, k, c)
        PROVE  IInv'
    <3>1. \E v \in {"completed", "rejected", "ambiguous"}, to \in {"turn", "returned"} :
            /\ Goes(a, "calling", to)
            /\ call' = call \/ call' = Set(call, a, k, v)
            /\ UNCHANGED <<ledger, marked, alive, sent>>
      BY <2>4 DEF AnsweredUnrecorded, MarkSucceeded, Rejected, Ambiguous, OutcomeLost, Answered, rows
    <3> QED BY <3>1, CallEndsIInv
  <2> QED BY <1>2, <2>1, <2>2, <2>3, <2>4 DEF WorkerStep
<1>3. CASE Parks \/ Resumes \/ CompletesResumed \/ RejectsRun
  BY <1>3, LifeIInv
<1>4. CASE SettlesDirectly \/ RejectSettles
  BY <1>4, EndsIInv
<1>5. ASSUME NEW a \in Attempt, NEW who \in Who, FinalizeMarks(a, who) \/ FinalizeActs(a, who)
      PROVE  IInv'
  BY <1>5, MarksIInv, ActsIInv
<1>6. ASSUME NEW a \in Attempt, NEW k \in Key, Reconcile(a, k) PROVE IInv'
  BY <1>6, ReconcileIInv
<1>7. CASE Crash \/ Recover
  BY <1>7, CrashIInv, RecoverIInv
<1> QED BY <1>1, <1>2, <1>3, <1>4, <1>5, <1>6, <1>7 DEF Next

\* The invariant holds for every run of every size.
THEOREM CallsInvariance == Spec => []IInv
BY InitIInv, StepIInv, PTL DEF Spec

\* Whatever crashes, resumes and answers, no request of an attempt goes out to
\* the provider twice (begin_call refuses a key that has a row).
THEOREM NeverSentTwice == Spec => []RequestSentOnce
<1>1. IInv => RequestSentOnce
  BY DEF IInv, SentHasRow, RequestSentOnce
<1> QED BY <1>1, CallsInvariance, PTL

\* What a step may do to a reservation: its worker, the sweep and the recovery
\* give it back only when every call made on it has an outcome.
LEMMA StepKeepsMoney ==
  ASSUME IInv, Next, NEW a \in Attempt, state[a] = "reserved", state'[a] = "released"
  PROVE  \/ \A k \in Key : call[a][k] # "started" /\ k \notin Uncertain(a)
         \/ phase[a] = "rejected"
<1> USE DEF IInv
<1>1. ASSUME NEW b \in Attempt, WorkerStep(b) PROVE FALSE
  <2>1. CASE Starts(b)
    BY <2>1 DEF Starts, Assign, RowsTyped
  <2>2. CASE UNCHANGED ledger
    BY <2>2 DEF ledger
  <2> QED BY <1>1, <2>1, <2>2 DEF WorkerStep, Returns, Records, Calls, AnsweredUnrecorded, Answered,
           Rejected, Ambiguous, OutcomeLost
<1>2. ~UNCHANGED ledger
  BY DEF ledger
<1>3. ~(Parks \/ Resumes \/ CompletesResumed \/ RejectsRun \/ Crash)
  BY <1>2 DEF Parks, Resumes, CompletesResumed, RejectsRun, Crash
<1>4. ~SettlesDirectly
  BY SettlesReleasesNothing, AttemptAssumption DEF SettlesDirectly
<1>5. CASE RejectSettles
  <2>1. phase[Lead] = "rejected"
    BY <1>5 DEF RejectSettles, Goes
  <2>2. a = Lead
    BY <1>5, SettlesReleasesNothing, ReleasesOne, AttemptAssumption DEF RejectSettles
  <2> QED BY <2>1, <2>2
<1>6. ASSUME NEW b \in Attempt, NEW who \in Who, FinalizeMarks(b, who) PROVE FALSE
  BY <1>2, <1>6 DEF FinalizeMarks
<1>7. ASSUME NEW b \in Attempt, NEW who \in Who, FinalizeActs(b, who)
      PROVE  \A k \in Key : call[a][k] # "started" /\ k \notin Uncertain(a)
  <2>1. b = a /\ Uncertain(a) = {}
    BY <1>7, ActsShape
  <2>2. <<a, who>> \in marked
    BY <1>7, <2>1 DEF FinalizeActs
  <2> QED BY <2>1, <2>2 DEF MarkedIsOver
<1>8. ASSUME NEW b \in Attempt, NEW k \in Key, Reconcile(b, k) PROVE FALSE
  <2>1. Settle(b, Settlement(b), AuthorityOf(b, TRUE))
    BY <1>2, <1>8 DEF Reconcile
  <2> QED BY <2>1, SettleReleasesNothing
<1>9. CASE Recover
  <2>1. ~UnknownToRecovery(a)
    BY <1>9, RecoverShape
  <2> QED BY <2>1 DEF UnknownToRecovery, Uncertain
<1> QED BY <1>1, <1>3, <1>4, <1>5, <1>6, <1>7, <1>8, <1>9 DEF Next

\* Money is never given back over a call of unknown outcome, by a worker, the
\* end of a run or a recovery, for any number of attempts, calls and crashes.
THEOREM UncertainMoneyKept == Spec => UncertainKeepsMoney
<1>1. IInv /\ [Next]_vars =>
        [\A a \in Attempt :
           (state[a] = "reserved" /\ state'[a] = "released")
             => \/ \A k \in Key : call[a][k] # "started" /\ k \notin Uncertain(a)
                \/ phase[a] = "rejected"]_vars
  BY StepKeepsMoney
<1> QED BY <1>1, CallsInvariance, PTL DEF Spec, UncertainKeepsMoney

-----------------------------------------------------------------------------
(***************************************************************************)
(* What the calls cost.  MoneyInv says what the books know of the calls;   *)
(* sums enter it as SumOf of the recorded costs.                           *)
(***************************************************************************)
MayCost == {"started", "completed", "ambiguous"}

BooksTyped ==
  /\ recorded \in [Attempt -> [Key -> Costs \cup {NoRow, Unpriced}]]
  /\ failure \in [Attempt -> [Key -> {"none", "open", "estimated"}]]
  /\ broken \subseteq Attempt
  /\ usage \in [Attempt -> Authority \cup {"none"}]
  /\ cost \in [Attempt -> Nat]

\* An attempt has a usage row exactly when it is settled.
UsageSettles == \A a \in Attempt : usage[a] # "none" <=> state[a] = "settled"

\* The usage of a call is recorded as the call completes, not before.
RowsAreCompleted ==
  \A a \in Attempt, k \in Key : recorded[a][k] # NoRow => call[a][k] = "completed"

AmbiguousHasFailure ==
  \A a \in Attempt, k \in Key : call[a][k] = "ambiguous" => failure[a][k] # "none"

\* A request goes out only when nothing of the run is open.
NothingOpenInFlight ==
  \A a \in Attempt : phase[a] = "calling" => a \notin broken /\ \A k \in Key : failure[a][k] # "open"

Estimated(a) == \E k \in Key : failure[a][k] = "estimated"

\* An attempt that calls although a call of it was reconciled has a second call
\* that never returned: without it the reconciliation would have settled it.
AnotherLost ==
  \A a \in Attempt :
    phase[a] = "calling" /\ Estimated(a) /\ state[a] # "settled" =>
      \E j, k \in Key : j # k /\ call[a][j] = "started" /\ call[a][k] = "started"

\* Nothing is in flight for a settled attempt.
SettledAtRest ==
  \A a \in Attempt :
    state[a] = "settled" /\ phase[a] = "calling" => \A k \in Key : call[a][k] # "started"

BooksInv ==
  /\ BooksTyped /\ UsageSettles /\ RowsAreCompleted /\ AmbiguousHasFailure
  /\ NothingOpenInFlight /\ AnotherLost /\ SettledAtRest

\* Reconciled to the end: every uncertain call was estimated.
Resolved(a) ==
  /\ Estimated(a) /\ a \notin broken
  /\ \A k \in Key : call[a][k] # "started" /\ k \notin Uncertain(a)

ReconciledIsSettled == \A a \in Attempt : Resolved(a) => state[a] = "settled"

-----------------------------------------------------------------------------
\* The sums of the calls as SumOf.
LEMMA KnownIsSum ==
  ASSUME NEW a PROVE Known(a) = SumOf(recorded[a], Priced(a))
BY DEF Known, SumOf

\* The same of the next state.
LEMMA KnownNextIsSum ==
  ASSUME NEW a PROVE Known(a)' = SumOf(recorded'[a], Priced(a)')
BY DEF Known, SumOf, Priced, MapThenSumSet, MapThenFoldSet

\* What is known to have been spent is a natural number.
LEMMA KnownNat ==
  ASSUME BooksTyped, NEW a \in Attempt PROVE Known(a) \in Nat
<1>1. IsFiniteSet(Priced(a)) /\ \A k \in Priced(a) : recorded[a][k] \in Nat
  BY AttemptAssumption, CostAssumption, FS_Subset DEF Priced
<1> QED BY <1>1, KnownIsSum, SumNat

\* It depends on the rows of the attempt alone.
LEMMA KnownSame ==
  ASSUME NEW a, recorded'[a] = recorded[a] PROVE Known(a)' = Known(a)
<1>1. Priced(a)' = Priced(a)
  BY DEF Priced
<1> QED BY <1>1, KnownIsSum, KnownNextIsSum

\* A settlement covers what is known, and the estimate of what is not.
Unmeasured(a) == Unaccounted(a) # {} \/ \E k \in Key : recorded[a][k] = Unpriced

\* settle_attempt books what is known, and more while a call is uncertain.
LEMMA SettlementCovers ==
  ASSUME BooksTyped, NEW a \in Attempt
  PROVE  /\ Settlement(a) \in Nat /\ Settlement(a) >= Known(a)
         /\ Unmeasured(a) => Settlement(a) >= Estimate
<1>1. Known(a) \in Nat /\ Estimate \in Nat
  BY KnownNat, CostAssumption
<1>2. Unmeasured(a) => ~Measured(a)
  BY DEF Unmeasured, Measured
<1> QED BY <1>1, <1>2 DEF Settlement

-----------------------------------------------------------------------------
\* What one step may do to the ledger row of an attempt.
Kept(a) == state'[a] = state[a] /\ usage'[a] = usage[a] /\ cost'[a] = cost[a]
Reserves(a) ==
  /\ state[a] # "settled" /\ state'[a] \in {"reserved", "released"}
  /\ usage'[a] = usage[a] /\ cost'[a] = cost[a]
Books(a) == state'[a] = "settled" /\ usage'[a] # "none" /\ cost'[a] = Settlement(a)

ReservationsTyped ==
  /\ state \in [Attempt -> {"none", "reserved", "settled", "released"}]
  /\ usage \in [Attempt -> Authority \cup {"none"}]
  /\ cost \in [Attempt -> Nat]

\* A ledger that does not move leaves each row alone.
LEMMA LedgerRests ==
  ASSUME RowsTyped, BooksTyped, UNCHANGED ledger
  PROVE  ReservationsTyped' /\ \A b \in Attempt : Kept(b)
BY DEF ledger, RowsTyped, BooksTyped, ReservationsTyped, Kept

\* A settlement the ledger accepts leaves its attempt settled.
LEMMA SettleBooks ==
  ASSUME RowsTyped, BooksTyped, UsageSettles, NEW a \in Attempt, NEW authority \in {"measured", "conservative"},
         Settle(a, Settlement(a), authority)
  PROVE  ReservationsTyped' /\ Books(a) /\ \A b \in Attempt \ {a} : Kept(b)
<1>1. Settlement(a) \in Nat
  BY SettlementCovers
<1>2. state' = [state EXCEPT ![a] = "settled"] \/ (state[a] = "settled" /\ UNCHANGED state)
  BY DEF Settle, SettledState, UsageSettles
<1>3. usage' = [usage EXCEPT ![a] = authority] /\ cost' = [cost EXCEPT ![a] = Settlement(a)]
  BY DEF Settle
<1>4. authority \in Authority /\ authority # "none"
  BY DEF Authority
<1>5. ReservationsTyped'
  BY <1>1, <1>2, <1>3, <1>4 DEF RowsTyped, BooksTyped, ReservationsTyped
<1>6. Books(a)
  BY <1>2, <1>3, <1>4 DEF RowsTyped, BooksTyped, Books
<1>7. \A b \in Attempt \ {a} : Kept(b)
  BY <1>2, <1>3 DEF RowsTyped, BooksTyped, Kept
<1> QED BY <1>5, <1>6, <1>7

\* A settlement over an uncertain call is an estimate, every other is measured.
LEMMA AuthorityOfSettlement ==
  ASSUME NEW a, NEW reconciled PROVE AuthorityOf(a, reconciled) \in {"measured", "conservative"}
BY DEF AuthorityOf

\* settle_attempt settles, or finds it done, or breaks.
LEMMA SettlesBooks ==
  ASSUME RowsTyped, BooksTyped, UsageSettles, NEW a \in Attempt, SettlesAttempt(a)
  PROVE  /\ ReservationsTyped' /\ \A b \in Attempt \ {a} : Kept(b)
         /\ Books(a) \/ Kept(a)
         /\ broken' = broken \/ broken' = broken \cup {a}
<1>1. CASE UNCHANGED ledger
  BY <1>1, LedgerRests DEF SettlesAttempt
<1>2. CASE Settle(a, Settlement(a), AuthorityOf(a, FALSE)) /\ UNCHANGED broken
  BY <1>2, SettleBooks, AuthorityOfSettlement
<1> QED BY <1>1, <1>2 DEF SettlesAttempt

\* A release changes one reservation, which it does not settle.
LEMMA ReleaseReserves ==
  ASSUME RowsTyped, BooksTyped, NEW a \in Attempt, ReleasesAttempt(a)
  PROVE  /\ ReservationsTyped' /\ \A b \in Attempt \ {a} : Kept(b)
         /\ Reserves(a) \/ Kept(a)
         /\ UNCHANGED broken
<1>1. CASE UNCHANGED ledger
  BY <1>1, LedgerRests DEF ReleasesAttempt
<1>2. CASE Release(a)
  BY <1>2 DEF ReleasesAttempt, Release, RowsTyped, BooksTyped, ReservationsTyped, Kept, Reserves
<1> QED BY <1>1, <1>2 DEF ReleasesAttempt

-----------------------------------------------------------------------------
\* Steps and the invariant of the books.

\* What a step leaves true of the settled attempts: they were settled before
\* and nothing was added to their calls, or they are settled at what is known.
StepCovers ==
  \A b \in Attempt : state'[b] = "settled" =>
    /\ recorded'[b] = recorded[b]
    /\ \A k \in Key : call'[b][k] \in MayCost => call[b][k] \in MayCost
    /\ (state[b] = "settled" /\ cost'[b] = cost[b]) \/ cost'[b] = Settlement(b)

Covered ==
  \A a \in Attempt : state[a] = "settled" =>
    cost[a] >= Known(a) /\ (Unmeasured(a) => cost[a] >= Estimate)

\* A settlement goes on covering its calls when nothing is added to them.
LEMMA CoverKept ==
  ASSUME BooksTyped, Covered, StepCovers PROVE Covered'
<1> SUFFICES ASSUME NEW b \in Attempt, state'[b] = "settled"
             PROVE  cost'[b] >= Known(b)' /\ (Unmeasured(b)' => cost'[b] >= Estimate)
  BY DEF Covered
<1>1. /\ recorded'[b] = recorded[b]
      /\ \A k \in Key : call'[b][k] \in MayCost => call[b][k] \in MayCost
      /\ (state[b] = "settled" /\ cost'[b] = cost[b]) \/ cost'[b] = Settlement(b)
  BY DEF StepCovers
<1>2. Known(b)' = Known(b)
  BY <1>1, KnownSame
<1>3. Unmeasured(b)' => Unmeasured(b)
  BY <1>1 DEF Unmeasured, Unaccounted, MayCost
<1>4. CASE state[b] = "settled" /\ cost'[b] = cost[b]
  BY <1>2, <1>3, <1>4 DEF Covered
<1>5. CASE cost'[b] = Settlement(b)
  BY <1>2, <1>3, <1>5, SettlementCovers
<1> QED BY <1>1, <1>4, <1>5

\* Steps that change no row of a call: the worker between calls, releases and
\* settlements, the recovery and the crash.
LEMMA QuietStep ==
  ASSUME RowsTyped, BooksInv, ReconciledIsSettled,
         UNCHANGED <<call, recorded, failure>>, ReservationsTyped',
         \A b \in Attempt :
           \/ Kept(b) \/ Reserves(b)
           \/ Books(b) /\ (phase'[b] # "calling" \/ \A k \in Key : call[b][k] # "started"),
         broken \subseteq broken', broken' \subseteq Attempt,
         \A b \in broken' \ broken : phase'[b] # "calling",
         \A b \in Attempt : phase'[b] = "calling" => phase[b] = "calling"
  PROVE  BooksInv' /\ ReconciledIsSettled' /\ StepCovers
<1> USE DEF BooksInv
<1>1. BooksTyped'
  BY DEF BooksTyped, ReservationsTyped
<1>2. UsageSettles'
  BY DEF UsageSettles, Kept, Reserves, Books
<1>3. RowsAreCompleted' /\ AmbiguousHasFailure'
  BY DEF RowsAreCompleted, AmbiguousHasFailure
<1>4. NothingOpenInFlight'
  BY DEF NothingOpenInFlight
<1>5. \A b \in Attempt : state[b] = "settled" => state'[b] = "settled"
  BY DEF Kept, Reserves, Books
<1>6. AnotherLost'
  BY <1>5 DEF AnotherLost, Estimated
<1>7. SettledAtRest'
  BY DEF SettledAtRest, Kept, Reserves, Books
<1>8. ReconciledIsSettled'
  BY <1>5 DEF ReconciledIsSettled, Resolved, Estimated, Uncertain
<1>9. StepCovers
  BY DEF StepCovers, Kept, Reserves, Books
<1> QED BY <1>1, <1>2, <1>3, <1>4, <1>6, <1>7, <1>8, <1>9

\* A request goes out: the attempt is reserved, and nothing of the run is open.
LEMMA CallsBooks ==
  ASSUME RowsTyped, BooksInv, ReconciledIsSettled, NEW a \in Attempt, NEW k \in Key, Calls(a, k)
  PROVE  BooksInv' /\ ReconciledIsSettled' /\ StepCovers
<1> USE DEF BooksInv
<1>1. /\ call[a][k] = "none" /\ state[a] = "reserved" /\ broken = {}
      /\ \A b \in Attempt, j \in Key : failure[b][j] # "open"
      /\ UNCHANGED <<ledger, recorded, failure, broken>>
  BY DEF Calls, MayBegin, OpenFailure
<1>2. /\ call'[a][k] = "started"
      /\ \A b \in Attempt, j \in Key : b # a \/ j # k => call'[b][j] = call[b][j]
      /\ \A b \in Attempt : b # a => phase'[b] = phase[b]
  BY DEF Calls, Set, Goes, RowsTyped
<1>3. ReservationsTyped' /\ \A b \in Attempt : Kept(b)
  BY <1>1, LedgerRests
<1>4. BooksTyped' /\ UsageSettles' /\ RowsAreCompleted'
  <2>1. BooksTyped'
    BY <1>1, <1>3 DEF BooksTyped, ReservationsTyped
  <2>2. UsageSettles'
    BY <1>3 DEF UsageSettles, Kept
  <2>3. RowsAreCompleted'
    BY <1>1, <1>2 DEF RowsAreCompleted
  <2> QED BY <2>1, <2>2, <2>3
<1>5. AmbiguousHasFailure' /\ NothingOpenInFlight'
  BY <1>1, <1>2 DEF AmbiguousHasFailure, NothingOpenInFlight
<1>6. AnotherLost'
  <2>1. ASSUME Estimated(a) PROVE \E j \in Key : j # k /\ call'[a][j] = "started"
    <3>1. ~Resolved(a)
      BY <1>1 DEF ReconciledIsSettled
    <3>2. \A j \in Key : j \notin Uncertain(a)
      BY <1>1 DEF Uncertain, AmbiguousHasFailure, BooksTyped
    <3>3. \E j \in Key : call[a][j] = "started"
      BY <1>1, <2>1, <3>1, <3>2 DEF Resolved
    <3> QED BY <1>1, <1>2, <3>3
  <2>2. \A b \in Attempt : Estimated(b)' <=> Estimated(b)
    BY <1>1 DEF Estimated
  <2>3. ASSUME NEW b \in Attempt, b # a PROVE call'[b] = call[b]
    BY <2>3 DEF Calls, Set, RowsTyped
  <2>4. \A b \in Attempt : state'[b] = state[b]
    BY <1>3 DEF Kept
  <2> QED BY <1>2, <2>1, <2>2, <2>3, <2>4 DEF AnotherLost
<1>7. SettledAtRest'
  BY <1>1, <1>2, <1>3 DEF SettledAtRest, Kept
<1>8. ReconciledIsSettled'
  <2>1. ASSUME NEW b \in Attempt, Resolved(b)' PROVE Resolved(b)
    <3>1. b # a
      BY <1>2, <2>1 DEF Resolved
    <3> QED BY <1>1, <1>2, <2>1, <3>1 DEF Resolved, Estimated, Uncertain
  <2> QED BY <1>3, <2>1 DEF ReconciledIsSettled, Kept
<1>9. StepCovers
  BY <1>1, <1>2, <1>3 DEF StepCovers, Kept
<1> QED BY <1>4, <1>5, <1>6, <1>7, <1>8, <1>9

\* A call comes to an end.  The attempt is not settled, for it had one in flight.
LEMMA CallEndsBooks ==
  ASSUME RowsTyped, BooksInv, ReconciledIsSettled, NEW a \in Attempt, NEW k \in Key,
         InFlight(a, k), phase'[a] # "calling", \A b \in Attempt \ {a} : phase'[b] = phase[b],
         NEW v \in {"started", "completed", "rejected", "ambiguous"}, call' = Set(call, a, k, v),
         \/ UNCHANGED recorded
         \/ v = "completed" /\ \E c \in Pricings : recorded' = Set(recorded, a, k, c),
         failure' = IF v = "ambiguous" THEN Set(failure, a, k, "open") ELSE failure,
         UNCHANGED <<ledger, broken>>
  PROVE  BooksInv' /\ ReconciledIsSettled' /\ StepCovers
<1> USE DEF BooksInv
<1>1. /\ call'[a][k] = v /\ call[a][k] = "started"
      /\ \A b \in Attempt, j \in Key : b # a \/ j # k => call'[b][j] = call[b][j]
      /\ \A b \in Attempt, j \in Key : b # a \/ j # k => recorded'[b][j] = recorded[b][j]
      /\ \A b \in Attempt, j \in Key : b # a \/ j # k => failure'[b][j] = failure[b][j]
      /\ \A b \in Attempt \ {a} : recorded'[b] = recorded[b] /\ call'[b] = call[b] /\ failure'[b] = failure[b]
  BY DEF Set, InFlight, RowsTyped, BooksTyped
<1>2. ReservationsTyped' /\ \A b \in Attempt : Kept(b)
  BY LedgerRests
<1>3. state[a] # "settled"
  BY <1>1 DEF SettledAtRest, InFlight
<1>4. BooksTyped'
  <2>1. recorded' \in [Attempt -> [Key -> Costs \cup {NoRow, Unpriced}]]
    <3>1. CASE UNCHANGED recorded
      BY <3>1 DEF BooksTyped
    <3>2. ASSUME NEW c \in Pricings, recorded' = Set(recorded, a, k, c)
          PROVE  recorded' \in [Attempt -> [Key -> Costs \cup {NoRow, Unpriced}]]
      BY <3>2 DEF BooksTyped, Set, Pricings
    <3> QED BY <3>1, <3>2
  <2>2. failure' \in [Attempt -> [Key -> {"none", "open", "estimated"}]]
    BY DEF BooksTyped, Set
  <2> QED BY <1>2, <2>1, <2>2 DEF BooksTyped, ReservationsTyped
<1>5. UsageSettles'
  BY <1>2 DEF UsageSettles, Kept
<1>6. RowsAreCompleted'
  <2>1. ASSUME UNCHANGED recorded PROVE recorded'[a][k] = NoRow
    BY <1>1, <2>1 DEF RowsAreCompleted
  <2> QED BY <1>1, <2>1 DEF RowsAreCompleted
<1>7. AmbiguousHasFailure'
  <2>1. v = "ambiguous" => failure'[a][k] = "open"
    BY DEF BooksTyped, Set
  <2> QED BY <1>1, <2>1 DEF AmbiguousHasFailure
<1>8. NothingOpenInFlight'
  BY <1>1 DEF NothingOpenInFlight
<1>9. AnotherLost'
  BY <1>1, <1>2 DEF AnotherLost, Estimated, Kept
<1>10. SettledAtRest'
  BY <1>1, <1>2 DEF SettledAtRest, Kept
<1>11. ReconciledIsSettled'
  <2>1. ASSUME Resolved(a)' PROVE FALSE
    <3>1. v # "ambiguous"
      BY <1>1, <2>1 DEF Resolved, Uncertain, BooksTyped, Set
    <3>2. Estimated(a)
      BY <2>1, <3>1 DEF Resolved, Estimated
    <3>3. phase[a] = "calling"
      BY DEF InFlight
    <3>4. \E j \in Key : j # k /\ call[a][j] = "started"
      BY <1>3, <3>2, <3>3 DEF AnotherLost
    <3>5. \E j \in Key : call'[a][j] = "started"
      BY <1>1, <3>4
    <3> QED BY <2>1, <3>5 DEF Resolved
  <2>2. ASSUME NEW b \in Attempt \ {a}, Resolved(b)' PROVE Resolved(b)
    BY <1>1, <2>2 DEF Resolved, Estimated, Uncertain
  <2> QED BY <1>2, <2>1, <2>2 DEF ReconciledIsSettled, Kept
<1>12. StepCovers
  BY <1>1, <1>2, <1>3 DEF StepCovers, Kept
<1> QED BY <1>4, <1>5, <1>6, <1>7, <1>8, <1>9, <1>10, <1>11, <1>12

\* Lost calls become uncertain ones.
LEMMA MarksBooks ==
  ASSUME IInv, BooksInv, ReconciledIsSettled, NEW a \in Attempt, NEW who \in Who, FinalizeMarks(a, who)
  PROVE  BooksInv' /\ ReconciledIsSettled' /\ StepCovers
<1> USE DEF BooksInv
<1>1. /\ \A j \in Key : call'[a][j] = IF call[a][j] = "started" THEN "ambiguous" ELSE call[a][j]
      /\ \A j \in Key : failure'[a][j] = IF call[a][j] = "started" THEN "open" ELSE failure[a][j]
      /\ \A b \in Attempt \ {a} : call'[b] = call[b] /\ failure'[b] = failure[b]
      /\ UNCHANGED <<ledger, recorded, broken, phase>>
  BY DEF FinalizeMarks, AtLost, IInv, RowsTyped, BooksTyped
<1>2. ReservationsTyped' /\ \A b \in Attempt : Kept(b)
  BY <1>1, LedgerRests DEF IInv
<1>3. phase[a] # "calling"
  BY DEF FinalizeMarks, MayFinalize, IInv, ChildrenUnderLead, Working
<1>4. BooksTyped'
  <2>1. failure' \in [Attempt -> [Key -> {"none", "open", "estimated"}]]
    BY DEF FinalizeMarks, AtLost, BooksTyped
  <2> QED BY <1>1, <1>2, <2>1 DEF BooksTyped, ReservationsTyped
<1>5. UsageSettles'
  BY <1>2 DEF UsageSettles, Kept
<1>6. RowsAreCompleted'
  BY <1>1 DEF RowsAreCompleted
<1>7. AmbiguousHasFailure'
  BY <1>1 DEF AmbiguousHasFailure
<1>8. NothingOpenInFlight' /\ AnotherLost' /\ SettledAtRest'
  BY <1>1, <1>2, <1>3 DEF NothingOpenInFlight, AnotherLost, SettledAtRest, Estimated, Kept
<1>9. ReconciledIsSettled'
  <2>1. ASSUME Resolved(a)' PROVE Resolved(a)
    <3>1. \A j \in Key : call[a][j] # "started"
      BY <1>1, <2>1 DEF Resolved, Uncertain
    <3>2. \A j \in Key : call'[a][j] = call[a][j] /\ failure'[a][j] = failure[a][j]
      BY <1>1, <3>1
    <3> QED BY <1>1, <2>1, <3>2 DEF Resolved, Estimated, Uncertain
  <2>2. ASSUME NEW b \in Attempt \ {a}, Resolved(b)' PROVE Resolved(b)
    BY <1>1, <2>2 DEF Resolved, Estimated, Uncertain
  <2> QED BY <1>2, <2>1, <2>2 DEF ReconciledIsSettled, Kept
<1>10. StepCovers
  BY <1>1, <1>2 DEF StepCovers, Kept, MayCost
<1> QED BY <1>4, <1>5, <1>6, <1>7, <1>8, <1>9, <1>10

\* A reconciliation that leaves nothing else open settles the attempt.
LEMMA ReconcileBooks ==
  ASSUME RowsTyped, BooksInv, ReconciledIsSettled, NEW a \in Attempt, NEW k \in Key, Reconcile(a, k)
  PROVE  BooksInv' /\ ReconciledIsSettled' /\ StepCovers
<1> USE DEF BooksInv
<1>1. /\ failure' = Set(failure, a, k, "estimated") /\ call[a][k] = "ambiguous"
      /\ failure[a][k] \in {"open", "estimated"} /\ state[a] # "settled"
      /\ UNCHANGED <<call, recorded, broken, phase>>
  BY DEF Reconcile, life
<1>2. /\ failure'[a][k] = "estimated"
      /\ \A j \in Key : j # k => failure'[a][j] = failure[a][j]
      /\ \A b \in Attempt \ {a} : failure'[b] = failure[b]
  BY <1>1 DEF Set, BooksTyped
<1>3. /\ ReservationsTyped' /\ \A b \in Attempt \ {a} : Kept(b)
      /\ \/ Books(a) /\ StillOpen(a, k) = {} /\ a \notin broken
         \/ Kept(a) /\ ~(StillOpen(a, k) = {} /\ a \notin broken) /\ failure[a][k] = "open"
  <2>1. CASE StillOpen(a, k) = {} /\ a \notin broken
    <3>1. Settle(a, Settlement(a), AuthorityOf(a, TRUE))
      BY <2>1 DEF Reconcile
    <3> QED BY <2>1, <3>1, SettleBooks, AuthorityOfSettlement
  <2>2. CASE ~(StillOpen(a, k) = {} /\ a \notin broken)
    <3>1. UNCHANGED ledger /\ failure[a][k] = "open"
      BY <2>2 DEF Reconcile
    <3> QED BY <2>2, <3>1, LedgerRests
  <2> QED BY <2>1, <2>2
<1>4. BooksTyped'
  <2>1. failure' \in [Attempt -> [Key -> {"none", "open", "estimated"}]]
    BY <1>1 DEF Set, BooksTyped
  <2> QED BY <1>1, <1>3, <2>1 DEF BooksTyped, ReservationsTyped
<1>5. UsageSettles'
  BY <1>3 DEF UsageSettles, Kept, Books
<1>6. RowsAreCompleted' /\ AmbiguousHasFailure'
  BY <1>1, <1>2 DEF RowsAreCompleted, AmbiguousHasFailure
<1>7. NothingOpenInFlight'
  BY <1>1, <1>2 DEF NothingOpenInFlight
<1>8. Books(a) => \A j \in Key : call[a][j] # "started"
  BY <1>1, <1>3 DEF StillOpen, Kept, Books
<1>9. AnotherLost'
  <2>1. ASSUME phase[a] = "calling", state'[a] # "settled"
        PROVE  \E i, j \in Key : i # j /\ call[a][i] = "started" /\ call[a][j] = "started"
    <3>1. failure[a][k] = "estimated"
      BY <1>1, <2>1 DEF NothingOpenInFlight
    <3> QED BY <1>1, <2>1, <3>1 DEF AnotherLost, Estimated
  <2> QED BY <1>1, <1>2, <1>3, <2>1 DEF AnotherLost, Estimated, Kept
<1>10. SettledAtRest'
  BY <1>1, <1>3, <1>8 DEF SettledAtRest, Kept
<1>11. ReconciledIsSettled'
  <2>1. ASSUME Resolved(a)', ~Books(a) PROVE FALSE
    <3>1. PICK j \in Key : call[a][j] = "started" \/ (j \in Uncertain(a) /\ j # k)
      BY <1>1, <1>3, <2>1 DEF StillOpen, Resolved
    <3>2. call'[a][j] = "started" \/ (j \in Uncertain(a))'
      BY <1>1, <1>2, <3>1 DEF Uncertain
    <3> QED BY <2>1, <3>2 DEF Resolved
  <2>2. ASSUME NEW b \in Attempt \ {a}, Resolved(b)' PROVE Resolved(b)
    BY <1>1, <1>2, <2>2 DEF Resolved, Estimated, Uncertain
  <2> QED BY <1>3, <2>1, <2>2 DEF ReconciledIsSettled, Kept, Books
<1>12. StepCovers
  BY <1>1, <1>3 DEF StepCovers, Kept, Books
<1> QED BY <1>4, <1>5, <1>6, <1>7, <1>9, <1>10, <1>11, <1>12

\* The steps that change no row of a call, each as a QuietStep.
LEMMA StartsBooks ==
  ASSUME RowsTyped, BooksInv, ReconciledIsSettled, NEW a \in Attempt, Starts(a)
  PROVE  BooksInv' /\ ReconciledIsSettled' /\ StepCovers
<1>1. /\ UNCHANGED <<call, recorded, failure, broken, usage, cost>>
      /\ state' = [state EXCEPT ![a] = "reserved"] /\ state[a] = "none"
  BY DEF Starts, rows, Assign
<1>2. ReservationsTyped' /\ \A b \in Attempt : Kept(b) \/ Reserves(b)
  BY <1>1 DEF ReservationsTyped, RowsTyped, BooksInv, BooksTyped, Kept, Reserves
<1>3. \A b \in Attempt : phase'[b] = "calling" => phase[b] = "calling"
  BY DEF Starts, Goes, RowsTyped
<1> QED BY <1>1, <1>2, <1>3, QuietStep DEF BooksInv, BooksTyped

\* Turns, parking, resumptions and a stop of the process move no money.
LEMMA LifeBooks ==
  ASSUME RowsTyped, BooksInv, ReconciledIsSettled,
         \/ UNCHANGED vars \/ \E a \in Attempt : Returns(a) \/ Records(a)
         \/ Parks \/ Resumes \/ CompletesResumed \/ RejectsRun \/ Crash
  PROVE  BooksInv' /\ ReconciledIsSettled' /\ StepCovers
<1>1. UNCHANGED <<ledger, call, recorded, failure, broken>>
  BY DEF vars, rows, Returns, Records, Parks, Resumes, CompletesResumed, RejectsRun, Crash
<1>2. ReservationsTyped' /\ \A b \in Attempt : Kept(b)
  BY <1>1, LedgerRests DEF BooksInv
<1>3. \A b \in Attempt : phase'[b] = "calling" => phase[b] = "calling"
  BY DEF vars, life, Returns, Records, Parks, Resumes, CompletesResumed, RejectsRun, Crash, Goes,
         RowsTyped
<1> QED BY <1>1, <1>2, <1>3, QuietStep DEF BooksInv, BooksTyped

\* The money of an attempt is settled or released when it does not call.
LEMMA MoneyBooks ==
  ASSUME IInv, BooksInv, ReconciledIsSettled,
         NEW a \in Attempt,
         SettlesAttempt(a) \/ ReleasesAttempt(a) \/ UNCHANGED <<ledger, broken>>,
         phase'[a] # "calling", \A b \in Attempt : phase'[b] = "calling" => phase[b] = "calling",
         UNCHANGED <<call, recorded, failure>>
  PROVE  BooksInv' /\ ReconciledIsSettled' /\ StepCovers
<1> USE DEF IInv, BooksInv
<1>1. /\ ReservationsTyped' /\ \A b \in Attempt \ {a} : Kept(b)
      /\ Books(a) \/ Kept(a) \/ Reserves(a)
      /\ broken' = broken \/ broken' = broken \cup {a}
  <2>1. CASE SettlesAttempt(a)
    BY <2>1, SettlesBooks
  <2>2. CASE ReleasesAttempt(a)
    BY <2>2, ReleaseReserves
  <2>3. CASE UNCHANGED <<ledger, broken>>
    BY <2>3, LedgerRests
  <2> QED BY <2>1, <2>2, <2>3
<1>2. broken \subseteq broken' /\ broken' \subseteq Attempt /\ broken' \ broken \subseteq {a}
  BY <1>1 DEF BooksTyped
<1>3. \A b \in Attempt :
        \/ Kept(b) \/ Reserves(b)
        \/ Books(b) /\ (phase'[b] # "calling" \/ \A k \in Key : call[b][k] # "started")
  BY <1>1
<1> QED BY <1>1, <1>2, <1>3, QuietStep

\* A lead that ends without looking for lost calls settles or releases itself.
LEMMA EndsBooks ==
  ASSUME IInv, BooksInv, ReconciledIsSettled, SettlesDirectly \/ RejectSettles
  PROVE  BooksInv' /\ ReconciledIsSettled' /\ StepCovers
<1>1. /\ SettlesAttempt(Lead) \/ ReleasesAttempt(Lead)
      /\ UNCHANGED <<call, recorded, failure>>
      /\ phase' = [phase EXCEPT ![Lead] = "ended"]
  BY DEF SettlesDirectly, RejectSettles, Goes
<1>2. phase'[Lead] # "calling" /\ \A b \in Attempt : phase'[b] = "calling" => phase[b] = "calling"
  BY <1>1, AttemptAssumption DEF IInv, RowsTyped
<1> QED BY <1>1, <1>2, AttemptAssumption, MoneyBooks

\* A finalization that has looked for lost calls settles or releases its attempt.
LEMMA ActsBooks ==
  ASSUME IInv, BooksInv, ReconciledIsSettled, NEW a \in Attempt, NEW who \in Who, FinalizeActs(a, who)
  PROVE  BooksInv' /\ ReconciledIsSettled' /\ StepCovers
<1>1. /\ SettlesAttempt(a) \/ ReleasesAttempt(a) \/ UNCHANGED <<ledger, broken>>
      /\ UNCHANGED <<call, recorded, failure>>
      /\ phase' = phase \/ phase' = [phase EXCEPT ![a] = "ended"]
  BY DEF FinalizeActs
<1>2. phase[a] # "calling"
  BY DEF FinalizeActs, IInv, MarkedIsOver, Working
<1>3. phase'[a] # "calling" /\ \A b \in Attempt : phase'[b] = "calling" => phase[b] = "calling"
  BY <1>1, <1>2 DEF IInv, RowsTyped
<1> QED BY <1>1, <1>3, MoneyBooks

\* A recovery gives back what orphans hold and settles nothing.
LEMMA RecoverBooks ==
  ASSUME IInv, BooksInv, ReconciledIsSettled, Recover
  PROVE  BooksInv' /\ ReconciledIsSettled' /\ StepCovers
<1> DEFINE freed == {a \in Orphans : ~UnknownToRecovery(a)}
<1>1. UNCHANGED <<call, recorded, failure, broken>>
  BY DEF Recover, rows
<1>2. ReservationsTyped' /\ \A b \in Attempt : Kept(b) \/ Reserves(b)
  <2>1. CASE UNCHANGED ledger
    BY <2>1, LedgerRests DEF IInv, BooksInv
  <2>2. CASE ReleaseOrphaned(freed)
    <3>1. /\ state' = [r \in Attempt |-> IF r \in freed /\ state[r] = "reserved"
                                         THEN "released" ELSE state[r]]
          /\ UNCHANGED <<usage, cost>>
      BY <2>2, AttemptAssumption DEF ReleaseOrphaned
    <3> HIDE DEF freed
    <3> QED BY <3>1 DEF IInv, RowsTyped, BooksInv, BooksTyped, ReservationsTyped, Kept, Reserves
  <2> QED BY <2>1, <2>2 DEF Recover
<1>3. \A b \in Attempt : phase'[b] = "calling" => phase[b] = "calling"
  BY DEF Recover, IInv, RowsTyped
<1> QED BY <1>1, <1>2, <1>3, QuietStep DEF IInv, BooksInv, BooksTyped

-----------------------------------------------------------------------------
\* What the run was observed to cost.
Paid == {x \in Attempt \X Key : call[x[1]][x[2]] = "completed" /\ x[2] \in Priced(x[1])}
Amounts == [x \in Attempt \X Key |-> recorded[x[1]][x[2]]]

\* The most a call costs.
TopCost == CHOOSE m \in Costs : \A c \in Costs : c <= m

\* A bound on what one call costs exists.
LEMMA TopCostBounds == TopCost \in Nat /\ \A c \in Costs : c <= TopCost
BY CostAssumption DEF TopCost

\* What was observed is a sum over the calls with a recorded cost.
LEMMA ObservedIsSum == Observed = SumOf(Amounts, Paid)
<1> DEFINE P(f) == f = [s \in SUBSET Paid |-> IF s = {} THEN 0
                        ELSE recorded[Pick(s)[1]][Pick(s)[2]] + f[s \ {Pick(s)}]]
<1>1. Observed = (CHOOSE f : P(f))[Paid]
  BY DEF Observed, Paid, MapThenSumSet, MapThenFoldSet, Pick
<1>2. ASSUME NEW s \in SUBSET Paid, s # {}
      PROVE  Amounts[Pick(s)] = recorded[Pick(s)[1]][Pick(s)[2]]
  BY <1>2, PickIn DEF Amounts, Paid
<1>3. \A f : P(f) <=> AddsUp(f, Amounts, Paid)
  BY <1>2 DEF AddsUp
<1>4. (CHOOSE f : P(f)) = (CHOOSE f : AddsUp(f, Amounts, Paid))
  <2> HIDE DEF P
  <2> QED BY <1>3
<1> QED BY <1>1, <1>4, SumUnfolds

\* The same of the next state.
LEMMA ObservedNextIsSum == Observed' = SumOf(Amounts', Paid')
<1> DEFINE P(f) == f = [s \in SUBSET Paid' |-> IF s = {} THEN 0
                        ELSE recorded'[Pick(s)[1]][Pick(s)[2]] + f[s \ {Pick(s)}]]
<1>1. Observed' = (CHOOSE f : P(f))[Paid']
  BY DEF Observed, Paid, Priced, MapThenSumSet, MapThenFoldSet, Pick
<1>2. ASSUME NEW s \in SUBSET Paid', s # {}
      PROVE  Amounts'[Pick(s)] = recorded'[Pick(s)[1]][Pick(s)[2]]
  BY <1>2, PickIn DEF Amounts, Paid
<1>3. \A f : P(f) <=> AddsUp(f, Amounts', Paid')
  BY <1>2 DEF AddsUp
<1>4. (CHOOSE f : P(f)) = (CHOOSE f : AddsUp(f, Amounts', Paid'))
  <2> HIDE DEF P
  <2> QED BY <1>3
<1> QED BY <1>1, <1>4, SumUnfolds

\* There are finitely many of them, so the sum is a natural number.
LEMMA PaidFinite ==
  ASSUME BooksTyped
  PROVE  /\ IsFiniteSet(Paid) /\ \A x \in Paid : Amounts[x] \in Nat
         /\ Observed \in Nat
<1>1. IsFiniteSet(Attempt \X Key)
  BY FS_Product, AttemptAssumption
<1>2. IsFiniteSet(Paid)
  BY <1>1, FS_Subset DEF Paid
<1>3. \A x \in Paid : Amounts[x] \in Nat
  BY CostAssumption DEF Paid, Priced, Amounts
<1> QED BY <1>2, <1>3, ObservedIsSum, SumNat

\* Nothing is observed by a step that completes no priced call.
LEMMA ObservedSame ==
  ASSUME BooksTyped,
         \A a \in Attempt, k \in Key :
           recorded'[a][k] = recorded[a][k] /\
           (recorded[a][k] \in Costs => (call'[a][k] = "completed" <=> call[a][k] = "completed"))
  PROVE  Observed' = Observed
<1>1. Paid' = Paid
  BY DEF Paid, Priced
<1>2. \A x \in Paid : Amounts'[x] = Amounts[x]
  BY DEF Paid, Amounts
<1> QED BY <1>1, <1>2, PaidFinite, ObservedIsSum, ObservedNextIsSum, SumSame

\* A call that completes adds its cost, if it has one.
LEMMA ObservedGrows ==
  ASSUME RowsTyped, BooksInv, NEW a \in Attempt, NEW k \in Key, NEW c \in Pricings, Answered(a, k, c)
  PROVE  Observed' <= Observed + TopCost
<1> DEFINE x == <<a, k>>
<1>1. /\ call[a][k] = "started" /\ call'[a][k] = "completed" /\ recorded'[a][k] = c
      /\ \A b \in Attempt, j \in Key : b # a \/ j # k =>
           call'[b][j] = call[b][j] /\ recorded'[b][j] = recorded[b][j]
  BY DEF Answered, InFlight, Set, RowsTyped, BooksInv, BooksTyped
<1>2. x \in Attempt \X Key /\ x \notin Paid
  BY <1>1 DEF Paid
<1>3. \A y \in Attempt \X Key : y # x => y[1] # a \/ y[2] # k
  OBVIOUS
<1>4. Paid' = IF c \in Costs THEN Paid \cup {x} ELSE Paid
  BY <1>1, <1>2, <1>3 DEF Paid, Priced
<1>5. \A y \in Paid : Amounts'[y] = Amounts[y]
  BY <1>1, <1>2, <1>3 DEF Paid, Amounts
<1>6. Amounts'[x] = c
  BY <1>1, <1>2 DEF Amounts
<1>7. /\ IsFiniteSet(Paid) /\ \A y \in Paid : Amounts[y] \in Nat
      /\ Observed \in Nat /\ TopCost \in Nat /\ \A m \in Costs : m \in Nat /\ m <= TopCost
  BY PaidFinite, TopCostBounds, CostAssumption DEF BooksInv
<1> HIDE DEF x
<1>8. SumOf(Amounts', Paid) = Observed
  BY <1>5, <1>7, SumSame, ObservedIsSum
<1>9. CASE c \in Costs
  <2>1. Observed' = Amounts'[x] + SumOf(Amounts', Paid)
    BY <1>2, <1>4, <1>5, <1>6, <1>7, <1>9, SumWith, ObservedNextIsSum
  <2> QED BY <1>6, <1>7, <1>8, <1>9, <2>1
<1>10. CASE c \notin Costs
  BY <1>4, <1>7, <1>8, <1>10, ObservedNextIsSum
<1> QED BY <1>9, <1>10

\* The attempts that wait for a provider, each with room for one call.
Flying == {a \in Attempt : phase[a] = "calling"}
Room == Observed + Cardinality(Flying) * TopCost < Limit + Cardinality(Attempt) * TopCost

\* The counts of attempts and the amounts are natural numbers.
LEMMA RoomFacts ==
  /\ \A S \in SUBSET Attempt : IsFiniteSet(S) /\ Cardinality(S) \in Nat /\ Cardinality(S) <= Cardinality(Attempt)
  /\ Cardinality(Attempt) \in Nat /\ TopCost \in Nat /\ Limit \in Nat
BY AttemptAssumption, CostAssumption, TopCostBounds, FS_Subset, FS_CardinalityType

\* Fewer calls cost less.
LEMMA FewerCostLess ==
  ASSUME NEW m \in Nat, NEW n \in Nat, NEW c \in Nat, m <= n PROVE m * c <= n * c
<1>1. PICK d \in Nat : n = m + d
  <2>1. n - m \in Nat /\ n = m + (n - m)
    OBVIOUS
  <2> QED BY <2>1
<1>2. n * c = m * c + d * c /\ d * c \in Nat
  BY <1>1
<1> QED BY <1>2

\* A step that observes nothing and lets nobody call keeps the room.
LEMMA RoomRests ==
  ASSUME BooksTyped, BooksTyped', Room, Observed' = Observed,
         \A b \in Attempt : phase'[b] = "calling" => phase[b] = "calling"
  PROVE  Room'
<1>1. Flying' \subseteq Flying /\ Flying \subseteq Attempt
  BY DEF Flying
<1>2. Cardinality(Flying') <= Cardinality(Flying) /\ Cardinality(Flying') \in Nat /\ Cardinality(Flying) \in Nat
  BY <1>1, RoomFacts, FS_Subset
<1>3. Cardinality(Flying') * TopCost <= Cardinality(Flying) * TopCost
  BY <1>2, RoomFacts, FewerCostLess
<1>4. Cardinality(Flying') * TopCost \in Nat /\ Cardinality(Flying) * TopCost \in Nat /\ Cardinality(Attempt) * TopCost \in Nat
  BY <1>2, RoomFacts
<1>5. Room <=> Observed + Cardinality(Flying) * TopCost < Limit + Cardinality(Attempt) * TopCost
  BY DEF Room
<1>6. Room' <=> Observed' + Cardinality(Flying') * TopCost < Limit + Cardinality(Attempt) * TopCost
  BY DEF Room
<1>7. Observed \in Nat
  BY PaidFinite
<1> QED BY <1>3, <1>4, <1>5, <1>6, <1>7, RoomFacts

\* A request goes out only while less than the limit was observed.
LEMMA CallsRoom ==
  ASSUME RowsTyped, BooksTyped, BooksTyped', NEW a \in Attempt, NEW k \in Key, Calls(a, k)
  PROVE  Room'
<1>1. Observed' = Observed
  <2>1. UNCHANGED recorded /\ \A b \in Attempt, j \in Key : call'[b][j] = "completed" <=> call[b][j] = "completed"
    BY DEF Calls, MayBegin, Set, RowsTyped
  <2> QED BY <2>1, ObservedSame
<1>2. Observed < Limit
  BY DEF Calls, MayBegin
<1>3. Flying' \in SUBSET Attempt
  BY DEF Flying
<1>4. Cardinality(Flying') * TopCost <= Cardinality(Attempt) * TopCost
  BY <1>3, RoomFacts, FewerCostLess
<1>5. Cardinality(Flying') * TopCost \in Nat /\ Cardinality(Attempt) * TopCost \in Nat
  BY <1>3, RoomFacts
<1>6. Room' <=> Observed' + Cardinality(Flying') * TopCost < Limit + Cardinality(Attempt) * TopCost
  BY DEF Room
<1>7. Observed \in Nat
  BY PaidFinite
<1> QED BY <1>1, <1>2, <1>4, <1>5, <1>6, <1>7, RoomFacts

\* An answer uses up the room that was kept for it.
LEMMA AnsweredRoom ==
  ASSUME RowsTyped, BooksInv, BooksTyped', Room, NEW a \in Attempt, NEW k \in Key, NEW c \in Pricings,
         Answered(a, k, c)
  PROVE  Room'
<1>1. Observed' <= Observed + TopCost
  BY ObservedGrows
<1>2. Flying' = Flying \ {a} /\ a \in Flying /\ Flying \in SUBSET Attempt
  BY DEF Answered, Goes, Flying, RowsTyped
<1>3. IsFiniteSet(Flying) /\ Cardinality(Flying) \in Nat
  BY <1>2, RoomFacts
<1>4. Cardinality(Flying') = Cardinality(Flying) - 1 /\ Cardinality(Flying') \in Nat
  <2>1. Cardinality(Flying \ {a}) = Cardinality(Flying) - 1 /\ IsFiniteSet(Flying \ {a})
    BY <1>2, <1>3, FS_RemoveElement
  <2>2. Cardinality(Flying \ {a}) \in Nat
    BY <2>1, FS_CardinalityType
  <2> QED BY <1>2, <2>1, <2>2
<1>5. Cardinality(Flying) * TopCost = Cardinality(Flying') * TopCost + TopCost
  BY <1>3, <1>4, RoomFacts
<1>6. Cardinality(Flying') * TopCost \in Nat /\ Cardinality(Attempt) * TopCost \in Nat
  BY <1>4, RoomFacts
<1>7. Room <=> Observed + Cardinality(Flying) * TopCost < Limit + Cardinality(Attempt) * TopCost
  BY DEF Room
<1>8. Room' <=> Observed' + Cardinality(Flying') * TopCost < Limit + Cardinality(Attempt) * TopCost
  BY DEF Room
<1>9. Observed \in Nat
  BY PaidFinite DEF BooksInv
<1>10. Observed' \in Nat
  <2>1. IsFiniteSet(Attempt \X Key)
    BY FS_Product, AttemptAssumption
  <2>2. IsFiniteSet(Paid') /\ \A x \in Paid' : Amounts'[x] \in Nat
    BY <2>1, FS_Subset, CostAssumption DEF Paid, Priced, Amounts
  <2> QED BY <2>2, ObservedNextIsSum, SumNat
<1> QED BY <1>1, <1>5, <1>6, <1>7, <1>8, <1>9, <1>10, RoomFacts

-----------------------------------------------------------------------------
MoneyInv == BooksInv /\ ReconciledIsSettled /\ Covered /\ Room

\* Before the first attempt there is nothing in the books.
LEMMA InitMoneyInv == Init => MoneyInv
<1> SUFFICES ASSUME Init PROVE MoneyInv
  OBVIOUS
<1> USE DEF Init, LedgerInit, Uncalled
<1>1. BooksTyped
  BY DEF BooksTyped
<1>2. BooksInv
  BY <1>1, CostAssumption DEF BooksInv, UsageSettles, RowsAreCompleted, AmbiguousHasFailure,
     NothingOpenInFlight, AnotherLost, SettledAtRest
<1>3. ReconciledIsSettled /\ Covered
  BY DEF ReconciledIsSettled, Resolved, Estimated, Covered
<1>4. Paid = {} /\ Flying = {}
  BY DEF Paid, Flying
<1>5. Observed = 0 /\ Cardinality(Flying) = 0
  BY <1>4, ObservedIsSum, SumEmpty, FS_EmptySet
<1>6. Cardinality(Attempt) * TopCost \in Nat /\ 0 * TopCost = 0
  BY RoomFacts
<1>7. Room
  BY <1>5, <1>6, CostAssumption DEF Room
<1> QED BY <1>2, <1>3, <1>7 DEF MoneyInv

\* A step that changes no row of a call keeps the room.
LEMMA RowsRoom ==
  ASSUME BooksTyped, BooksTyped', Room, recorded' = recorded,
         \A a \in Attempt, k \in Key :
           recorded[a][k] \in Costs => (call'[a][k] = "completed" <=> call[a][k] = "completed"),
         \A b \in Attempt : phase'[b] = "calling" => phase[b] = "calling"
  PROVE  Room'
BY ObservedSame, RoomRests

\* An answer that is not recorded, and every other end of a call, observes
\* nothing: what has no row has no cost.
LEMMA EndsRoom ==
  ASSUME RowsTyped, BooksInv, BooksTyped', Room, NEW a \in Attempt, NEW k \in Key,
         \/ AnsweredUnrecorded(a, k) \/ Rejected(a, k) \/ Ambiguous(a, k) \/ OutcomeLost(a, k)
  PROVE  Room'
<1>1. /\ recorded' = recorded /\ call[a][k] = "started"
      /\ \A b \in Attempt, j \in Key : b # a \/ j # k => call'[b][j] = call[b][j]
      /\ \A b \in Attempt : phase'[b] = "calling" => phase[b] = "calling"
  BY DEF AnsweredUnrecorded, MarkSucceeded, Rejected, Ambiguous, OutcomeLost, InFlight, Goes, Set, rows,
         RowsTyped
<1>2. recorded[a][k] \notin Costs
  BY <1>1, CostAssumption DEF BooksInv, RowsAreCompleted
<1> QED BY <1>1, <1>2, RowsRoom DEF BooksInv

\* A call that ends is booked where it has a cost, and settles nothing.
LEMMA CallEndsMoney ==
  ASSUME IInv, MoneyInv, NEW a \in Attempt, NEW k \in Key,
         \/ AnsweredUnrecorded(a, k) \/ Rejected(a, k) \/ Ambiguous(a, k) \/ OutcomeLost(a, k)
         \/ \E c \in Pricings : Answered(a, k, c)
  PROVE  BooksInv' /\ ReconciledIsSettled' /\ StepCovers
<1> USE DEF IInv, MoneyInv
<1>1. /\ InFlight(a, k) /\ UNCHANGED <<ledger, broken>>
      /\ phase'[a] # "calling" /\ \A b \in Attempt \ {a} : phase'[b] = phase[b]
  BY DEF AnsweredUnrecorded, Rejected, Ambiguous, OutcomeLost, Answered, Goes, RowsTyped, rows
<1>2. \E v \in {"started", "completed", "rejected", "ambiguous"} :
        /\ call' = Set(call, a, k, v)
        /\ \/ UNCHANGED recorded
           \/ v = "completed" /\ \E c \in Pricings : recorded' = Set(recorded, a, k, c)
        /\ failure' = IF v = "ambiguous" THEN Set(failure, a, k, "open") ELSE failure
  <2>1. CASE OutcomeLost(a, k)
    <3>1. call' = Set(call, a, k, "started")
      BY <2>1 DEF OutcomeLost, InFlight, Set, rows, RowsTyped
    <3> QED BY <2>1, <3>1 DEF OutcomeLost, rows
  <2>2. CASE AnsweredUnrecorded(a, k)
    BY <2>2 DEF AnsweredUnrecorded, MarkSucceeded
  <2>3. CASE Rejected(a, k)
    BY <2>3 DEF Rejected
  <2>4. CASE Ambiguous(a, k)
    BY <2>4 DEF Ambiguous
  <2>5. CASE \E c \in Pricings : Answered(a, k, c)
    BY <2>5 DEF Answered
  <2> QED BY <2>1, <2>2, <2>3, <2>4, <2>5
<1> QED BY <1>1, <1>2, CallEndsBooks

\* Every step keeps the books.
LEMMA StepBooks ==
  ASSUME IInv, MoneyInv, [Next]_vars
  PROVE  BooksInv' /\ ReconciledIsSettled' /\ StepCovers
<1> USE DEF IInv, MoneyInv
<1>1. ASSUME NEW a \in Attempt, WorkerStep(a) PROVE BooksInv' /\ ReconciledIsSettled' /\ StepCovers
  <2>1. CASE Starts(a)
    BY <2>1, StartsBooks
  <2>2. CASE Returns(a) \/ Records(a)
    BY <2>2, LifeBooks
  <2>3. ASSUME NEW k \in Key, Calls(a, k) PROVE BooksInv' /\ ReconciledIsSettled' /\ StepCovers
    BY <2>3, CallsBooks
  <2>4. ASSUME NEW k \in Key,
               \/ AnsweredUnrecorded(a, k) \/ Rejected(a, k) \/ Ambiguous(a, k) \/ OutcomeLost(a, k)
               \/ \E c \in Pricings : Answered(a, k, c)
        PROVE  BooksInv' /\ ReconciledIsSettled' /\ StepCovers
    BY <2>4, CallEndsMoney
  <2> QED BY <1>1, <2>1, <2>2, <2>3, <2>4 DEF WorkerStep
<1>2. CASE Parks \/ Resumes \/ CompletesResumed \/ RejectsRun \/ Crash \/ UNCHANGED vars
  BY <1>2, LifeBooks
<1>3. CASE SettlesDirectly \/ RejectSettles
  BY <1>3, EndsBooks
<1>4. ASSUME NEW a \in Attempt, NEW who \in Who, FinalizeMarks(a, who) \/ FinalizeActs(a, who)
      PROVE  BooksInv' /\ ReconciledIsSettled' /\ StepCovers
  BY <1>4, MarksBooks, ActsBooks
<1>5. ASSUME NEW a \in Attempt, NEW k \in Key, Reconcile(a, k)
      PROVE  BooksInv' /\ ReconciledIsSettled' /\ StepCovers
  BY <1>5, ReconcileBooks
<1>6. CASE Recover
  BY <1>6, RecoverBooks
<1> QED BY <1>1, <1>2, <1>3, <1>4, <1>5, <1>6 DEF Next

\* Every step keeps the room.
LEMMA StepRoom ==
  ASSUME IInv, MoneyInv, BooksTyped', [Next]_vars PROVE Room'
<1> USE DEF IInv, MoneyInv, BooksInv
<1>1. ASSUME NEW a \in Attempt, NEW k \in Key, Calls(a, k) PROVE Room'
  BY <1>1, CallsRoom
<1>2. ASSUME NEW a \in Attempt, NEW k \in Key, NEW c \in Pricings, Answered(a, k, c) PROVE Room'
  BY <1>2, AnsweredRoom
<1>3. ASSUME NEW a \in Attempt, NEW k \in Key,
             \/ AnsweredUnrecorded(a, k) \/ Rejected(a, k) \/ Ambiguous(a, k) \/ OutcomeLost(a, k)
      PROVE  Room'
  BY <1>3, EndsRoom
<1>4. ASSUME UNCHANGED <<call, recorded>>,
             \A b \in Attempt : phase'[b] = "calling" => phase[b] = "calling"
      PROVE  Room'
  BY <1>4, RowsRoom
<1>5. CASE \/ \E a \in Attempt : Starts(a) \/ Returns(a) \/ Records(a)
           \/ Parks \/ Resumes \/ CompletesResumed \/ RejectsRun \/ Crash \/ UNCHANGED vars
  <2>1. UNCHANGED <<call, recorded>>
    BY <1>5 DEF Starts, Returns, Records, Parks, Resumes, CompletesResumed, RejectsRun, Crash, vars, rows
  <2>2. \A b \in Attempt : phase'[b] = "calling" => phase[b] = "calling"
    BY <1>5 DEF Starts, Returns, Records, Parks, Resumes, CompletesResumed, RejectsRun, Crash, vars, life,
       Goes, RowsTyped
  <2> QED BY <1>4, <2>1, <2>2
<1>6. CASE \/ SettlesDirectly \/ RejectSettles \/ Recover
           \/ \E a \in Attempt, who \in Who : FinalizeActs(a, who)
           \/ \E a \in Attempt, k \in Key : Reconcile(a, k)
  <2>1. UNCHANGED <<call, recorded>>
    BY <1>6 DEF SettlesDirectly, RejectSettles, Recover, FinalizeActs, Reconcile, rows
  <2>2. \A b \in Attempt : phase'[b] = "calling" => phase[b] = "calling"
    BY <1>6 DEF SettlesDirectly, RejectSettles, Recover, FinalizeActs, Reconcile, life, Goes, RowsTyped
  <2> QED BY <1>4, <2>1, <2>2
<1>7. ASSUME NEW a \in Attempt, NEW who \in Who, FinalizeMarks(a, who) PROVE Room'
  <2>1. /\ UNCHANGED <<recorded, phase>>
        /\ \A b \in Attempt, k \in Key : call'[b][k] = "completed" <=> call[b][k] = "completed"
    BY <1>7 DEF FinalizeMarks, AtLost, RowsTyped
  <2> QED BY <2>1, RowsRoom
<1> QED BY <1>1, <1>2, <1>3, <1>5, <1>6, <1>7 DEF Next, WorkerStep

\* In every reachable state the books know the calls.
THEOREM MoneyInvariance == Spec => []MoneyInv
<1>1. Init => MoneyInv
  BY InitMoneyInv
<1>2. IInv /\ MoneyInv /\ [Next]_vars => MoneyInv'
  <2> SUFFICES ASSUME IInv, MoneyInv, [Next]_vars PROVE MoneyInv'
    OBVIOUS
  <2>1. BooksInv' /\ ReconciledIsSettled' /\ StepCovers
    BY StepBooks
  <2>2. Covered'
    BY <2>1, CoverKept DEF MoneyInv, BooksInv
  <2>3. Room'
    BY <2>1, StepRoom DEF BooksInv
  <2> QED BY <2>1, <2>2, <2>3 DEF MoneyInv
<1> QED BY <1>1, <1>2, CallsInvariance, PTL DEF Spec

\* settle_attempt and reconcile_ambiguous_call never settle an attempt below what
\* its calls are known to have cost, nor below the estimate while one of them has
\* no measured cost; and a reconciliation that comes to its end settles.
THEOREM SettlementsCover == Spec => []SettledCoversCalls
<1>1. MoneyInv => SettledCoversCalls
  <2> SUFFICES ASSUME MoneyInv, NEW a \in Attempt
               PROVE  /\ state[a] = "settled" =>
                           /\ cost[a] >= Known(a)
                           /\ (Unaccounted(a) # {} \/ \E k \in Key : recorded[a][k] = Unpriced)
                                => cost[a] >= Estimate
                      /\ /\ \E k \in Key : failure[a][k] = "estimated"
                         /\ \A k \in Key : call[a][k] # "started" /\ k \notin Uncertain(a)
                         /\ a \notin broken
                         => state[a] = "settled"
    BY DEF SettledCoversCalls
  <2>1. state[a] = "settled" =>
           /\ cost[a] >= Known(a)
           /\ (Unaccounted(a) # {} \/ \E k \in Key : recorded[a][k] = Unpriced) => cost[a] >= Estimate
    BY DEF MoneyInv, Covered, Unmeasured
  <2>2. Resolved(a) => state[a] = "settled"
    BY DEF MoneyInv, ReconciledIsSettled
  <2> QED BY <2>1, <2>2 DEF Resolved, Estimated
<1> QED BY <1>1, MoneyInvariance, PTL

\* begin_call refuses when what was observed reached the limit: however attempts
\* run side by side, each takes the run past its limit by one call at most.
THEOREM OvershootIsBounded == Spec => []OvershootBounded
<1>1. MoneyInv => OvershootBounded
  <2> SUFFICES ASSUME MoneyInv PROVE Observed < Limit + Cardinality(Attempt) * TopCost
    BY DEF OvershootBounded, TopCost
  <2>1. Cardinality(Flying) * TopCost \in Nat /\ Cardinality(Attempt) * TopCost \in Nat
    BY RoomFacts DEF Flying
  <2>2. Observed + Cardinality(Flying) * TopCost < Limit + Cardinality(Attempt) * TopCost
    BY DEF MoneyInv, Room
  <2>3. Observed \in Nat
    BY PaidFinite DEF MoneyInv, BooksInv
  <2> QED BY <2>1, <2>2, <2>3, RoomFacts
<1> QED BY <1>1, MoneyInvariance, PTL
=============================================================================
