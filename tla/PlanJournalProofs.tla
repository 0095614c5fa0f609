-------------------------- MODULE PlanJournalProofs --------------------------
(***************************************************************************)
(* Proofs about PlanJournal, for every set of nodes, every set of plans a  *)
(* lead may submit and every bound on revisions.                           *)
(***************************************************************************)
EXTENDS PlanJournal, TLAPS

\* What survives every operation of the coordinator, besides the types:
\* dependencies stay inside the plan, retired and unused ids are told apart,
\* and only a node whose prerequisites succeeded was ever begun.
WellFormed ==
  /\ active \cap retired = {}
  /\ \A n \in active : payload[n].deps \subseteq active \ {n}
  /\ \A n \in Node \ (active \cup retired) : status[n] = "absent" /\ exec[n] = "none"
  /\ revision = 0 => active = {} /\ retired = {}

BegunAfterDependencies ==
  \A n \in active : exec[n] # "none" =>
    \A d \in payload[n].deps : status[d] = "succeeded"

\* A replaced node is dead, and it is only ever blocked if it never began;
\* so a late approval result cannot be retried on it.
RetiredDead ==
  \A n \in retired :
    /\ status[n] \in {"cancelled", "blocked"}
    /\ exec[n] # "none" => status[n] = "cancelled"

\* A result is stored exactly when the execution is settled.
ResultsSettled == \A n \in Node : result[n] # "none" <=> exec[n] = "settled"

IInv ==
  /\ TypeOK /\ WellFormed
  /\ DependenciesSucceeded /\ NoLostRelease
  /\ BegunAfterDependencies /\ RetiredDead /\ ResultsSettled

-----------------------------------------------------------------------------
\* A node with a prerequisite in S is downstream of S: failure propagation
\* misses no direct dependent (the fixpoint loops of transition_plan_node_state
\* and revise_plan).
LEMMA DependentIsDownstream ==
  ASSUME NEW ids, NEW pay, NEW S, NEW m \in ids, pay[m].deps \cap S # {}
  PROVE  m \in Downstream(ids, pay, S)
BY DEF Downstream

\* Conversely nothing outside a set that holds S and is closed under
\* dependents is ever reached.
LEMMA DownstreamLeast ==
  ASSUME NEW ids, NEW pay, NEW S, NEW C \in SUBSET (ids \cup S), S \subseteq C,
         \A m \in ids : pay[m].deps \cap C # {} => m \in C
  PROVE  Downstream(ids, pay, S) \subseteq C
BY DEF Downstream

\* The shape of what one transition leaves: the node itself takes the target,
\* a waiting node may become ready (all its prerequisites having succeeded) or
\* blocked, and nothing else moves.
LEMMA AfterShape ==
  ASSUME TypeOK, NEW n \in active, NEW target \in {"launching", "running"} \cup Terminal,
         status[n] # "waiting"
  PROVE  /\ After(n, target) \in [Node -> States]
         /\ After(n, target)[n] = target
         /\ \A m \in Node \ {n} :
              \/ After(n, target)[m] = status[m]
              \/ /\ m \in active /\ status[m] = "waiting"
                 /\ \/ After(n, target)[m] = "blocked"
                    \/ /\ After(n, target)[m] = "ready"
                       /\ \A d \in payload[m].deps :
                            (IF d = n THEN target ELSE status[d]) = "succeeded"
         /\ target = "succeeded" =>
              \A m \in active \ {n} :
                After(n, target)[m] = "waiting" =>
                  \E d \in payload[m].deps : After(n, target)[d] # "succeeded"
         /\ target \in Dead =>
              \A m \in active \ {n} :
                n \in payload[m].deps => After(n, target)[m] # "waiting"
<1> DEFINE st == [status EXCEPT ![n] = target]
<1>0. /\ n \in Node
      /\ st \in [Node -> States]
      /\ payload \in [Node -> Payload]
      /\ \A m \in Node : payload[m].deps \subseteq Node
      /\ \A m \in Node : st[m] = IF m = n THEN target ELSE status[m]
  BY DEF TypeOK, States, Launched, Terminal, Dead, Payload
<1>1. CASE target = "succeeded"
  <2>1. After(n, target) = Released(st)
    BY <1>1 DEF After, Dead
  <2>2. \A m \in Node :
          Released(st)[m] = IF /\ m \in active /\ st[m] = "waiting"
                               /\ \A d \in payload[m].deps : st[d] = "succeeded"
                            THEN "ready" ELSE st[m]
    BY DEF Released
  <2>3. Released(st) \in [Node -> States]
    BY <1>0 DEF Released, States
  <2>4. Released(st)[n] = target
    BY <1>0, <1>1, <2>2 DEF TypeOK
  <2>5. \A m \in active \ {n} : Released(st)[m] = "waiting" =>
          \E d \in payload[m].deps : Released(st)[d] # "succeeded"
    BY <1>0, <2>2 DEF TypeOK
  <2>6. \A m \in Node \ {n} :
          \/ Released(st)[m] = status[m]
          \/ /\ m \in active /\ status[m] = "waiting"
             /\ Released(st)[m] = "ready"
             /\ \A d \in payload[m].deps :
                  (IF d = n THEN target ELSE status[d]) = "succeeded"
    <3> SUFFICES ASSUME NEW m \in Node \ {n}, Released(st)[m] # status[m]
                 PROVE  /\ m \in active /\ status[m] = "waiting"
                        /\ Released(st)[m] = "ready"
                        /\ \A d \in payload[m].deps :
                             (IF d = n THEN target ELSE status[d]) = "succeeded"
      OBVIOUS
    <3>1. st[m] = status[m]
      BY <1>0
    <3> HIDE DEF st
    <3>2. /\ m \in active /\ st[m] = "waiting" /\ Released(st)[m] = "ready"
          /\ \A d \in payload[m].deps : st[d] = "succeeded"
      BY <2>2, <3>1
    <3>3. \A d \in payload[m].deps : st[d] = IF d = n THEN target ELSE status[d]
      BY <1>0
    <3> QED BY <3>1, <3>2, <3>3
  <2> QED
    <3> HIDE DEF st
    <3> QED BY <1>0, <1>1, <2>1, <2>3, <2>4, <2>5, <2>6 DEF Dead
<1>2. CASE target \in Dead
  <2>1. After(n, target) = Blocked(st, {n})
    BY <1>2 DEF After, Dead
  <2>2. \A m \in Node :
          Blocked(st, {n})[m] =
            IF m \in active \cap Downstream(active, payload, {n}) /\ st[m] = "waiting"
            THEN "blocked" ELSE st[m]
    BY DEF Blocked
  <2>3. Blocked(st, {n}) \in [Node -> States]
    BY <1>0 DEF Blocked, States, Terminal, Dead
  <2>4. Blocked(st, {n})[n] = target
    BY <1>0, <1>2, <2>2 DEF TypeOK, Dead
  <2>5. \A m \in active \ {n} : n \in payload[m].deps => Blocked(st, {n})[m] # "waiting"
    <3> SUFFICES ASSUME NEW m \in active \ {n}, n \in payload[m].deps
                 PROVE  Blocked(st, {n})[m] # "waiting"
      OBVIOUS
    <3>1. m \in Downstream(active, payload, {n})
      BY DependentIsDownstream
    <3> QED BY <1>0, <2>2, <3>1 DEF TypeOK
  <2>6. \A m \in Node \ {n} :
          \/ Blocked(st, {n})[m] = status[m]
          \/ m \in active /\ status[m] = "waiting" /\ Blocked(st, {n})[m] = "blocked"
    BY <1>0, <2>2 DEF TypeOK
  <2> QED BY <1>2, <2>1, <2>3, <2>4, <2>5, <2>6 DEF Dead
<1>3. CASE target \in {"launching", "running"}
  <2>1. After(n, target) = st
    BY <1>3 DEF After, Dead
  <2> QED BY <1>0, <1>3, <2>1 DEF TypeOK, Dead
<1> QED BY <1>1, <1>2, <1>3 DEF Terminal

-----------------------------------------------------------------------------
LEMMA InitIInv == Init => IInv
BY NodeAssumption, RevisionAssumption
   DEF Init, IInv, TypeOK, WellFormed, DependenciesSucceeded, NoLostRelease,
       BegunAfterDependencies, RetiredDead, ResultsSettled, States, Payload, Kinds

\* admit_plan writes the whole graph at once.
LEMMA AdmitIInv ==
  ASSUME IInv, NEW p \in Plans, AdmitPlan(p)
  PROVE  IInv'
<1> USE DEF IInv
<1>0. /\ p \in [DOMAIN p -> Payload] /\ DOMAIN p \subseteq Node
      /\ \A n \in DOMAIN p : p[n].deps \subseteq DOMAIN p \ {n}
  BY SubmissionsAssumption DEF Plans, ValidGraph
<1>1. active = {} /\ retired = {}
  BY DEF AdmitPlan, WellFormed
<1>2. TypeOK'
  BY <1>0, RevisionAssumption DEF AdmitPlan, TypeOK, States
<1>3. \A n \in DOMAIN p :
        /\ payload'[n] = p[n] /\ exec'[n] = "none"
        /\ status'[n] = IF p[n].deps = {} THEN "ready" ELSE "waiting"
  BY <1>0, <1>1 DEF AdmitPlan, WellFormed
<1>4. WellFormed'
  <2>1. \A n \in active' : payload'[n].deps \subseteq active' \ {n}
    BY <1>0, <1>3 DEF AdmitPlan
  <2>2. \A n \in Node \ active' : status'[n] = "absent" /\ exec'[n] = "none"
    BY <1>0, <1>1 DEF AdmitPlan, WellFormed
  <2> QED BY <1>1, <2>1, <2>2 DEF AdmitPlan, WellFormed
<1>5. DependenciesSucceeded'
  BY <1>0, <1>3 DEF AdmitPlan, DependenciesSucceeded
<1>6. NoLostRelease'
  <2>0. active' = DOMAIN p
    BY DEF AdmitPlan
  <2> SUFFICES ASSUME NEW n \in DOMAIN p, status'[n] = "waiting"
               PROVE  \E d \in payload'[n].deps : status'[d] # "succeeded"
    BY <2>0 DEF NoLostRelease
  <2>1. PICK d \in p[n].deps : TRUE
    BY <1>3
  <2>2. d \in DOMAIN p
    BY <1>0
  <2> QED BY <1>3, <2>1, <2>2
<1>7. BegunAfterDependencies'
  BY <1>3 DEF AdmitPlan, BegunAfterDependencies
<1>8. RetiredDead' /\ ResultsSettled'
  BY <1>1 DEF AdmitPlan, RetiredDead, ResultsSettled
<1> QED BY <1>2, <1>4, <1>5, <1>6, <1>7, <1>8

\* The step of any operation that moves one launched or ready node and lets
\* After do the rest: transition_plan_node_state and a reconciled row.
LEMMA MoveIInv ==
  ASSUME IInv, NEW n \in active, NEW target \in {"launching", "running"} \cup Terminal,
         status[n] \in {"ready", "launching", "running"},
         status' = After(n, target),
         UNCHANGED <<revision, active, retired, payload, exec, result>>
  PROVE  IInv'
<1> USE DEF IInv
<1>0. /\ n \in Node /\ payload \in [Node -> Payload] /\ status \in [Node -> States]
      /\ \A m \in active : payload[m].deps \subseteq active \ {m}
      /\ active \subseteq Node /\ retired \subseteq Node /\ active \cap retired = {}
  BY DEF TypeOK, WellFormed
<1>1. /\ status' \in [Node -> States]
      /\ status'[n] = target
      /\ \A m \in Node \ {n} :
           \/ status'[m] = status[m]
           \/ /\ m \in active /\ status[m] = "waiting"
              /\ \/ status'[m] = "blocked"
                 \/ /\ status'[m] = "ready"
                    /\ \A d \in payload[m].deps :
                         (IF d = n THEN target ELSE status[d]) = "succeeded"
      /\ target = "succeeded" =>
           \A m \in active \ {n} :
             status'[m] = "waiting" =>
               \E d \in payload[m].deps : status'[d] # "succeeded"
  BY AfterShape
<1>2. TypeOK'
  BY <1>1 DEF TypeOK
<1>3. WellFormed'
  BY <1>0, <1>1 DEF WellFormed
<1>4. \A d \in Node : status[d] = "succeeded" => status'[d] = "succeeded"
  BY <1>1
<1>5. DependenciesSucceeded'
  <2> SUFFICES ASSUME NEW m \in active, NEW d \in payload[m].deps,
                      status'[m] \in {"ready", "launching", "running", "succeeded", "failed"}
               PROVE  d \in active /\ status'[d] = "succeeded"
    BY DEF DependenciesSucceeded
  <2>1. d \in active /\ d \in Node /\ m \in Node
    BY <1>0
  <2>2. CASE m = n \/ status'[m] = status[m]
    <3>1. status[m] \in {"ready", "launching", "running", "succeeded", "failed"}
      BY <2>2
    <3> QED BY <1>4, <2>1, <3>1 DEF DependenciesSucceeded
  <2>3. CASE m # n /\ status'[m] # status[m]
    <3>1. (IF d = n THEN target ELSE status[d]) = "succeeded"
      BY <1>1, <2>1, <2>3
    <3> QED BY <1>1, <1>4, <2>1, <3>1
  <2> QED BY <2>2, <2>3
<1>6. NoLostRelease'
  <2> SUFFICES ASSUME NEW m \in active, status'[m] = "waiting"
               PROVE  \E d \in payload[m].deps : status'[d] # "succeeded"
    BY DEF NoLostRelease
  <2>1. m # n /\ m \in Node /\ status[m] = "waiting"
    BY <1>0, <1>1 DEF Terminal, Dead
  <2>2. CASE target = "succeeded"
    BY <1>1, <2>1, <2>2
  <2>3. CASE target # "succeeded"
    <3>1. PICK d \in payload[m].deps : status[d] # "succeeded"
      BY <2>1 DEF NoLostRelease
    <3>2. d \in Node
      BY <1>0
    <3> QED BY <1>1, <2>3, <3>1, <3>2
  <2> QED BY <2>2, <2>3
<1>7. BegunAfterDependencies'
  BY <1>0, <1>4 DEF BegunAfterDependencies
<1>8. RetiredDead' /\ ResultsSettled'
  BY <1>0, <1>1 DEF RetiredDead, ResultsSettled
<1> QED BY <1>2, <1>3, <1>5, <1>6, <1>7, <1>8

LEMMA BeginIInv ==
  ASSUME IInv, NEW n \in Node, status[n] = "launching", BeginExecution(n)
  PROVE  IInv'
<1> USE DEF IInv
<1>1. n \in active
  BY DEF WellFormed, RetiredDead
<1>2. TypeOK' /\ WellFormed' /\ RetiredDead' /\ ResultsSettled'
  BY <1>1 DEF BeginExecution, TypeOK, WellFormed, RetiredDead, ResultsSettled
<1>3. DependenciesSucceeded' /\ NoLostRelease'
  BY DEF BeginExecution, DependenciesSucceeded, NoLostRelease
<1>4. BegunAfterDependencies'
  BY <1>1 DEF BeginExecution, BegunAfterDependencies, DependenciesSucceeded, TypeOK
<1> QED BY <1>2, <1>3, <1>4

LEMMA SettleIInv ==
  ASSUME IInv, NEW n \in Node, NEW r \in Results, SettleExecution(n, r)
  PROVE  IInv'
<1> USE DEF IInv
<1>1. \A m \in Node : exec'[m] # "none" <=> exec[m] # "none"
  BY DEF SettleExecution, TypeOK
<1>2. TypeOK' /\ ResultsSettled'
  BY DEF SettleExecution, TypeOK, ResultsSettled, Results
<1>3. WellFormed'
  BY <1>1 DEF SettleExecution, WellFormed, TypeOK
<1>4. RetiredDead' /\ BegunAfterDependencies'
  BY <1>1 DEF SettleExecution, RetiredDead, BegunAfterDependencies, TypeOK
<1>5. DependenciesSucceeded' /\ NoLostRelease'
  BY DEF SettleExecution, DependenciesSucceeded, NoLostRelease
<1> QED BY <1>2, <1>3, <1>4, <1>5

\* An approved retry only meets nodes of the plan, and only nodes whose
\* prerequisites had succeeded when they were first launched.
LEMMA RetryIInv ==
  ASSUME IInv, NEW n \in Node, exec[n] # "none", RetryApprovedTool(n)
  PROVE  IInv'
<1> USE DEF IInv
<1>1. n \in active /\ exec[n] # "none" /\ status[n] = "blocked"
  BY DEF RetryApprovedTool, WellFormed, RetiredDead, ResultsSettled
<1>2. \A d \in payload[n].deps : d \in active /\ d # n /\ status[d] = "succeeded"
  BY <1>1 DEF BegunAfterDependencies, WellFormed
<1>3. TypeOK' /\ ResultsSettled'
  BY DEF RetryApprovedTool, TypeOK, ResultsSettled, States
<1>4. WellFormed' /\ RetiredDead'
  BY <1>1 DEF RetryApprovedTool, WellFormed, RetiredDead, TypeOK
<1>5. DependenciesSucceeded'
  BY <1>1, <1>2 DEF RetryApprovedTool, DependenciesSucceeded, TypeOK, WellFormed
<1>6. NoLostRelease'
  BY <1>1 DEF RetryApprovedTool, NoLostRelease, TypeOK, WellFormed
<1>7. BegunAfterDependencies'
  BY <1>1, <1>2 DEF RetryApprovedTool, BegunAfterDependencies, TypeOK, WellFormed
<1> QED BY <1>3, <1>4, <1>5, <1>6, <1>7

\* revise_plan.  What replacing and cancelling do to the ids the plan had:
\* only unfinished ids change, and they die.
LEMMA RevisedShape ==
  ASSUME IInv, NEW p \in Plans, NEW cancelled \in SUBSET active, NEW evidence,
         RevisePlan(revision, p, cancelled, evidence)
  PROVE  /\ \A n \in Node \ Added(p) :
              \/ status'[n] = status[n] /\ n \notin Replaced(p) \cup cancelled
              \/ /\ n \in active /\ status[n] \notin Terminal
                 /\ status'[n] \in {"cancelled", "blocked"}
                 /\ status'[n] = "blocked" =>
                      n \in Downstream(active, payload, cancelled) \ cancelled
         /\ \A n \in Added(p) :
              status'[n] = IF \A d \in p[n].deps : d \in active /\ status'[d] = "succeeded"
                           THEN "ready" ELSE "waiting"
<1> DEFINE gone == Replaced(p) \cup cancelled
           below == Downstream(active, payload, cancelled) \ cancelled
           kept == [n \in Node |->
                      IF n \in below /\ status[n] \notin Terminal THEN "blocked"
                      ELSE IF n \in gone THEN "cancelled" ELSE status[n]]
<1>1. status' = [n \in Node |->
                   IF n \notin Added(p) THEN kept[n]
                   ELSE IF \A d \in p[n].deps : d \in active /\ kept[d] = "succeeded"
                        THEN "ready" ELSE "waiting"]
  BY DEF RevisePlan, RevisedStatus
<1>2. below \subseteq active
  BY DEF Downstream
<1>3. /\ \A n \in gone : status[n] \notin Terminal
      /\ gone \subseteq active /\ active \subseteq Node
      /\ Added(p) \cap active = {} /\ Added(p) \subseteq Node
  BY SubmissionsAssumption DEF RevisePlan, IInv, TypeOK, Replaced, Added, Plans
<1>4. \A n \in Node \ Added(p) : status'[n] = kept[n]
  BY <1>1
<1> HIDE DEF gone, below
<1>5. \A n \in Node : kept[n] = IF n \in below /\ status[n] \notin Terminal THEN "blocked"
                                ELSE IF n \in gone THEN "cancelled" ELSE status[n]
  OBVIOUS
<1>6. \A n \in Node \ Added(p) :
         \/ status'[n] = status[n] /\ n \notin gone
         \/ /\ n \in active /\ status[n] \notin Terminal
            /\ status'[n] \in {"cancelled", "blocked"}
            /\ status'[n] = "blocked" => n \in below
  BY <1>2, <1>3, <1>4, <1>5
<1> HIDE DEF kept
<1>7. ASSUME NEW n \in Added(p)
      PROVE  status'[n] = IF \A d \in p[n].deps : d \in active /\ status'[d] = "succeeded"
                          THEN "ready" ELSE "waiting"
  <2>1. \A d : d \in active => kept[d] = status'[d]
    BY <1>3, <1>4
  <2>2. n \in Node
    BY <1>3
  <2> QED BY <1>1, <2>1, <2>2
<1> QED BY <1>6, <1>7 DEF gone, below

\* A node downstream of cancelled work was never begun: some prerequisite on
\* the way has not succeeded.
LEMMA DownstreamNeverBegun ==
  ASSUME IInv, NEW cancelled \in SUBSET active,
         \A n \in cancelled : status[n] \notin Terminal
  PROVE  \A n \in Downstream(active, payload, cancelled) \ cancelled : exec[n] = "none"
<1> DEFINE C == cancelled \cup {m \in active : exec[m] = "none" /\ status[m] # "succeeded"}
<1>1. \A m \in C : m \in active /\ status[m] # "succeeded"
  BY DEF Terminal
<1>2. \A m \in active : payload[m].deps \cap C # {} => m \in C
  <2> SUFFICES ASSUME NEW m \in active, NEW d \in payload[m].deps, d \in C
               PROVE  exec[m] = "none" /\ status[m] # "succeeded"
    OBVIOUS
  <2>1. status[d] # "succeeded"
    BY <1>1
  <2> QED BY <2>1 DEF IInv, BegunAfterDependencies, DependenciesSucceeded
<1>3. C \in SUBSET (active \cup cancelled) /\ cancelled \subseteq C
  OBVIOUS
<1> HIDE DEF C
<1>4. Downstream(active, payload, cancelled) \subseteq C
  BY <1>2, <1>3, DownstreamLeast
<1> QED BY <1>4 DEF C

LEMMA ReviseIInv ==
  ASSUME IInv, NEW p \in Plans, NEW cancelled \in SUBSET active, NEW evidence,
         revision < MaxRevision, RevisePlan(revision, p, cancelled, evidence)
  PROVE  IInv'
<1> USE DEF IInv
<1>0. /\ p \in [DOMAIN p -> Payload] /\ DOMAIN p \subseteq Node
      /\ \A n \in DOMAIN p : p[n].deps \subseteq DOMAIN p \ {n}
  BY SubmissionsAssumption DEF Plans, ValidGraph
<1>1. /\ active' = DOMAIN p
      /\ retired' = retired \cup Replaced(p)
      /\ payload' = [n \in Node |-> IF n \in Added(p) THEN p[n] ELSE payload[n]]
      /\ \A n \in active \cap DOMAIN p : p[n] = payload[n]
      /\ \A n \in Replaced(p) \cup cancelled : status[n] \notin Terminal
      /\ Added(p) \cap retired = {}
      /\ exec' = exec /\ result' = result
      /\ revision' = revision + 1 /\ revision > 0
  BY DEF RevisePlan, FreshIds
<1>2. /\ Added(p) = DOMAIN p \ active /\ Replaced(p) = active \ DOMAIN p
      /\ active \subseteq Node /\ retired \subseteq Node
  BY DEF Added, Replaced, TypeOK
<1>3. \A n \in active' : payload'[n] = p[n]
  BY <1>0, <1>1, <1>2
<1>4. /\ \A n \in Node \ Added(p) :
           \/ status'[n] = status[n] /\ n \notin Replaced(p) \cup cancelled
           \/ /\ n \in active /\ status[n] \notin Terminal
              /\ status'[n] \in {"cancelled", "blocked"}
              /\ status'[n] = "blocked" =>
                   n \in Downstream(active, payload, cancelled) \ cancelled
      /\ \A n \in Added(p) :
           status'[n] = IF \A d \in p[n].deps : d \in active /\ status'[d] = "succeeded"
                        THEN "ready" ELSE "waiting"
  BY RevisedShape
<1>5. \A n \in Node : status[n] = "succeeded" /\ n \in active => status'[n] = "succeeded"
  BY <1>2, <1>4 DEF Terminal
<1>6. TypeOK'
  <2>1. payload' \in [Node -> Payload]
    BY <1>0, <1>1, <1>2 DEF TypeOK
  <2>2. status' \in [Node -> States]
    <3>1. status' = RevisedStatus(p, cancelled)
      BY DEF RevisePlan
    <3>2. \A n \in Node : status'[n] \in States
      BY <1>2, <1>4 DEF TypeOK, States, Terminal, Dead
    <3> QED BY <3>1, <3>2 DEF RevisedStatus
  <2>3. revision' \in 0..MaxRevision
    BY <1>1, RevisionAssumption DEF TypeOK
  <2> QED BY <1>0, <1>1, <1>2, <2>1, <2>2, <2>3 DEF TypeOK
<1>7. WellFormed'
  <2>1. active' \cap retired' = {}
    BY <1>1, <1>2 DEF WellFormed
  <2>2. \A n \in active' : payload'[n].deps \subseteq active' \ {n}
    BY <1>0, <1>1, <1>3
  <2>3. \A n \in Node \ (active' \cup retired') : status'[n] = "absent" /\ exec'[n] = "none"
    <3> SUFFICES ASSUME NEW n \in Node \ (active' \cup retired')
                 PROVE  status'[n] = "absent" /\ exec'[n] = "none"
      OBVIOUS
    <3>1. n \notin active /\ n \notin retired /\ n \notin Added(p)
      BY <1>1, <1>2
    <3> QED BY <1>1, <1>4, <3>1 DEF WellFormed
  <2>4. revision' # 0
    BY <1>1 DEF TypeOK
  <2> QED BY <2>1, <2>2, <2>3, <2>4 DEF WellFormed
<1>8. DependenciesSucceeded'
  <2> SUFFICES ASSUME NEW m \in active', NEW d \in p[m].deps,
                      status'[m] \in {"ready", "launching", "running", "succeeded", "failed"}
               PROVE  d \in active' /\ status'[d] = "succeeded"
    BY <1>3 DEF DependenciesSucceeded
  <2>1. d \in active' /\ m \in Node /\ d \in Node
    BY <1>0, <1>1
  <2>2. CASE m \in Added(p)
    BY <1>4, <2>1, <2>2
  <2>3. CASE m \notin Added(p)
    <3>1. m \in active /\ p[m] = payload[m] /\ status'[m] = status[m]
      BY <1>1, <1>2, <1>4, <2>1, <2>3
    <3>2. d \in active /\ status[d] = "succeeded"
      BY <3>1 DEF DependenciesSucceeded
    <3> QED BY <1>5, <2>1, <3>2
  <2> QED BY <2>2, <2>3
<1>9. NoLostRelease'
  <2> SUFFICES ASSUME NEW m \in active', status'[m] = "waiting"
               PROVE  \E d \in p[m].deps : status'[d] # "succeeded"
    BY <1>3 DEF NoLostRelease
  <2>1. m \in Node
    BY <1>0, <1>1
  <2>2. CASE m \in Added(p)
    <3>1. PICK d \in p[m].deps : ~(d \in active /\ status'[d] = "succeeded")
      BY <1>4, <2>2
    <3>2. d \in active \/ d \in Added(p)
      BY <1>0, <1>1, <1>2
    <3> QED BY <1>4, <3>1, <3>2
  <2>3. CASE m \notin Added(p)
    <3>1. m \in active /\ p[m] = payload[m] /\ status[m] = "waiting"
      BY <1>1, <1>2, <1>4, <2>1, <2>3
    <3>2. PICK d \in payload[m].deps : status[d] # "succeeded"
      BY <3>1 DEF NoLostRelease
    <3>3. d \in active /\ d \in Node /\ d \notin Added(p)
      BY <1>2, <3>1 DEF WellFormed
    <3> QED BY <1>4, <3>1, <3>2, <3>3
  <2> QED BY <2>2, <2>3
<1>10. BegunAfterDependencies'
  <2> SUFFICES ASSUME NEW m \in active', NEW d \in p[m].deps, exec[m] # "none"
               PROVE  status'[d] = "succeeded"
    BY <1>1, <1>3 DEF BegunAfterDependencies
  <2>1. m \in active
    BY <1>0, <1>1, <1>2 DEF WellFormed
  <2>2. d \in payload[m].deps
    BY <1>1, <2>1
  <2>3. d \in active /\ status[d] = "succeeded"
    BY <2>1, <2>2 DEF BegunAfterDependencies, WellFormed
  <2> QED BY <1>2, <1>5, <2>3
<1>11. RetiredDead'
  <2> SUFFICES ASSUME NEW n \in retired'
               PROVE  /\ status'[n] \in {"cancelled", "blocked"}
                      /\ exec[n] # "none" => status'[n] = "cancelled"
    BY <1>1 DEF RetiredDead
  <2>1. CASE n \in retired
    <3>1. n \in Node /\ n \notin active /\ n \notin Added(p)
      BY <1>1, <1>2, <2>1 DEF WellFormed
    <3> QED BY <1>4, <2>1, <3>1 DEF RetiredDead
  <2>2. CASE n \in Replaced(p)
    <3>1. n \in Node /\ n \notin Added(p)
      BY <1>2, <2>2
    <3>2. /\ status'[n] \in {"cancelled", "blocked"}
          /\ status'[n] = "blocked" => n \in Downstream(active, payload, cancelled) \ cancelled
      BY <1>4, <2>2, <3>1
    <3>3. \A k \in Downstream(active, payload, cancelled) \ cancelled : exec[k] = "none"
      BY <1>1, DownstreamNeverBegun
    <3> QED BY <3>2, <3>3
  <2> QED BY <1>1, <2>1, <2>2
<1>12. ResultsSettled'
  BY <1>1 DEF ResultsSettled
<1> QED BY <1>6, <1>7, <1>8, <1>9, <1>10, <1>11, <1>12
-----------------------------------------------------------------------------
LEMMA ReconcileIInv ==
  ASSUME IInv, NEW n \in Node, ReconcileNode(n)
  PROVE  IInv'
<1>1. n \in active /\ status[n] \in {"launching", "running"}
  BY DEF ReconcileNode, Launched
<1>2. ReconcileTarget(n) \in Terminal
  BY DEF ReconcileTarget, TargetOf, IInv, TypeOK, ResultsSettled, Results, Terminal, Dead
<1> QED BY <1>1, <1>2, MoveIInv DEF ReconcileNode

LEMMA TransitionIInv ==
  ASSUME IInv, NEW n \in Node, NEW t \in LegalTransition, Transition(n, t[1], t[2])
  PROVE  IInv'
<1>1. /\ n \in active /\ status[n] = t[1] /\ status' = After(n, t[2])
      /\ UNCHANGED <<revision, active, retired, payload, exec, result>>
  BY DEF Transition
<1>2. /\ t[1] \in {"ready", "launching", "running"}
      /\ t[2] \in {"launching", "running"} \cup Terminal
  BY DEF LegalTransition, Terminal, Dead
<1> QED BY <1>1, <1>2, MoveIInv

\* The shape of what blocking a set of unbegun launches leaves.
LEMMA UnlaunchedShape ==
  ASSUME TypeOK, NEW S \in SUBSET active, ReconcileUnlaunched(S)
  PROVE  /\ status' \in [Node -> States]
         /\ \A m \in Node :
              \/ status'[m] = status[m] /\ m \notin S
              \/ /\ status'[m] = "blocked" /\ m \in active
                 /\ \/ status[m] = "waiting"
                    \/ m \in S /\ status[m] = "launching" /\ exec[m] = "none"
<1> DEFINE st == [n \in Node |-> IF n \in S THEN "blocked" ELSE status[n]]
<1>1. \A n \in S : n \in active /\ status[n] = "launching" /\ exec[n] = "none"
  BY DEF ReconcileUnlaunched
<1>2. status' = [m \in Node |->
                   IF m \in active \cap Downstream(active, payload, S) /\ st[m] = "waiting"
                   THEN "blocked" ELSE st[m]]
  BY DEF ReconcileUnlaunched, Blocked
<1> QED BY <1>1, <1>2 DEF TypeOK, States, Terminal, Dead

LEMMA UnlaunchedIInv ==
  ASSUME IInv, NEW S \in SUBSET active, ReconcileUnlaunched(S)
  PROVE  IInv'
<1> USE DEF IInv
<1>0. UNCHANGED <<revision, active, retired, payload, exec, result>>
  BY DEF ReconcileUnlaunched
<1>1. /\ status' \in [Node -> States]
      /\ \A m \in Node :
           \/ status'[m] = status[m]
           \/ /\ status'[m] = "blocked" /\ m \in active
              /\ status[m] = "waiting" \/ (status[m] = "launching" /\ exec[m] = "none")
  BY UnlaunchedShape
<1>2. /\ active \subseteq Node /\ retired \subseteq Node /\ active \cap retired = {}
      /\ \A m \in active : payload[m].deps \subseteq active \ {m}
  BY DEF TypeOK, WellFormed
<1>3. TypeOK' /\ WellFormed'
  BY <1>0, <1>1, <1>2 DEF TypeOK, WellFormed
<1>4. DependenciesSucceeded' /\ BegunAfterDependencies'
  BY <1>0, <1>1, <1>2 DEF DependenciesSucceeded, BegunAfterDependencies
<1>5. NoLostRelease'
  BY <1>0, <1>1, <1>2 DEF NoLostRelease
<1>6. RetiredDead' /\ ResultsSettled'
  BY <1>0, <1>1, <1>2 DEF RetiredDead, ResultsSettled
<1> QED BY <1>3, <1>4, <1>5, <1>6

\* Every step of the coordinator, and a step that leaves it alone.
LEMMA NextIInv == IInv /\ [Next]_planVars => IInv'
<1> SUFFICES ASSUME IInv, [Next]_planVars PROVE IInv'
  OBVIOUS
<1>1. CASE \E p \in Plans : AdmitPlan(p)
  BY <1>1, AdmitIInv
<1>2. CASE /\ revision < MaxRevision
           /\ \E p \in Plans, cancelled \in SUBSET active :
                RevisePlan(revision, p, cancelled, active)
  BY <1>2, ReviseIInv
<1>3. CASE \E n \in Node : \E t \in LegalTransition : Transition(n, t[1], t[2])
  BY <1>3, TransitionIInv
<1>4. CASE \E n \in Node : status[n] = "launching" /\ BeginExecution(n)
  BY <1>4, BeginIInv
<1>5. CASE \E n \in Node : \E r \in Results : SettleExecution(n, r)
  BY <1>5, SettleIInv
<1>6. CASE \E n \in Node : payload[n].kind = "tool" /\ exec[n] # "none" /\ RetryApprovedTool(n)
  BY <1>6, RetryIInv
<1>7. CASE \E n \in Node : ReconcileNode(n)
  BY <1>7, ReconcileIInv
<1>8. CASE \E S \in SUBSET active : ReconcileUnlaunched(S)
  BY <1>8, UnlaunchedIInv
<1>9. CASE UNCHANGED planVars
  BY <1>9 DEF planVars, IInv, TypeOK, WellFormed, DependenciesSucceeded, NoLostRelease,
              BegunAfterDependencies, RetiredDead, ResultsSettled
<1> QED BY <1>1, <1>2, <1>3, <1>4, <1>5, <1>6, <1>7, <1>8, <1>9 DEF Next

\* The strengthening holds in every reachable state of the coordinator.
THEOREM Invariance == Spec => []IInv
BY InitIInv, NextIInv, PTL DEF Spec

\* Every row of the plan tables keeps its type, and the revision its bound.
THEOREM TypeCorrect == Spec => []TypeOK
<1>1. IInv => TypeOK
  BY DEF IInv
<1> QED BY <1>1, Invariance, PTL

\* Nothing is ready, launched or finished by itself before every prerequisite
\* succeeded, however plans are revised, cancelled, retried and reconciled.
THEOREM LaunchAfterDependencies == Spec => []DependenciesSucceeded
<1>1. IInv => DependenciesSucceeded
  BY DEF IInv
<1> QED BY <1>1, Invariance, PTL

\* No node is left waiting for prerequisites that have all succeeded.
THEOREM NoReleaseIsLost == Spec => []NoLostRelease
<1>1. IInv => NoLostRelease
  BY DEF IInv
<1> QED BY <1>1, Invariance, PTL

-----------------------------------------------------------------------------
\* What one transition may move: the node itself and waiting nodes.
LEMMA MoveTouches ==
  ASSUME TypeOK, NEW n \in active, NEW target \in {"launching", "running"} \cup Terminal,
         status[n] \in {"ready", "launching", "running"},
         status' = After(n, target)
  PROVE  \A m \in Node :
           \/ status'[m] = status[m]
           \/ m \in active /\ status[m] \in {"waiting", "ready", "launching", "running"}
BY AfterShape

\* The steps of the coordinator, sorted by what they can do to a node.
LEMMA StepShape ==
  ASSUME IInv, [Next]_planVars
  PROVE  \/ revision = 0
         \/ /\ UNCHANGED <<active, retired, payload>>
            /\ \A m \in Node :
                 \/ status'[m] = status[m]
                 \/ m \in active /\ status[m] \in {"waiting", "ready", "launching", "running"}
                 \/ /\ status[m] = "blocked" /\ status'[m] = "ready" /\ exec'[m] = "none"
                    /\ payload[m].kind = "tool" /\ exec[m] # "none"
         \/ \E p \in Plans, cancelled \in SUBSET active :
              RevisePlan(revision, p, cancelled, active)
<1> USE DEF IInv
<1>1. CASE \E p \in Plans : AdmitPlan(p)
  BY <1>1 DEF AdmitPlan
<1>2. CASE /\ revision < MaxRevision
           /\ \E p \in Plans, cancelled \in SUBSET active :
                RevisePlan(revision, p, cancelled, active)
  BY <1>2
<1>3. ASSUME NEW n \in Node, NEW t \in LegalTransition, Transition(n, t[1], t[2])
      PROVE  /\ UNCHANGED <<active, retired, payload>>
             /\ \A m \in Node :
                  \/ status'[m] = status[m]
                  \/ m \in active /\ status[m] \in {"waiting", "ready", "launching", "running"}
  <2>1. /\ n \in active /\ status[n] = t[1] /\ status' = After(n, t[2])
        /\ UNCHANGED <<active, retired, payload>>
    BY <1>3 DEF Transition
  <2>2. /\ t[1] \in {"ready", "launching", "running"}
        /\ t[2] \in {"launching", "running"} \cup Terminal
    BY DEF LegalTransition, Terminal, Dead
  <2> QED BY <2>1, <2>2, MoveTouches
<1>4. ASSUME NEW n \in Node, ReconcileNode(n)
      PROVE  /\ UNCHANGED <<active, retired, payload>>
             /\ \A m \in Node :
                  \/ status'[m] = status[m]
                  \/ m \in active /\ status[m] \in {"waiting", "ready", "launching", "running"}
  <2>1. /\ n \in active /\ status[n] \in {"launching", "running"}
        /\ status' = After(n, ReconcileTarget(n))
        /\ UNCHANGED <<active, retired, payload>>
    BY <1>4 DEF ReconcileNode, Launched
  <2>2. ReconcileTarget(n) \in Terminal
    BY DEF ReconcileTarget, TargetOf, TypeOK, ResultsSettled, Results, Terminal, Dead
  <2> QED BY <2>1, <2>2, MoveTouches
<1>5. CASE \E n \in Node : payload[n].kind = "tool" /\ exec[n] # "none" /\ RetryApprovedTool(n)
  BY <1>5 DEF RetryApprovedTool, TypeOK
<1>6. CASE \E n \in Node : BeginExecution(n)
  BY <1>6 DEF BeginExecution
<1>7. CASE \E n \in Node : \E r \in Results : SettleExecution(n, r)
  BY <1>7 DEF SettleExecution
<1>8. CASE UNCHANGED planVars
  BY <1>8 DEF planVars
<1>9. CASE \E n \in Node : \E t \in LegalTransition : Transition(n, t[1], t[2])
  BY <1>3, <1>9
<1>10. CASE \E n \in Node : ReconcileNode(n)
  BY <1>4, <1>10
<1>11. CASE \E S \in SUBSET active : ReconcileUnlaunched(S)
  <2>1. PICK S \in SUBSET active : ReconcileUnlaunched(S)
    BY <1>11
  <2>2. UNCHANGED <<active, retired, payload>>
    BY <2>1 DEF ReconcileUnlaunched
  <2> QED BY <2>1, <2>2, UnlaunchedShape
<1> QED BY <1>1, <1>2, <1>5, <1>6, <1>7, <1>8, <1>9, <1>10, <1>11 DEF Next

\* A revision keeps every finished or retired node as it is.
LEMMA ReviseKeepsFinished ==
  ASSUME IInv, NEW p \in Plans, NEW cancelled \in SUBSET active, NEW evidence,
         RevisePlan(revision, p, cancelled, evidence)
  PROVE  /\ \A n \in active : status[n] \in Terminal =>
              n \in active' /\ payload'[n] = payload[n] /\ status'[n] = status[n]
         /\ \A n \in retired : n \in retired' \ active' /\ status'[n] = status[n]
<1>1. /\ active' = DOMAIN p
      /\ retired' = retired \cup Replaced(p)
      /\ payload' = [n \in Node |-> IF n \in Added(p) THEN p[n] ELSE payload[n]]
      /\ \A n \in Replaced(p) \cup cancelled : status[n] \notin Terminal
      /\ Added(p) \cap retired = {}
  BY DEF RevisePlan, FreshIds
<1>2. /\ Added(p) = DOMAIN p \ active /\ Replaced(p) = active \ DOMAIN p
      /\ active \subseteq Node /\ retired \subseteq Node /\ active \cap retired = {}
  BY DEF Added, Replaced, IInv, TypeOK, WellFormed
<1>3. \A n \in Node \ Added(p) : n \notin active \/ status[n] \in Terminal => status'[n] = status[n]
  BY RevisedShape
<1> QED BY <1>1, <1>2, <1>3

\* "Completed identities remain stable": no operation changes the row, the
\* payload or the state of a finished node, except the retry of a blocked tool.
THEOREM CompletedStable == Spec => CompletedNodesStable
<1> DEFINE Stable == \A n \in active :
       status[n] \in Terminal =>
         /\ n \in active' /\ payload'[n] = payload[n]
         /\ \/ status'[n] = status[n]
            \/ /\ status[n] = "blocked" /\ status'[n] = "ready"
               /\ payload[n].kind = "tool" /\ exec'[n] = "none"
<1>1. IInv /\ [Next]_planVars => [Stable]_planVars
  <2> SUFFICES ASSUME IInv, [Next]_planVars PROVE Stable
    OBVIOUS
  <2>0. active \subseteq Node
    BY DEF IInv, TypeOK
  <2>1. CASE revision = 0
    BY <2>1 DEF IInv, WellFormed
  <2>2. CASE \E p \in Plans, cancelled \in SUBSET active :
               RevisePlan(revision, p, cancelled, active)
    BY <2>2, ReviseKeepsFinished
  <2>3. CASE /\ UNCHANGED <<active, retired, payload>>
             /\ \A m \in Node :
                  \/ status'[m] = status[m]
                  \/ m \in active /\ status[m] \in {"waiting", "ready", "launching", "running"}
                  \/ /\ status[m] = "blocked" /\ status'[m] = "ready" /\ exec'[m] = "none"
                    /\ payload[m].kind = "tool" /\ exec[m] # "none"
    BY <2>0, <2>3 DEF Terminal, Dead
  <2> QED BY <2>1, <2>2, <2>3, StepShape
<1> QED BY <1>1, Invariance, PTL DEF Spec, CompletedNodesStable

\* A retired node never comes back and its state never moves, so that a late
\* completion of replaced work cannot revive it.
THEOREM RetiredFrozen == Spec => RetiredNodesFrozen
<1> DEFINE Frozen == \A n \in retired : n \in retired' \ active' /\ status'[n] = status[n]
<1>1. IInv /\ [Next]_planVars => [Frozen]_planVars
  <2> SUFFICES ASSUME IInv, [Next]_planVars PROVE Frozen
    OBVIOUS
  <2>0. /\ retired \subseteq Node /\ active \cap retired = {}
        /\ \A n \in retired : status[n] = "blocked" => exec[n] = "none"
    BY DEF IInv, TypeOK, WellFormed, RetiredDead
  <2>1. CASE revision = 0
    BY <2>1 DEF IInv, WellFormed
  <2>2. CASE \E p \in Plans, cancelled \in SUBSET active :
               RevisePlan(revision, p, cancelled, active)
    BY <2>2, ReviseKeepsFinished
  <2>3. CASE /\ UNCHANGED <<active, retired, payload>>
             /\ \A m \in Node :
                  \/ status'[m] = status[m]
                  \/ m \in active /\ status[m] \in {"waiting", "ready", "launching", "running"}
                  \/ /\ status[m] = "blocked" /\ status'[m] = "ready" /\ exec'[m] = "none"
                    /\ payload[m].kind = "tool" /\ exec[m] # "none"
    BY <2>0, <2>3
  <2> QED BY <2>1, <2>2, <2>3, StepShape
<1> QED BY <1>1, Invariance, PTL DEF Spec, RetiredNodesFrozen

-----------------------------------------------------------------------------
\* "The first result wins": a recorded result is neither replaced nor lost by a
\* second settlement; only the approved retry of its blocked tool forgets it.
THEOREM FirstResultStays == Spec => FirstResultWins
<1> DEFINE Wins == \A n \in Node :
       exec[n] = "settled" =>
         \/ exec'[n] = "settled" /\ result'[n] = result[n]
         \/ exec'[n] = "none" /\ status[n] = "blocked" /\ status'[n] = "ready"
<1>1. IInv /\ [Next]_planVars => [Wins]_planVars
  <2> SUFFICES ASSUME IInv, [Next]_planVars PROVE Wins
    OBVIOUS
  <2>0. /\ status \in [Node -> States]
        /\ exec \in [Node -> {"none", "running", "settled"}]
        /\ result \in [Node -> Results \cup {"none"}]
    BY DEF IInv, TypeOK
  <2>1. CASE UNCHANGED <<exec, result>>
    BY <2>1
  <2>2. CASE \E n \in Node : BeginExecution(n)
    BY <2>0, <2>2 DEF BeginExecution
  <2>3. CASE \E n \in Node : \E r \in Results : SettleExecution(n, r)
    BY <2>0, <2>3 DEF SettleExecution
  <2>4. CASE \E n \in Node : RetryApprovedTool(n)
    BY <2>0, <2>4 DEF RetryApprovedTool
  <2> QED
    BY <2>1, <2>2, <2>3, <2>4
    DEF Next, planVars, AdmitPlan, RevisePlan, Transition, ReconcileNode, ReconcileUnlaunched
<1> QED BY <1>1, Invariance, PTL DEF Spec, FirstResultWins

-----------------------------------------------------------------------------
\* Propagation does not stop halfway: who depends on a node downstream of S is
\* downstream of S as well, and S itself is.
LEMMA DownstreamClosed ==
  ASSUME NEW ids, NEW pay, NEW S, NEW m \in ids, NEW n \in Downstream(ids, pay, S),
         n \in pay[m].deps
  PROVE  m \in Downstream(ids, pay, S)
BY DEF Downstream

LEMMA DownstreamHoldsSources ==
  ASSUME NEW ids, NEW pay, NEW S
  PROVE  S \subseteq Downstream(ids, pay, S)
BY DEF Downstream

\* When blocking what is downstream of the dead nodes S, whoever is dead
\* afterwards and was not before has no waiting dependent.
LEMMA BlockedReaches ==
  ASSUME TypeOK, NEW S \in SUBSET active, NEW st \in [Node -> States],
         \A k \in Node \ S : st[k] = status[k],
         NEW n \in active, status[n] \notin Dead, Blocked(st, S)[n] \in Dead,
         NEW m \in active, n \in payload[m].deps
  PROVE  Blocked(st, S)[m] # "waiting"
<1>1. active \subseteq Node
  BY DEF TypeOK
<1>2. \A k \in Node :
        Blocked(st, S)[k] = IF k \in active \cap Downstream(active, payload, S) /\ st[k] = "waiting"
                            THEN "blocked" ELSE st[k]
  BY DEF Blocked
<1>3. n \in Downstream(active, payload, S)
  BY <1>1, <1>2, DownstreamHoldsSources
<1>4. m \in Downstream(active, payload, S)
  BY <1>3, DownstreamClosed
<1> QED BY <1>1, <1>2, <1>4

\* The same for one transition, whatever its target.
LEMMA AfterReaches ==
  ASSUME TypeOK, NEW k \in active, NEW target \in {"launching", "running"} \cup Terminal,
         status' = After(k, target),
         NEW n \in active, status[n] \notin Dead, status'[n] \in Dead,
         NEW m \in active, n \in payload[m].deps
  PROVE  status'[m] # "waiting"
<1> DEFINE st == [status EXCEPT ![k] = target]
<1>1. /\ active \subseteq Node /\ status \in [Node -> States]
      /\ st \in [Node -> States] /\ \A j \in Node \ {k} : st[j] = status[j]
  BY DEF TypeOK, States, Launched
<1>2. CASE target \in Dead
  <2>1. status' = Blocked(st, {k})
    BY <1>2 DEF After, Dead
  <2> HIDE DEF st
  <2> QED BY <1>1, <2>1, BlockedReaches
<1>3. CASE target = "succeeded"
  <2>1. status' = Released(st)
    BY <1>3 DEF After, Dead
  <2>2. status'[n] \notin Dead
    BY <1>1, <1>3, <2>1 DEF Released, Dead
  <2> QED BY <2>2
<1>4. CASE target \in {"launching", "running"}
  <2>1. status' = st
    BY <1>4 DEF After, Dead
  <2>2. status'[n] \notin Dead
    BY <1>1, <1>4, <2>1 DEF Dead
  <2> QED BY <2>2
<1> QED BY <1>2, <1>3, <1>4 DEF Terminal

\* And for a revision that cancels nodes of the plan.
LEMMA ReviseReaches ==
  ASSUME IInv, NEW p \in Plans, NEW cancelled \in SUBSET active, NEW evidence,
         RevisePlan(revision, p, cancelled, evidence),
         NEW n \in active \cap active', status[n] \notin Dead, status'[n] \in Dead,
         NEW m \in active \cap active', n \in payload[m].deps
  PROVE  status'[m] # "waiting"
<1> DEFINE below == Downstream(active, payload, cancelled) \ cancelled
<1>1. /\ active \subseteq Node /\ Added(p) \cap active = {} /\ Replaced(p) \cap active' = {}
      /\ \A k \in cancelled : status[k] \notin Terminal
  BY DEF IInv, TypeOK, RevisePlan, Replaced, Added
<1>2. \A k \in Node \ Added(p) :
        status'[k] = IF k \in below /\ status[k] \notin Terminal THEN "blocked"
                     ELSE IF k \in Replaced(p) \cup cancelled THEN "cancelled" ELSE status[k]
  BY DEF RevisePlan, RevisedStatus
<1>3. n \in Downstream(active, payload, cancelled)
  <2>1. n \in below \/ n \in cancelled
    BY <1>1, <1>2
  <2> QED BY <2>1, DownstreamHoldsSources
<1>4. m \in below \/ m \in cancelled
  BY <1>3, DownstreamClosed
<1> QED BY <1>1, <1>2, <1>4 DEF Terminal, Dead

\* Failure, blocking and cancellation propagate in the transaction that causes
\* them, whichever operation it is: no dependent is left waiting for the dead.
THEOREM DeathPropagates == Spec => DeathReachesDependents
<1> DEFINE Reaches == \A n \in active \cap active' :
       (status[n] \notin Dead /\ status'[n] \in Dead) =>
         \A m \in active \cap active' :
           n \in payload[m].deps => status'[m] # "waiting"
<1>1. IInv /\ [Next]_planVars => [Reaches]_planVars
  <2> SUFFICES ASSUME IInv, [Next]_planVars,
                      NEW n \in active \cap active', status[n] \notin Dead, status'[n] \in Dead,
                      NEW m \in active \cap active', n \in payload[m].deps
               PROVE  status'[m] # "waiting"
    OBVIOUS
  <2>0. TypeOK /\ n \in Node /\ status \in [Node -> States]
    BY DEF IInv, TypeOK
  <2>1. CASE \E p \in Plans : AdmitPlan(p)
    BY <2>1 DEF AdmitPlan, IInv, WellFormed
  <2>2. CASE \E p \in Plans, cancelled \in SUBSET active :
               RevisePlan(revision, p, cancelled, active)
    BY <2>2, ReviseReaches
  <2>3. CASE \E k \in Node : \E t \in LegalTransition : Transition(k, t[1], t[2])
    <3>1. PICK k \in Node, t \in LegalTransition : Transition(k, t[1], t[2])
      BY <2>3
    <3>2. k \in active /\ status' = After(k, t[2])
      BY <3>1 DEF Transition
    <3>3. t[2] \in {"launching", "running"} \cup Terminal
      BY DEF LegalTransition, Terminal, Dead
    <3> QED BY <2>0, <3>2, <3>3, AfterReaches
  <2>4. CASE \E k \in Node : ReconcileNode(k)
    <3>1. PICK k \in Node : ReconcileNode(k)
      BY <2>4
    <3>2. k \in active /\ status' = After(k, ReconcileTarget(k))
      BY <3>1 DEF ReconcileNode
    <3>3. ReconcileTarget(k) \in Terminal
      BY DEF ReconcileTarget, TargetOf, IInv, TypeOK, ResultsSettled, Results, Terminal, Dead
    <3> QED BY <2>0, <3>2, <3>3, AfterReaches
  <2>5. CASE \E S \in SUBSET active : ReconcileUnlaunched(S)
    <3>1. PICK S \in SUBSET active : ReconcileUnlaunched(S)
      BY <2>5
    <3> DEFINE st == [k \in Node |-> IF k \in S THEN "blocked" ELSE status[k]]
    <3>2. status' = Blocked(st, S)
      BY <3>1 DEF ReconcileUnlaunched
    <3>3. st \in [Node -> States] /\ \A k \in Node \ S : st[k] = status[k]
      BY <2>0 DEF States, Terminal, Dead
    <3> HIDE DEF st
    <3> QED BY <2>0, <3>2, <3>3, BlockedReaches
  <2>6. CASE \E k \in Node : RetryApprovedTool(k)
    BY <2>0, <2>6 DEF RetryApprovedTool, Dead
  <2>7. CASE UNCHANGED status
    BY <2>7
  <2> QED
    BY <2>1, <2>2, <2>3, <2>4, <2>5, <2>6, <2>7
    DEF Next, planVars, BeginExecution, SettleExecution
<1> QED BY <1>1, Invariance, PTL DEF Spec, DeathReachesDependents

\* Whatever is submitted and in whatever order calls arrive, the journal never
\* rewrites what has happened: finished and retired nodes and recorded results.
THEOREM HistoryStands == Spec => HistoryFrozen
BY CompletedStable, RetiredFrozen, FirstResultStays DEF HistoryFrozen
-----------------------------------------------------------------------------
(* What the callers of the coordinator rely on. *)

\* A node that is not launched has no execution.
NotBegun ==
  \A n \in Node : status[n] \in {"absent", "waiting", "ready"} => exec[n] = "none"

\* A transition moves its node, and beyond it only waiting ones.
LEMMA TransitionShape ==
  ASSUME IInv, NEW n, NEW expected, NEW target, Transition(n, expected, target)
  PROVE  /\ n \in active /\ status[n] = expected /\ status'[n] = target
         /\ \A m \in Node \ {n} :
              \/ status'[m] = status[m]
              \/ status[m] = "waiting" /\ status'[m] \in {"ready", "blocked"}
<1>1. /\ target \in {"launching", "running"} \cup Terminal
      /\ expected \in {"ready", "launching", "running"}
      /\ n \in active /\ status[n] = expected /\ status' = After(n, target)
  BY DEF Transition, LegalTransition, Terminal, Dead
<1> QED
  BY <1>1, AfterShape DEF IInv

\* So does the recovery of a launched node.
LEMMA ReconcileShape ==
  ASSUME IInv, NEW n, ReconcileNode(n)
  PROVE  /\ n \in active /\ status'[n] \in Terminal
         /\ \A m \in Node \ {n} :
              \/ status'[m] = status[m]
              \/ status[m] = "waiting" /\ status'[m] \in {"ready", "blocked"}
<1>1. n \in active /\ n \in Node /\ status[n] \in Launched /\ status' = After(n, ReconcileTarget(n))
  BY DEF ReconcileNode, IInv, TypeOK
<1>2. ReconcileTarget(n) \in Terminal
  BY <1>1 DEF IInv, TypeOK, ResultsSettled, ReconcileTarget, TargetOf, Results, Terminal, Dead
<1>3. TypeOK /\ status[n] # "waiting"
  BY <1>1 DEF IInv, Launched
<1>4. SUFFICES ASSUME NEW target \in {"launching", "running"} \cup Terminal, target \in Terminal,
                      status' = After(n, target)
               PROVE  /\ status'[n] \in Terminal
                      /\ \A m \in Node \ {n} :
                           \/ status'[m] = status[m]
                           \/ status[m] = "waiting" /\ status'[m] \in {"ready", "blocked"}
  BY <1>1, <1>2
<1>5. n \in active
  BY <1>1
<1> QED
  BY <1>3, <1>4, <1>5, AfterShape

\* A row of plan_nodes is never removed, and never rewritten.
LEMMA KnownStays ==
  ASSUME IInv, [Next]_planVars, NEW n \in active \cup retired
  PROVE  n \in active' \cup retired' /\ payload'[n] = payload[n]
<1>1. CASE \E p \in Plans : AdmitPlan(p)
  BY <1>1 DEF AdmitPlan, IInv, WellFormed
<1>2. ASSUME NEW p \in Plans, NEW cancelled \in SUBSET active,
             RevisePlan(revision, p, cancelled, active)
      PROVE  n \in active' \cup retired' /\ payload'[n] = payload[n]
  BY <1>2 DEF RevisePlan, Replaced, Added, FreshIds, IInv, TypeOK
<1>3. CASE UNCHANGED <<active, retired, payload>>
  BY <1>3
<1> QED
  BY <1>1, <1>2, <1>3 DEF Next, planVars, Transition, BeginExecution, SettleExecution,
     RetryApprovedTool, ReconcileNode, ReconcileUnlaunched

\* Nothing but a new execution begins one.
LEMMA NotBegunStays ==
  ASSUME IInv, NotBegun, [Next]_planVars
  PROVE  NotBegun'
<1> USE DEF NotBegun
<1>1. CASE \E p \in Plans : AdmitPlan(p)
  BY <1>1, SubmissionsAssumption DEF AdmitPlan, IInv, WellFormed, Plans, TypeOK
<1>2. ASSUME NEW p \in Plans, NEW cancelled \in SUBSET active,
             RevisePlan(revision, p, cancelled, active)
      PROVE  NotBegun'
  <2>1. exec' = exec /\ Added(p) \cap (active \cup retired) = {}
    BY <1>2 DEF RevisePlan, FreshIds, Added
  <2>2. \A n \in Node \ Added(p) :
          status'[n] \in {"absent", "waiting", "ready"} => status[n] = status'[n]
    BY <1>2, RevisedShape
  <2> QED
    BY <2>1, <2>2 DEF IInv, WellFormed
<1>3. ASSUME NEW n \in Node, NEW t \in LegalTransition, Transition(n, t[1], t[2])
      PROVE  NotBegun'
  <2>1. exec' = exec /\ t[2] \notin {"absent", "waiting", "ready"}
    BY <1>3 DEF Transition, LegalTransition, Terminal, Dead
  <2> QED
    BY <1>3, <2>1, TransitionShape
<1>4. ASSUME NEW n \in Node, ReconcileNode(n)
      PROVE  NotBegun'
  <2>1. exec' = exec
    BY <1>4 DEF ReconcileNode
  <2> QED
    BY <1>4, <2>1, ReconcileShape DEF Terminal, Dead
<1>5. CASE \E n \in Node : status[n] = "launching" /\ BeginExecution(n)
  BY <1>5 DEF BeginExecution, IInv, TypeOK
<1>6. CASE \E n \in Node : \E r \in Results : SettleExecution(n, r)
  BY <1>6 DEF SettleExecution, IInv, TypeOK
<1>7. CASE \E n \in Node : payload[n].kind = "tool" /\ exec[n] # "none" /\ RetryApprovedTool(n)
  BY <1>7 DEF RetryApprovedTool, IInv, TypeOK
<1>8. ASSUME NEW S \in SUBSET active, ReconcileUnlaunched(S)
      PROVE  NotBegun'
  <2>1. exec' = exec
    BY <1>8 DEF ReconcileUnlaunched
  <2> QED
    BY <1>8, <2>1, UnlaunchedShape DEF IInv
<1>9. CASE UNCHANGED planVars
  BY <1>9 DEF planVars
<1> QED
  BY <1>1, <1>2, <1>3, <1>4, <1>5, <1>6, <1>7, <1>8, <1>9 DEF Next
=============================================================================
