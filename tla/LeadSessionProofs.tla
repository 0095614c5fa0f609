-------------------------- MODULE LeadSessionProofs --------------------------
(***************************************************************************)
(* Consent, the budget of model calls, the live attempt of a run that      *)
(* waits, the answer to a question, the types of every variable, and the   *)
(* decision and the answer that work rests on, for any number of runs,     *)
(* calls, instructions, responses and stops of the process.                *)
(*                                                                         *)
(* The first four ask nothing of the run the controller works on, for an   *)
(* assignment to a run there is not changes no row; the types, which rest  *)
(* on them, say that it is a run of the session; the last rests on all.    *)
(***************************************************************************)
EXTENDS LeadSession, FiniteSetTheorems, WellFoundedInduction, TLAPS

-----------------------------------------------------------------------------
(* Consent.                                                                *)

GraphShape ==
  /\ DOMAIN graph = Run
  /\ \A r \in Run : DOMAIN graph[r] = {"at", "turn", "resp", "state", "final"}

ConsentTyped ==
  /\ approval \in [Run -> [Call -> {"none", "once", "consumed"}]]
  /\ ran \in [Run -> [Call -> Nat]]

Granted(r, i) == i \in DOMAIN graph[r].state /\ graph[r].state[i] = "granted"

\* A command that is not simply allowed.
NeedsConsent(r, i) == Evaluate(KindAt(r, i), AgentContext) # "allowed"

\* A command about to run has used up its consent, and has not run.
GrantsHold ==
  \A r \in Run : \A i : Granted(r, i) /\ NeedsConsent(r, i) =>
    \A c \in Call : c = CallAt(r, i) => approval[r][c] = "consumed" /\ ran[r][c] = 0

IInv == GraphShape /\ ConsentTyped /\ GrantsHold /\ RunsUnderConsent

\* No call is granted that was not, and the granted ones are the calls they were.
NoGrant ==
  \A r \in Run : \A i : Granted(r, i)' =>
    Granted(r, i) /\ graph'[r].turn = graph[r].turn /\ graph'[r].resp = graph[r].resp

\* A consent that was used up is not given back.
ConsentsStay ==
  \A r \in Run : \A c \in Call : approval[r][c] = "consumed" => approval'[r][c] = "consumed"

LEMMA QuietStep ==
  ASSUME IInv, GraphShape', ConsentTyped', NoGrant, ConsentsStay, ran' = ran
  PROVE  IInv'
<1>1. GrantsHold'
  <2> SUFFICES ASSUME NEW r \in Run, NEW i, Granted(r, i)', NeedsConsent(r, i)',
                      NEW c \in Call, c = CallAt(r, i)'
               PROVE  approval'[r][c] = "consumed" /\ ran'[r][c] = 0
    BY DEF GrantsHold
  <2>1. Granted(r, i) /\ NeedsConsent(r, i) /\ c = CallAt(r, i)
    BY DEF NoGrant, NeedsConsent, KindAt, CallAt
  <2>2. QED
    BY <2>1 DEF IInv, GrantsHold, ConsentsStay
<1>2. RunsUnderConsent'
  BY DEF IInv, RunsUnderConsent, ConsentsStay, ConsentTyped
<1>3. QED
  BY <1>1, <1>2 DEF IInv

LEMMA StillStep ==
  ASSUME IInv, UNCHANGED <<graph, approval, ran>>
  PROVE  IInv'
BY DEF IInv, GraphShape, ConsentTyped, GrantsHold, RunsUnderConsent, Granted, NeedsConsent,
       KindAt, CallAt

\* A call advances, and is not granted.
LEMMA AdvanceStep ==
  ASSUME IInv, UNCHANGED <<approval, ran>>, NEW i, NEW to, to # "granted", Advance(i, to)
  PROVE  IInv'
<1>1. GraphShape' /\ NoGrant
  BY DEF IInv, GraphShape, NoGrant, Granted, Advance
<1>2. ConsentTyped' /\ ConsentsStay
  BY DEF IInv, ConsentTyped, ConsentsStay
<1>3. QED
  BY <1>1, <1>2, QuietStep

LEMMA ExecuteStep == ASSUME IInv, NEW i, Execute(i) PROVE IInv'
<1>1. ran' = ran
  BY DEF Execute, ghosts
<1> DEFINE granted == Policy(i) = "allowed"
                      \/ (Policy(i) = "approval" /\ Allowed(CallAt(current, i)))
<1>2. CASE ~granted
  <2>1. PICK to \in {"waiting", "done"} : Advance(i, to)
    BY <1>2 DEF Execute
  <2>2. approval' = approval
    BY <1>2 DEF Execute
  <2>3. QED
    BY <1>1, <2>1, <2>2, AdvanceStep
<1>3. CASE granted
  <2> DEFINE k == CallAt(current, i)
  <2>1. /\ approval' = [approval EXCEPT ![current][k] = IF @ = "once" THEN "consumed" ELSE @]
        /\ Advance(i, "granted")
    BY <1>3 DEF Execute
  <2>2. GraphShape' /\ \A r \in Run : graph'[r].turn = graph[r].turn
                                      /\ graph'[r].resp = graph[r].resp
    BY <2>1 DEF IInv, GraphShape, Advance
  <2>3. \A r \in Run : \A j : Granted(r, j)' => Granted(r, j) \/ (r = current /\ j = i)
    BY <2>1 DEF IInv, GraphShape, Granted, Advance
  <2>4. ConsentTyped' /\ ConsentsStay
    BY <1>1, <2>1 DEF IInv, ConsentTyped, ConsentsStay
  <2>5. RunsUnderConsent'
    BY <1>1, <2>4 DEF IInv, RunsUnderConsent, ConsentsStay, ConsentTyped
  <2>6. GrantsHold'
    <3> SUFFICES ASSUME NEW r \in Run, NEW j, Granted(r, j)', NeedsConsent(r, j)',
                        NEW c \in Call, c = CallAt(r, j)'
                 PROVE  approval'[r][c] = "consumed" /\ ran'[r][c] = 0
      BY DEF GrantsHold
    <3>1. NeedsConsent(r, j) /\ c = CallAt(r, j)
      BY <2>2 DEF NeedsConsent, KindAt, CallAt
    <3>2. CASE Granted(r, j)
      BY <1>1, <2>4, <3>1, <3>2 DEF IInv, GrantsHold, ConsentsStay
    <3>3. CASE r = current /\ j = i
      <4>1. approval[r][c] = "once"
        BY <1>3, <3>1, <3>3 DEF NeedsConsent, Policy, Allowed
      <4>2. approval'[r][c] = "consumed"
        BY <2>1, <3>1, <3>3, <4>1 DEF IInv, ConsentTyped
      <4>3. ran[r][c] = 0
        BY <4>1 DEF IInv, RunsUnderConsent, ConsentTyped
      <4>4. QED
        BY <1>1, <4>2, <4>3
    <3>4. QED
      BY <2>3, <3>2, <3>3
  <2>7. QED
    BY <2>2, <2>4, <2>5, <2>6 DEF IInv
<1>4. QED
  BY <1>2, <1>3

LEMMA RunStep == ASSUME IInv, NEW i, RunCommand(i) PROVE IInv'
<1>1. approval' = approval /\ Advance(i, "ran")
  BY DEF RunCommand, stores
<1>2. CASE ran' = ran
  BY <1>1, <1>2, AdvanceStep
<1>3. CASE ran' # ran
  <2> DEFINE k == CallAt(current, i)
  <2>1. ran' = [ran EXCEPT ![current][k] = @ + 1] /\ Policy(i) # "allowed"
    BY <1>3 DEF RunCommand
  <2>2. current \in Run /\ k \in Call
    BY <1>3, <2>1 DEF IInv, ConsentTyped
  <2>3. Granted(current, i) /\ NeedsConsent(current, i)
    BY <2>1 DEF RunCommand, AtCall, Granted, NeedsConsent, Policy
  <2>4. approval[current][k] = "consumed" /\ ran[current][k] = 0
    BY <2>2, <2>3 DEF IInv, GrantsHold
  <2>5. ConsentTyped' /\ RunsUnderConsent'
    BY <1>1, <2>1, <2>2, <2>4 DEF IInv, ConsentTyped, RunsUnderConsent
  <2>6. GraphShape' /\ NoGrant /\ graph'[current].state[i] # "granted"
    BY <1>1, <2>2, <2>3 DEF IInv, GraphShape, NoGrant, Granted, Advance
  <2>7. GrantsHold'
    <3> SUFFICES ASSUME NEW r \in Run, NEW j, Granted(r, j)', NeedsConsent(r, j)',
                        NEW c \in Call, c = CallAt(r, j)'
                 PROVE  approval'[r][c] = "consumed" /\ ran'[r][c] = 0
      BY DEF GrantsHold
    <3>1. Granted(r, j) /\ NeedsConsent(r, j) /\ c = CallAt(r, j)
      BY <2>6 DEF NoGrant, NeedsConsent, KindAt, CallAt
    <3>2. r = current => j # i
      BY <2>6 DEF Granted
    <3>3. ~(r = current /\ c = k)
      BY <3>1, <3>2 DEF CallAt
    <3>4. ran'[r][c] = ran[r][c]
      BY <2>1, <3>3 DEF IInv, ConsentTyped
    <3>5. QED
      BY <1>1, <3>1, <3>4 DEF IInv, GrantsHold
  <2>8. QED
    BY <2>5, <2>6, <2>7 DEF IInv
<1>4. QED
  BY <1>2, <1>3

\* Rows, the terminal and the agent move; the calls and their consents do not.
LEMMA RowsStep ==
  ASSUME IInv,
         \/ BeginCall \/ CallFails \/ Persist \/ Interrupted \/ Park \/ Refer \/ Record
         \/ ResumeRaises \/ ResumeAmbiguous \/ PumpEnds \/ PumpWaits \/ PumpBlocked
         \/ \E status \in {"failed", "cancelled"} : PumpRaises(status)
         \/ \E waits \in BOOLEAN : Close(waits)
         \/ \E i \in 1..Width : RepeatedCall(i)
         \/ \E r \in Run, status \in {"blocked", "failed"} : Unassigned(r, status)
         \/ PromptRefused \/ Reject \/ Cancel
         \/ Reopen \/ Recover \/ NothingToRestore \/ \E headless \in BOOLEAN : Restore(headless)
  PROVE  IInv'
<1>1. UNCHANGED <<graph, approval, ran>>
  <2>1. BeginCall \/ CallFails \/ Persist \/ Interrupted \/ Park \/ Refer \/ Record
        => UNCHANGED <<graph, approval, ran>>
    BY DEF BeginCall, CallFails, Persist, Interrupted, Park, Refer, Record, saved, stores, ghosts
  <2>2. ResumeRaises \/ ResumeAmbiguous \/ PumpEnds \/ PumpWaits \/ PumpBlocked
        => UNCHANGED <<graph, approval, ran>>
    BY DEF ResumeRaises, ResumeAmbiguous, PumpEnds, PumpWaits, PumpBlocked, saved, stores, ghosts
  <2>3. ASSUME NEW status, PumpRaises(status) PROVE UNCHANGED <<graph, approval, ran>>
    BY <2>3 DEF PumpRaises, saved, stores, ghosts
  <2>4. ASSUME NEW waits, Close(waits) PROVE UNCHANGED <<graph, approval, ran>>
    BY <2>4 DEF Close, saved, stores, ghosts
  <2>5. ASSUME NEW i, RepeatedCall(i) PROVE UNCHANGED <<graph, approval, ran>>
    BY <2>5 DEF RepeatedCall, saved, stores, ghosts
  <2>6. ASSUME NEW r, NEW status, Unassigned(r, status) PROVE UNCHANGED <<graph, approval, ran>>
    BY <2>6 DEF Unassigned, saved, stores, ghosts
  <2>7. PromptRefused \/ Reject \/ Cancel \/ Reopen \/ Recover \/ NothingToRestore
        => UNCHANGED <<graph, approval, ran>>
    BY DEF PromptRefused, Reject, Cancel, Reopen, Recover, NothingToRestore, saved, stores, ghosts
  <2>8. ASSUME NEW headless, Restore(headless) PROVE UNCHANGED <<graph, approval, ran>>
    BY <2>8 DEF Restore, saved, stores, ghosts
  <2>9. QED
    BY <2>1, <2>2, <2>3, <2>4, <2>5, <2>6, <2>7, <2>8
<1>2. QED
  BY <1>1, StillStep

\* A call of the response ends, is told, or waits.
LEMMA CallStep ==
  ASSUME IInv, NEW i, TooEarly(i) \/ Refused(i) \/ Works(i) \/ Finish(i) \/ Ask(i) \/ Told(i)
  PROVE  IInv'
<1>1. UNCHANGED <<approval, ran>>
  BY DEF TooEarly, Refused, Works, Finish, Ask, Told, stores, ghosts
<1>2. Advance(i, "done") \/ Advance(i, "waiting") \/ Advance(i, "told") \/ graph' = graph
  BY DEF TooEarly, Refused, Works, Finish, Ask, Told
<1>3. QED
  BY <1>1, <1>2, AdvanceStep, StillStep

\* The graph goes to another turn, or its waiting calls are woken, or it is what a new
\* process finds.
LEMMA GraphStep ==
  ASSUME IInv,
         \/ \E r \in Run, said \in Instructions, given \in Given : Instruct(r, said, given)
         \/ \E resp \in Responses : Respond(resp)
         \/ NextTurn \/ Resume \/ \E quit \in BOOLEAN : Stop(quit)
  PROVE  IInv'
<1>1. UNCHANGED <<approval, ran>>
  BY DEF Instruct, Respond, NextTurn, Resume, Stop, stores, ghosts
<1>2. GraphShape' /\ NoGrant
  <2>1. ASSUME NEW r \in Run, NEW said, NEW given, Instruct(r, said, given)
        PROVE  GraphShape' /\ NoGrant
    BY <2>1 DEF IInv, Instruct, Invoke, GraphShape, NoGrant, Granted
  <2>2. ASSUME NEW resp, Respond(resp) PROVE GraphShape' /\ NoGrant
    BY <2>2 DEF IInv, Respond, GraphShape, NoGrant, Granted
  <2>3. ASSUME NextTurn PROVE GraphShape' /\ NoGrant
    BY <2>3 DEF IInv, NextTurn, GraphShape, NoGrant, Granted
  <2>4. ASSUME Resume PROVE GraphShape' /\ NoGrant
    BY <2>4 DEF IInv, Resume, GraphShape, NoGrant, Granted
  <2>5. ASSUME NEW quit, Stop(quit) PROVE GraphShape' /\ NoGrant
    BY <2>5 DEF IInv, Stop, GraphShape, NoGrant, Granted
  <2>6. QED
    BY <2>1, <2>2, <2>3, <2>4, <2>5
<1>3. ConsentTyped' /\ ConsentsStay
  BY <1>1 DEF IInv, ConsentTyped, ConsentsStay
<1>4. QED
  BY <1>1, <1>2, <1>3, QuietStep

\* The person allows a command, once; what was used up stays so.
LEMMA AnswerStep == ASSUME IInv, Answer PROVE IInv'
<1>1. UNCHANGED <<graph, ran>>
  BY DEF Answer, saved, ghosts
<1>2. ConsentTyped' /\ ConsentsStay
  BY <1>1 DEF IInv, Answer, AllowOnce, ConsentTyped, ConsentsStay
<1>3. GraphShape' /\ NoGrant
  BY <1>1 DEF IInv, GraphShape, NoGrant, Granted
<1>4. QED
  BY <1>1, <1>2, <1>3, QuietStep

\* The inductive invariant of consent holds in every session.
THEOREM ConsentInvariance == Spec => []IInv
<1>1. Init => IInv
  BY DEF Init, IInv, GraphShape, ConsentTyped, GrantsHold, RunsUnderConsent, Granted
<1>2. IInv /\ [Next]_vars => IInv'
  <2> SUFFICES ASSUME IInv, [Next]_vars PROVE IInv'
    OBVIOUS
  <2>1. CASE UNCHANGED vars
    BY <2>1, StillStep DEF vars, saved, stores, ghosts
  <2>2. CASE LeadStep
    <3>1. CASE ToolStep
      BY <3>1, RowsStep, CallStep, ExecuteStep, RunStep DEF ToolStep
    <3>2. CASE ~ToolStep
      BY <2>2, <3>2, RowsStep, GraphStep DEF LeadStep
    <3>3. QED
      BY <3>1, <3>2
  <2>3. CASE Person
    BY <2>3, RowsStep, GraphStep, AnswerStep DEF Person
  <2>4. CASE Process
    BY <2>4, RowsStep, GraphStep DEF Process
  <2>5. QED
    BY <2>1, <2>2, <2>3, <2>4 DEF Next
<1>3. QED
  BY <1>1, <1>2, PTL DEF Spec

\* A command that needs an approval runs at most once, and only after the approval it was
\* given was used up, through any number of runs, resumptions, answers and stops
\* (ApprovalStore.is_allowed and the replay of an interrupted call).
THEOREM CommandsRunUnderConsent == Spec => []RunsUnderConsent
<1>1. IInv => RunsUnderConsent
  BY DEF IInv
<1>2. QED
  BY <1>1, ConsentInvariance, PTL

-----------------------------------------------------------------------------
(* The budget of model calls.                                              *)

RowShape == DOMAIN row = Run /\ \A r \in Run : "started" \in DOMAIN row[r]

\* What the process counts is what the events of the run tell, and within the budget.
CallsFit ==
  /\ begun \in [Run -> Nat]
  /\ \A r \in Run : begun[r] = row[r].started /\ begun[r] <= CallLimit

BInv == RowShape /\ CallsFit

\* "the run reached its limit of {max_calls} model calls": in no run are more started.
CallsStayBounded == \A r \in Run : row[r].started \in 0..CallLimit

\* The rows of the runs tell of the same calls.
SameCalls == RowShape' /\ \A r \in Run : row'[r].started = row[r].started

LEMMA SameCallsStep == ASSUME BInv, SameCalls, begun' = begun PROVE BInv'
BY DEF BInv, CallsFit, SameCalls

LEMMA RowsUnchanged == ASSUME BInv, row' = row PROVE SameCalls
BY DEF BInv, RowShape, SameCalls

LEMMA EndedSameCalls ==
  ASSUME BInv, NEW r, NEW status, NEW attempt, Ended(r, status, attempt)
  PROVE  SameCalls
BY DEF BInv, RowShape, SameCalls, Ended

LEMMA BeginCallStep == ASSUME BInv, BeginCall PROVE BInv'
<1>1. /\ begun' = [begun EXCEPT ![current] = @ + 1]
      /\ row' = [row EXCEPT ![current].started = @ + 1]
      /\ begun[current] < CallLimit
  BY DEF BeginCall, CallAllowed
<1>2. RowShape'
  BY <1>1 DEF BInv, RowShape
<1>3. CallLimit \in Nat
  BY LeadAssumption
<1>4. CallsFit'
  <2>1. begun \in [Run -> Nat] /\ begun' = [begun EXCEPT ![current] = @ + 1]
    BY <1>1 DEF BInv, CallsFit
  <2>2. \A r \in Run : row'[r].started = IF r = current THEN row[r].started + 1 ELSE row[r].started
    BY <1>1 DEF BInv, RowShape
  <2>3. \A r \in Run : begun'[r] = IF r = current THEN begun[r] + 1 ELSE begun[r]
    BY <2>1
  <2>4. /\ begun' \in [Run -> Nat]
        /\ \A r \in Run : begun[r] = row[r].started /\ begun[r] \in Nat /\ begun[r] <= CallLimit
    <3>1. \A r \in Run : begun[r] \in Nat
      BY <2>1
    <3>2. \A r \in Run : (IF r = current THEN begun[r] + 1 ELSE begun[r]) \in Nat
      BY <3>1
    <3>3. begun' = [r \in Run |-> IF r = current THEN begun[r] + 1 ELSE begun[r]]
      BY <2>1
    <3>4. begun' \in [Run -> Nat]
      BY <3>2, <3>3
    <3>5. QED
      BY <3>1, <3>4 DEF BInv, CallsFit
  <2>5. ASSUME NEW r \in Run PROVE begun'[r] = row'[r].started /\ begun'[r] <= CallLimit
    <3>1. CASE r = current
      <4>1. begun'[r] = begun[r] + 1 /\ row'[r].started = row[r].started + 1 /\ begun[r] < CallLimit
        BY <1>1, <2>2, <2>3, <3>1
      <4>2. begun[r] = row[r].started /\ begun[r] \in Nat
        BY <2>4
      <4>3. QED
        BY <1>3, <4>1, <4>2
    <3>2. CASE r # current
      <4>1. begun'[r] = begun[r] /\ row'[r].started = row[r].started
        BY <2>2, <2>3, <3>2
      <4>2. QED
        BY <2>4, <4>1
    <3>3. QED
      BY <3>1, <3>2
  <2>6. QED
    BY <2>4, <2>5 DEF CallsFit
<1>5. QED
  BY <1>2, <1>4 DEF BInv

\* The events of the run are counted again.
LEMMA StopStep == ASSUME BInv, NEW quit, Stop(quit) PROVE BInv'
<1>1. row' = row /\ begun' = [r \in Run |-> row[r].started]
  BY DEF Stop, Reloaded
<1>2. QED
  BY <1>1 DEF BInv, RowShape, CallsFit

LEMMA LeadSameCalls ==
  ASSUME BInv, LeadStep, ~BeginCall
  PROVE  SameCalls /\ begun' = begun
<1>1. CASE ToolStep
  <2> PICK i \in 1..Width : \/ RepeatedCall(i) \/ TooEarly(i) \/ Refused(i) \/ Works(i)
                           \/ Execute(i) \/ RunCommand(i) \/ Finish(i)
                           \/ Ask(i) \/ Told(i)
    BY <1>1 DEF ToolStep
  <2>1. begun' = begun
    BY DEF RepeatedCall, TooEarly, Refused, Works, Execute, RunCommand, Finish, Ask, Told, agent
  <2>2. CASE RepeatedCall(i)
    BY <2>1, <2>2, EndedSameCalls DEF RepeatedCall, Fails
  <2>3. CASE TooEarly(i)
    <3>1. PICK required : row' = [row EXCEPT ![current].required = required]
      BY <2>3, Zenon DEF TooEarly
    <3>2. QED
      BY <2>1, <3>1 DEF BInv, RowShape, SameCalls
  <2>4. CASE Refused(i)
    BY <2>1, <2>4 DEF BInv, RowShape, SameCalls, Refused
  <2>5. CASE Finish(i)
    <3>1. PICK answered : row' = [row EXCEPT ![current].answered = answered]
      BY <2>5, Zenon DEF Finish
    <3>2. QED
      BY <2>1, <3>1 DEF BInv, RowShape, SameCalls
  <2>6. CASE Works(i) \/ Execute(i) \/ RunCommand(i) \/ Ask(i) \/ Told(i)
    BY <2>1, <2>6, RowsUnchanged DEF Works, Execute, RunCommand, Ask, Told, rows
  <2>7. QED
    BY <2>1, <2>2, <2>3, <2>4, <2>5, <2>6
<1>2. CASE CallFails \/ PumpBlocked \/ ResumeAmbiguous
  <2>1. SameCalls
    BY <1>2, EndedSameCalls DEF CallFails, Fails, PumpBlocked, ResumeAmbiguous
  <2>2. QED
    BY <1>2, <2>1 DEF CallFails, PumpBlocked, ResumeAmbiguous, agent
<1>3. CASE Persist \/ Park \/ PumpWaits
  <2>1. SameCalls
    BY <1>3 DEF BInv, RowShape, SameCalls, Persist, Park, PumpWaits
  <2>2. QED
    BY <1>3, <2>1 DEF Persist, Park, PumpWaits, agent
<1>4. CASE NextTurn \/ Interrupted \/ Refer \/ Record \/ ResumeRaises \/ PumpEnds \/ Resume
  <2>1. row' = row /\ begun' = begun
    BY <1>4 DEF NextTurn, Interrupted, Refer, Record, ResumeRaises, PumpEnds, Resume, rows, agent
  <2>2. QED
    BY <2>1, RowsUnchanged
<1>5. ASSUME NEW resp, Respond(resp) PROVE SameCalls /\ begun' = begun
  <2>1. row' = row /\ begun' = begun
    BY <1>5 DEF Respond, rows
  <2>2. QED
    BY <2>1, RowsUnchanged
<1>6. CASE PumpRaises("failed")
  BY <1>6, EndedSameCalls, RowsUnchanged DEF PumpRaises, rows, agent
<1>7. ASSUME NEW waits, Close(waits) PROVE SameCalls /\ begun' = begun
  BY <1>7, EndedSameCalls DEF Close, GateBlocked, agent
<1>8. QED
  BY <1>1, <1>2, <1>3, <1>4, <1>5, <1>6, <1>7 DEF LeadStep

LEMMA PersonSameCalls == ASSUME BInv, Person PROVE SameCalls /\ begun' = begun
<1>1. ASSUME NEW r \in Run, NEW said, NEW given, Instruct(r, said, given)
      PROVE  SameCalls /\ begun' = begun
  BY <1>1 DEF BInv, RowShape, SameCalls, Instruct, Started
<1>2. ASSUME NEW r, NEW status, Unassigned(r, status) PROVE SameCalls /\ begun' = begun
  BY <1>2, EndedSameCalls DEF Unassigned, agent
<1>3. CASE Answer \/ PromptRefused
  BY <1>3, RowsUnchanged DEF Answer, PromptRefused, rows, agent
<1>4. CASE Reject
  BY <1>4, EndedSameCalls, RowsUnchanged DEF Reject, rows, agent
<1>5. CASE Cancel
  BY <1>5, EndedSameCalls DEF Cancel, Fails, agent
<1>6. CASE PumpRaises("cancelled")
  BY <1>6, EndedSameCalls, RowsUnchanged DEF PumpRaises, rows, agent
<1>7. QED
  BY <1>1, <1>2, <1>3, <1>4, <1>5, <1>6 DEF Person

LEMMA ProcessStep == ASSUME BInv, Process PROVE BInv'
<1>1. ASSUME NEW quit, Stop(quit) PROVE BInv'
  BY <1>1, StopStep
<1>2. CASE Recover
  <2>1. SameCalls
    BY <1>2 DEF BInv, RowShape, SameCalls, Recover
  <2>2. QED
    BY <1>2, <2>1, SameCallsStep DEF Recover, agent
<1>3. CASE Reopen \/ NothingToRestore \/ \E headless \in BOOLEAN : Restore(headless)
  <2>1. row' = row /\ begun' = begun
    BY <1>3 DEF Reopen, NothingToRestore, Restore, rows, agent
  <2>2. QED
    BY <2>1, RowsUnchanged, SameCallsStep
<1>4. QED
  BY <1>1, <1>2, <1>3 DEF Process

\* The inductive invariant of the budget holds in every session.
THEOREM BudgetInvariance == Spec => []BInv
<1>1. Init => BInv
  BY LeadAssumption DEF Init, BInv, RowShape, CallsFit
<1>2. BInv /\ [Next]_vars => BInv'
  <2> SUFFICES ASSUME BInv, [Next]_vars PROVE BInv'
    OBVIOUS
  <2>1. CASE UNCHANGED vars
    BY <2>1, RowsUnchanged, SameCallsStep DEF vars, rows, agent
  <2>2. CASE LeadStep
    BY <2>2, BeginCallStep, LeadSameCalls, SameCallsStep
  <2>3. CASE Person
    BY <2>3, PersonSameCalls, SameCallsStep
  <2>4. CASE Process
    BY <2>4, ProcessStep
  <2>5. QED
    BY <2>1, <2>2, <2>3, <2>4 DEF Next
<1>3. QED
  BY <1>1, <1>2, PTL DEF Spec

\* No run starts more model calls than MAX_MODEL_CALLS_PER_RUN: the budget is counted
\* again from the run's events by every process that resumes it (RunModelCallBudget,
\* _model_call_budget_for_run), and a refused call ends the run.
THEOREM ModelCallsBounded == Spec => []CallsStayBounded
<1>1. BInv => CallsStayBounded
  BY LeadAssumption DEF BInv, CallsFit, CallsStayBounded
<1>2. QED
  BY <1>1, BudgetInvariance, PTL

-----------------------------------------------------------------------------
(* The live attempt of a run that waits.                                   *)

\* The columns of a run's row that tell whether it can be taken up again.
RunShape == DOMAIN row = Run /\ \A r \in Run : {"status", "attempt"} \subseteq DOMAIN row[r]

Working == {"loop", "calling", "judged", "tools", "park", "record", "pump", "close", "terminal"}

\* The controller works on one run, which is the pending one if there is one; a first
\* execution has none until it parks.
OneRun ==
  /\ stage \in {"idle", "down", "recovered"} => current = NoRun
  /\ current # NoRun /\ pending # NoRun => pending = current
  /\ stage \in Working /\ ~resumed => pending = NoRun
  /\ stage \in {"park", "terminal"} => ~resumed

\* What is worked on, or waits, or has a reference, has started; the first two have a
\* lead attempt that runs, but for a run that has ended and is to be referred to.
AttemptsRun ==
  \A r \in Run :
    /\ row[r].status = "none" => row[r].attempt = "none"
    /\ pending = r \/ current = r \/ ref.run = r => row[r].status # "none"
    /\ pending = r \/ (current = r /\ stage # "terminal") => row[r].attempt = "running"
    /\ current = r /\ stage = "terminal" =>
         /\ row[r].attempt # "running"
         /\ row[r].status = "blocked" => row[r].attempt # "interrupted"

\* A reference that names no live attempt belongs to a run that has none.
DeadRef == \A r \in Run : ref.run = r /\ ~ref.live => row[r].attempt # "running"

\* The newest reference is that of the pending run.
RefOfPending == pending # NoRun /\ stage # "refer" => ref.run \in {NoRun, pending}

\* A recovery interrupts no attempt that a reference can bring back.
NotLost ==
  \A r \in Run : row[r].status = "blocked" /\ row[r].attempt = "interrupted" => ref.run # r

LInv == RunShape /\ OneRun /\ AttemptsRun /\ DeadRef /\ RefOfPending /\ NotLost

LEMMA NoRunIsNone == NoRun \notin Run
BY DEF NoRun, Run

\* No run changes what its row tells of it, or only run q does.
SameRows ==
  RunShape' /\ \A r \in Run : row'[r].status = row[r].status /\ row'[r].attempt = row[r].attempt
ChangesRow(q, status, attempt) ==
  /\ RunShape'
  /\ \A r \in Run : IF r = q THEN row'[r].status = status /\ row'[r].attempt = attempt
                    ELSE row'[r].status = row[r].status /\ row'[r].attempt = row[r].attempt

LEMMA RowsKept == ASSUME LInv, row' = row PROVE SameRows
BY DEF LInv, RunShape, SameRows

LEMMA EndedChanges ==
  ASSUME LInv, NEW q, NEW status, NEW attempt, Ended(q, status, attempt)
  PROVE  ChangesRow(q, status, attempt)
BY DEF LInv, RunShape, Ended, ChangesRow

\* The loop goes on.
LEMMA LoopStays ==
  ASSUME LInv, SameRows, UNCHANGED <<ref, pending, current, resumed>>,
         stage \in Working \ {"park", "terminal"}, stage' \in Working \ {"terminal"},
         stage' = "park" => ~resumed
  PROVE  LInv'
<1>1. OneRun'
  BY DEF LInv, OneRun, Working
<1>2. AttemptsRun' /\ DeadRef' /\ NotLost'
  BY DEF LInv, AttemptsRun, DeadRef, NotLost, SameRows, Working
<1>3. RefOfPending'
  BY DEF LInv, RefOfPending, Working
<1> QED BY <1>1, <1>2, <1>3 DEF LInv, SameRows

\* A run ends for which nothing is worked on any more, and nothing waits.
LEMMA EndsAside ==
  ASSUME LInv, NEW q, NEW status, NEW attempt, ChangesRow(q, status, attempt),
         status # "none", attempt # "running", status = "blocked" => attempt # "interrupted",
         stage' = "idle", current' = NoRun, pending' = NoRun, ref' = ref
  PROVE  LInv'
<1>1. OneRun' /\ RefOfPending'
  BY DEF OneRun, RefOfPending, Working
<1>2. AttemptsRun' /\ DeadRef' /\ NotLost'
  BY NoRunIsNone DEF LInv, AttemptsRun, DeadRef, NotLost, ChangesRow
<1> QED BY <1>1, <1>2 DEF LInv, ChangesRow

\* The run that is worked on ends; a first execution has its reference still to save.
LEMMA LeavesWork ==
  ASSUME LInv, NEW status, NEW attempt, ChangesRow(current, status, attempt),
         status # "none", attempt # "running", status = "blocked" => attempt # "interrupted",
         stage \in Working \ {"terminal"}, Leave, UNCHANGED <<ref, resumed>>
  PROVE  LInv'
<1>1. CASE resumed
  BY <1>1, EndsAside DEF Leave, Forgotten
<1>2. CASE ~resumed
  <2>1. stage' = "terminal" /\ UNCHANGED <<current, pending>> /\ pending = NoRun
    BY <1>2 DEF Leave, LInv, OneRun
  <2>2. OneRun' /\ RefOfPending'
    BY <1>2, <2>1 DEF OneRun, RefOfPending, Working
  <2>3. AttemptsRun' /\ DeadRef' /\ NotLost'
    BY <2>1, NoRunIsNone DEF LInv, AttemptsRun, DeadRef, NotLost, ChangesRow
  <2> QED BY <2>2, <2>3 DEF LInv, ChangesRow
<1> QED BY <1>1, <1>2

\* The controller comes to rest with the rows as they are.
LEMMA ComesToRest ==
  ASSUME LInv, row' = row, ref' = ref, stage' \in {"idle", "down", "recovered"},
         current' = NoRun, pending' = NoRun \/ (pending' = pending /\ stage # "refer")
  PROVE  LInv'
<1>1. OneRun' /\ RefOfPending'
  BY DEF LInv, OneRun, RefOfPending, Working
<1>2. AttemptsRun' /\ DeadRef' /\ NotLost'
  BY RowsKept, NoRunIsNone DEF LInv, AttemptsRun, DeadRef, NotLost, SameRows
<1> QED BY <1>1, <1>2, RowsKept DEF LInv, SameRows

LEMMA ParkStays == ASSUME LInv, Park PROVE LInv'
<1>1. /\ stage = "park" /\ stage' = "refer" /\ pending' = current
      /\ UNCHANGED <<ref, current, resumed>>
      /\ row' = [row EXCEPT ![current].status = "blocked", ![current].attempt = "running"]
  BY DEF Park, saved
<1>2. ChangesRow(current, "blocked", "running")
  BY <1>1 DEF LInv, RunShape, ChangesRow
<1>3. OneRun' /\ RefOfPending'
  BY <1>1 DEF OneRun, RefOfPending, Working
<1>4. AttemptsRun' /\ DeadRef' /\ NotLost'
  BY <1>1, <1>2, NoRunIsNone DEF LInv, AttemptsRun, DeadRef, NotLost, ChangesRow
<1> QED BY <1>2, <1>3, <1>4 DEF LInv, ChangesRow

LEMMA PumpWaitsStays == ASSUME LInv, PumpWaits PROVE LInv'
<1>1. /\ stage = "pump" /\ stage' = "refer" /\ pending' = current
      /\ UNCHANGED <<ref, current, resumed>>
      /\ row' = [row EXCEPT ![current].status = "blocked"]
  BY DEF PumpWaits, saved
<1>2. /\ RunShape'
      /\ \A r \in Run : /\ row'[r].attempt = row[r].attempt
                        /\ row'[r].status = IF r = current THEN "blocked" ELSE row[r].status
  BY <1>1 DEF LInv, RunShape
<1>3. OneRun' /\ RefOfPending'
  BY <1>1 DEF OneRun, RefOfPending, Working
<1>4. AttemptsRun' /\ DeadRef' /\ NotLost'
  BY <1>1, <1>2, NoRunIsNone DEF LInv, AttemptsRun, DeadRef, NotLost
<1> QED BY <1>2, <1>3, <1>4 DEF LInv

LEMMA ReferStays == ASSUME LInv, Refer PROVE LInv'
<1>1. /\ stage \in {"refer", "terminal"} /\ stage' = "idle" /\ current' = NoRun
      /\ ref'.run = current /\ ref'.live = (stage = "refer")
      /\ pending' = pending /\ row' = row
  BY DEF Refer, rows
<1>2. OneRun' /\ RefOfPending'
  BY <1>1 DEF LInv, OneRun, RefOfPending, Working
<1>3. AttemptsRun' /\ DeadRef' /\ NotLost'
  BY <1>1, RowsKept, NoRunIsNone DEF LInv, AttemptsRun, DeadRef, NotLost, SameRows
<1> QED BY <1>1, <1>2, <1>3, RowsKept DEF LInv, SameRows

LEMMA RecordStays == ASSUME LInv, Record PROVE LInv'
<1>1. /\ stage = "record" /\ ref'.run = current /\ ref'.live = TRUE
      /\ UNCHANGED <<pending, row, resumed>>
      /\ \/ stage' = "pump" /\ current' = current
         \/ stage' = "idle" /\ current' = NoRun
  BY DEF Record, LiveAttempt
<1>2. OneRun' /\ RefOfPending'
  BY <1>1 DEF LInv, OneRun, RefOfPending, Working
<1>3. AttemptsRun' /\ DeadRef' /\ NotLost'
  BY <1>1, RowsKept, NoRunIsNone DEF LInv, AttemptsRun, DeadRef, NotLost, SameRows
<1> QED BY <1>1, <1>2, <1>3, RowsKept DEF LInv, SameRows

LEMMA ResumeStays == ASSUME LInv, Resume PROVE LInv'
<1>1. /\ stage = "resume" /\ stage' \in {"pump", "record", "tools"} /\ resumed' = TRUE
      /\ UNCHANGED <<pending, row, ref, current>>
  BY DEF Resume, Prepared, rows
<1>2. OneRun' /\ RefOfPending'
  BY <1>1 DEF LInv, OneRun, RefOfPending, Working
<1>3. AttemptsRun' /\ DeadRef' /\ NotLost'
  BY <1>1, RowsKept, NoRunIsNone DEF LInv, AttemptsRun, DeadRef, NotLost, SameRows
<1> QED BY <1>1, <1>2, <1>3, RowsKept DEF LInv, SameRows

LEMMA PumpRaisesStays ==
  ASSUME LInv, NEW status \in {"failed", "cancelled"}, PumpRaises(status)
  PROVE  LInv'
<1>1. stage = "pump" /\ stage' = "idle" /\ current' = NoRun /\ UNCHANGED <<pending, ref>>
  BY DEF PumpRaises, saved, wait
<1>2. CASE resumed
  BY <1>1, <1>2, ComesToRest DEF PumpRaises, rows
<1>3. CASE ~resumed
  <2>1. pending = NoRun
    BY <1>1, <1>3 DEF LInv, OneRun, Working
  <2>2. PICK attempt \in {"interrupted", "failed"} : ChangesRow(current, status, attempt)
    BY <1>3, EndedChanges DEF PumpRaises
  <2> QED BY <1>1, <2>1, <2>2, EndsAside
<1> QED BY <1>2, <1>3

\* The steps of the loop that change no row but in what it tells of the events.
LEMMA LoopRows ==
  ASSUME LInv, NEW i, \/ BeginCall \/ Persist \/ NextTurn \/ Interrupted \/ PumpEnds
                      \/ \E resp \in Responses : Respond(resp)
                      \/ TooEarly(i) \/ Works(i) \/ Execute(i) \/ RunCommand(i) \/ Finish(i)
                      \/ Ask(i) \/ Told(i)
  PROVE  SameRows
<1>1. CASE row' = row
  BY <1>1, RowsKept
<1>2. CASE BeginCall \/ Persist \/ TooEarly(i) \/ Finish(i)
  <2>1. \/ row' = row
        \/ \E v : row' = [row EXCEPT ![current].started = v]
        \/ \E v : row' = [row EXCEPT ![current].decision = v]
        \/ \E v : row' = [row EXCEPT ![current].required = v]
        \/ \E v : row' = [row EXCEPT ![current].answered = v]
    BY <1>2, Zenon DEF BeginCall, Persist, TooEarly, Finish
  <2> QED BY <2>1 DEF LInv, RunShape, SameRows
<1>3. QED
  BY <1>1, <1>2 DEF NextTurn, Interrupted, PumpEnds, Respond, Works, Execute, RunCommand, Ask,
     Told, rows

LEMMA LoopSteps ==
  ASSUME LInv, NEW i, \/ BeginCall \/ Persist \/ NextTurn \/ Interrupted \/ PumpEnds
                      \/ \E resp \in Responses : Respond(resp)
                      \/ TooEarly(i) \/ Works(i) \/ Execute(i) \/ RunCommand(i) \/ Finish(i)
                      \/ Ask(i) \/ Told(i)
  PROVE  LInv'
<1>1. UNCHANGED <<ref, pending, current, resumed>>
  BY DEF BeginCall, Persist, NextTurn, Interrupted, PumpEnds, Respond, TooEarly, Works, Execute,
         RunCommand, Finish, Ask, Told, saved, wait
<1>2. /\ stage \in Working \ {"park", "terminal"} /\ stage' \in Working \ {"terminal"}
      /\ stage' = "park" => ~resumed
  BY DEF BeginCall, Persist, NextTurn, Interrupted, PumpEnds, Respond, TooEarly, Works, Execute,
         RunCommand, Finish, Ask, Told, AtCall, Working
<1> QED BY <1>1, <1>2, LoopRows, LoopStays

\* A refusal that ends the run, or that does not.
LEMMA RefusedStays == ASSUME LInv, NEW i, Refused(i) PROVE LInv'
<1>1. stage = "tools" /\ UNCHANGED <<ref, resumed>>
  BY DEF Refused, AtCall
<1>2. PICK bad : /\ bad = row \/ \E v : bad = [row EXCEPT ![current].bad = v]
                 /\ \/ /\ row' = [bad EXCEPT ![current].status = "failed",
                                             ![current].attempt = "failed"]
                       /\ Leave
                    \/ row' = bad /\ UNCHANGED <<stage, current, wait>>
  BY Zenon DEF Refused
<1>3. CASE Leave /\ row' = [bad EXCEPT ![current].status = "failed", ![current].attempt = "failed"]
  <2>1. ChangesRow(current, "failed", "failed")
    BY <1>2, <1>3 DEF LInv, RunShape, ChangesRow
  <2> QED BY <1>1, <1>3, <2>1, LeavesWork DEF Working
<1>4. CASE row' = bad /\ UNCHANGED <<stage, current, wait>>
  <2>1. SameRows
    BY <1>2, <1>4 DEF LInv, RunShape, SameRows
  <2> QED BY <1>1, <1>4, <2>1, LoopStays DEF wait, Working
<1> QED BY <1>2, <1>3, <1>4

LEMMA EndingSteps ==
  ASSUME LInv, NEW i, NEW waits, CallFails \/ RepeatedCall(i) \/ Cancel \/ Close(waits)
  PROVE  LInv'
<1>1. /\ stage \in Working \ {"terminal"} /\ Leave /\ UNCHANGED <<ref, resumed>>
      /\ \E status, attempt : /\ Ended(current, status, attempt)
                              /\ status # "none" /\ attempt # "running"
                              /\ status = "blocked" => attempt # "interrupted"
  BY DEF CallFails, RepeatedCall, Cancel, Close, GateBlocked, Fails, AtCall, Working, saved
<1> QED BY <1>1, EndedChanges, LeavesWork

LEMMA BlockedSteps ==
  ASSUME LInv, PumpBlocked \/ ResumeAmbiguous \/ Reject
  PROVE  LInv'
<1>1. CASE PumpBlocked
  BY <1>1, EndedChanges, EndsAside DEF PumpBlocked, Forgotten, saved
<1>2. CASE ResumeAmbiguous
  BY <1>2, EndedChanges, EndsAside DEF ResumeAmbiguous, Forgotten, saved
<1>3. CASE Reject
  <2>1. stage = "idle" /\ UNCHANGED <<ref, stage, current>> /\ current = NoRun
    BY <1>3 DEF Reject, saved, LInv, OneRun
  <2>2. CASE pending # NoRun
    BY <1>3, <2>1, <2>2, EndedChanges, EndsAside DEF Reject, Forgotten
  <2>3. CASE pending = NoRun
    BY <1>3, <2>1, <2>3, ComesToRest DEF Reject, rows, wait
  <2> QED BY <2>2, <2>3
<1> QED BY <1>1, <1>2, <1>3

LEMMA LeadStays == ASSUME LInv, LeadStep PROVE LInv'
<1>1. CASE ToolStep
  BY <1>1, LoopSteps, RefusedStays, EndingSteps DEF ToolStep
<1>2. CASE Park \/ Refer \/ Record \/ PumpWaits \/ Resume \/ PumpRaises("failed")
  BY <1>2, ParkStays, ReferStays, RecordStays, PumpWaitsStays, ResumeStays, PumpRaisesStays
<1>3. CASE ResumeRaises
  BY <1>3, ComesToRest DEF ResumeRaises, Raises, Prepared, rows, saved, wait
<1>4. QED
  BY <1>1, <1>2, <1>3, LoopSteps, EndingSteps, BlockedSteps DEF LeadStep

LEMMA InstructStays ==
  ASSUME LInv, NEW r \in Run, NEW said, NEW given, Instruct(r, said, given)
  PROVE  LInv'
<1>1. /\ stage = "idle" /\ pending = NoRun /\ pending' = NoRun /\ row[r].status = "none"
      /\ stage' = "loop" /\ current' = r /\ resumed' = FALSE /\ ref' = ref
  BY DEF Instruct, Accepts, Invoke
<1>2. ChangesRow(r, "running", "running")
  BY DEF Instruct, Started, LInv, RunShape, ChangesRow
<1>3. OneRun' /\ RefOfPending'
  BY <1>1 DEF OneRun, RefOfPending, Working
<1>4. AttemptsRun' /\ DeadRef' /\ NotLost'
  BY <1>1, <1>2, NoRunIsNone DEF LInv, AttemptsRun, DeadRef, NotLost, ChangesRow
<1> QED BY <1>2, <1>3, <1>4 DEF LInv, ChangesRow

\* Only a run whose lead attempt runs is restored, and no other has the reference.
LEMMA RestoredFits ==
  ASSUME LInv, Restored
  PROVE  /\ pending' # NoRun /\ pending' = Candidate /\ ref.run \in {NoRun, pending'}
         /\ \A r \in Run : pending' = r => row[r].attempt = "running" /\ row[r].status # "none"
BY DEF Restored, Candidate, LInv, AttemptsRun

LEMMA TakesUp ==
  ASSUME LInv, row' = row, ref' = ref, stage # "refer", pending' # NoRun,
         ref.run \in {NoRun, pending'},
         \A r \in Run : pending' = r => row[r].attempt = "running" /\ row[r].status # "none",
         \/ stage' = "idle" /\ current' = NoRun
         \/ stage' = "resume" /\ current' = pending'
  PROVE  LInv'
<1>1. OneRun' /\ RefOfPending'
  BY DEF OneRun, RefOfPending, Working
<1>2. AttemptsRun' /\ DeadRef' /\ NotLost'
  BY RowsKept, NoRunIsNone DEF LInv, AttemptsRun, DeadRef, NotLost, SameRows
<1> QED BY <1>1, <1>2, RowsKept DEF LInv, SameRows

LEMMA PersonStays == ASSUME LInv, Person PROVE LInv'
<1>1. ASSUME NEW r \in Run, NEW status \in {"blocked", "failed"}, Unassigned(r, status) PROVE LInv'
  <2>1. /\ stage' = "idle" /\ current' = NoRun /\ pending' = NoRun /\ ref' = ref
        /\ Ended(r, status, status)
    BY <1>1 DEF Unassigned, Accepts, saved, wait, LInv, OneRun
  <2> QED BY <2>1, EndedChanges, EndsAside
<1>2. CASE Answer
  <2>1. /\ stage = "idle" /\ stage' = "resume" /\ pending # NoRun /\ current' = pending
        /\ UNCHANGED <<row, ref, pending>>
    BY <1>2 DEF Answer, rows, saved
  <2>2. ref.run \in {NoRun, pending}
    BY <2>1 DEF LInv, RefOfPending
  <2>3. \A r \in Run : pending = r => row[r].attempt = "running" /\ row[r].status # "none"
    BY DEF LInv, AttemptsRun
  <2> QED BY <2>1, <2>2, <2>3, TakesUp
<1>3. CASE PromptRefused
  BY <1>3, RestoredFits, TakesUp DEF PromptRefused, rows, saved, LInv, OneRun
<1>4. QED
  BY <1>1, <1>2, <1>3, InstructStays, BlockedSteps, EndingSteps, PumpRaisesStays DEF Person

\* The attempt that the reference names is not interrupted by a recovery.
LEMMA RecoverStays == ASSUME LInv, Recover PROVE LInv'
<1>1. /\ stage \in {"down", "idle"} /\ stage' = "recovered" /\ ref.run # NoRun
      /\ current' = NoRun /\ UNCHANGED <<pending, ref, resumed>>
  BY DEF Recover, saved, wait, LInv, OneRun
<1>2. /\ RunShape'
      /\ \A r \in Run :
           /\ row'[r].status = row[r].status
           /\ row'[r].attempt = IF row[r].attempt = "running" /\ ~(ref.live /\ r = ref.run)
                                THEN "interrupted" ELSE row[r].attempt
  BY DEF Recover, LInv, RunShape
<1>3. OneRun' /\ RefOfPending'
  BY <1>1 DEF LInv, OneRun, RefOfPending, Working
<1>4. AttemptsRun' /\ DeadRef' /\ NotLost'
  <2>1. \A r \in Run : pending = r => ref.run = r /\ row[r].attempt = "running"
    BY <1>1, NoRunIsNone DEF LInv, RefOfPending, AttemptsRun
  <2> QED BY <1>1, <1>2, <2>1, NoRunIsNone DEF LInv, AttemptsRun, DeadRef, NotLost
<1> QED BY <1>2, <1>3, <1>4 DEF LInv

LEMMA ProcessStays == ASSUME LInv, Process PROVE LInv'
<1>1. ASSUME NEW quit, Stop(quit) PROVE LInv'
  BY <1>1, ComesToRest DEF Stop
<1>2. CASE Reopen \/ NothingToRestore
  BY <1>2, ComesToRest DEF Reopen, NothingToRestore, rows, saved, wait, LInv, OneRun
<1>3. ASSUME NEW headless \in BOOLEAN, Restore(headless) PROVE LInv'
  <2>1. Restored /\ stage = "recovered" /\ UNCHANGED <<row, ref>>
    BY <1>3 DEF Restore, rows, saved
  <2>2. \/ stage' = "idle" /\ current' = NoRun
        \/ stage' = "resume" /\ current' = pending'
    BY <1>3, <2>1, RestoredFits DEF Restore, LInv, OneRun
  <2> QED BY <2>1, <2>2, RestoredFits, TakesUp
<1>4. QED
  BY <1>1, <1>2, <1>3, RecoverStays DEF Process

\* What is worked on, waits or is referred to has a live attempt, in every session.
THEOREM LiveAttempts == Spec => []LInv
<1>1. Init => LInv
  BY NoRunIsNone DEF Init, LInv, RunShape, OneRun, AttemptsRun, DeadRef, RefOfPending, NotLost,
                     Working
<1>2. LInv /\ [Next]_vars => LInv'
  <2> SUFFICES ASSUME LInv, [Next]_vars PROVE LInv'
    OBVIOUS
  <2>1. CASE UNCHANGED vars
    <3>1. UNCHANGED <<row, ref, pending, current, resumed, stage>>
      BY <2>1 DEF vars, rows, saved, wait
    <3> QED BY <3>1 DEF LInv, RunShape, OneRun, AttemptsRun, DeadRef, RefOfPending, NotLost
  <2>2. QED
    BY <2>1, LeadStays, PersonStays, ProcessStays DEF Next
<1>3. QED
  BY <1>1, <1>2, PTL DEF Spec

\* A waiting run whose reference is current can be put to the person again: a recovery
\* (recover_runs with the live keys of _save_checkpoint_ref) interrupts no attempt that the
\* newest reference belongs to, whatever the answers, stops and prompts before it.
THEOREM QuestionsSurvive == Spec => []QuestionSurvives
<1>1. LInv => QuestionSurvives
  BY DEF LInv, NotLost, QuestionSurvives
<1>2. QED
  BY <1>1, LiveAttempts, PTL

-----------------------------------------------------------------------------
(* The answer to a question.                                               *)
(*                                                                         *)
(* What is said here of the calls of a run is said of its graph g and of   *)
(* its questions q, so that a step that leaves both alone leaves it true.  *)

OpenOf(g) == {i \in DOMAIN g.state : g.state[i] # "done"}
Rests(g) == \A i \in OpenOf(g) : g.state[i] = "waiting"
AtMostOne(g) == \A i, j \in OpenOf(g) : i = j

\* Every question that is pending belongs to a call that waits, or that was just woken.
Placed(g, q) ==
  \A c \in Call : q[c] = "pending" =>
    \E i \in OpenOf(g) : /\ c = <<g.turn, i>> /\ g.resp[i] = "ask"
                         /\ g.state[i] \in {"waiting", "woken"}

\* An interrupt x that is the one of call i of run r.
Matches(r, g, i, x) ==
  /\ x.run = r /\ x.call = <<g.turn, i>>
  /\ x.kind \in (IF g.resp[i] = "ask" THEN {"question", "bare"} ELSE {"approval"})

\* With one call open the interrupt is the one of that call; with none it is a plan's tool.
Stands(r, g, x) ==
  /\ OpenOf(g) = {} => x.kind = "tool"
  /\ \A i \in OpenOf(g) : OpenOf(g) = {i} => Matches(r, g, i, x)

\* A call that was woken, and asks, has been given its own answer.
Due(r, g, q, x) ==
  \A i \in OpenOf(g) : \A c \in Call :
    g.state[i] = "woken" /\ c = <<g.turn, i>> /\ q[c] = "pending" => Matches(r, g, i, x)

\* The card of a resumed lead at its tools: the question of a call that is being told.
Held(g, x) ==
  /\ x.kind = "question"
  /\ \E i \in OpenOf(g) : /\ x.call = <<g.turn, i>> /\ g.resp[i] = "ask"
                          /\ g.state[i] \in {"woken", "told"}

AnswerTyped ==
  /\ GraphShape
  /\ \A r \in Run : /\ graph[r].at \in Nat /\ graph[r].resp \in Responses
                    /\ DOMAIN graph[r].state = DOMAIN graph[r].resp
  /\ question \in [Run -> [Call -> {"none", "pending", "answered", "cancelled"}]]
  /\ DOMAIN heard = Run /\ \A r \in Run : DOMAIN heard[r] = Call

Places == \A r \in Run : Placed(graph[r], question[r])

\* Where no call of a run can be open.
Turns ==
  \A r \in Run :
    /\ row[r].status = "none" \/ graph[r].final => DOMAIN graph[r].state = {}
    /\ current = r /\ stage \in {"loop", "calling"} => DOMAIN graph[r].state = {}
    /\ current = r /\ stage = "pump" /\ ~resumed => DOMAIN graph[r].state = {}

\* The calls of a run are at work only while its tools are, or when it has failed.
CallsRest ==
  \A r \in Run : \/ Rests(graph[r]) \/ row[r].attempt # "running"
                 \/ current = r /\ stage \in {"judged", "tools"}

\* A first execution begins with nothing on the terminal, and the newest reference is of
\* another run until it parks.
FirstExecution ==
  /\ stage \in Working \cup {"refer"} /\ ~resumed => card = None
  /\ stage = "refer" => ~resumed /\ shown.kind # "bare"
  /\ stage = "recovered" => ref.run # NoRun /\ session = "active"
  /\ \A r \in Run : current = r =>
       /\ ~resumed /\ stage \in {"loop", "calling", "judged", "tools", "park"} => ref.run # r
       /\ stage = "park" => OpenOf(graph[r]) # {}
       /\ stage = "refer" => Stands(r, graph[r], shown)

\* A resumption works on the pending run.
Resumption ==
  /\ stage = "record" => resumed
  /\ stage \in {"resume", "refer"} \/ (resumed /\ stage \in Working) => pending = current

\* A run that is still running is neither referred to nor shown nor resumed.
RunningIsNew ==
  \A r \in Run : row[r].status = "running" =>
    /\ ref.run # r
    /\ ~(card # None /\ pending = r)
    /\ ~(current = r /\ stage \in {"resume", "refer", "terminal"})
    /\ ~(current = r /\ resumed /\ stage \in Working)

\* The interrupt of a reference that is current stands for what is open in its run.
RefStands ==
  \A r \in Run : ref.run = r =>
    /\ ref.at \in Nat /\ ref.at <= graph[r].at /\ ref.shown.kind # "bare"
    /\ ref.at = graph[r].at /\ ref.shown # None =>
         OpenOf(graph[r]) = {} \/ Stands(r, graph[r], ref.shown)
    /\ current = r /\ stage = "tools" /\ ref.at = graph[r].at => AtMostOne(graph[r])
    /\ current = r /\ stage = "judged" => ref.at < graph[r].at

RepliesFit ==
  \A r \in Run : current = r =>
    /\ stage = "resume" => Stands(r, graph[r], reply)
    /\ stage \in {"judged", "tools"} => Due(r, graph[r], question[r], reply)

NoQuestion(q) == \A c \in Call : q[c] # "pending"
AtWorkOnTurn == {"loop", "calling", "judged", "record"}

\* What is on the terminal: nothing while the lead works on a turn, the interrupt of the
\* pending run while that waits, and without a pending run one that cannot be restored.
CardFits ==
  /\ card.kind # "bare"
  /\ card # None => \A r \in Run :
       /\ pending = NoRun /\ ref.run = r => row[r].attempt # "running"
       /\ pending = r /\ stage \notin AtWorkOnTurn \cup {"tools"} => Stands(r, graph[r], card)
       /\ current = r => stage \notin AtWorkOnTurn
       /\ current = r /\ stage = "resume" => card.kind = "question" \/ ~NoQuestion(question[r])
       /\ current = r /\ stage = "tools" => Held(graph[r], card)

AInv ==
  /\ AnswerTyped /\ Places /\ Turns /\ CallsRest /\ FirstExecution /\ Resumption
  /\ RunningIsNew /\ RefStands /\ RepliesFit /\ CardFits /\ AnswersFitTheirQuestion

\* A finite set of numbers that is not empty has a largest element.
LEMMA LargestExists ==
  ASSUME NEW N \in Nat, NEW S, S \subseteq 1..N, S # {}
  PROVE  Max(S) \in S /\ \A s \in S : Max(S) >= s
<1> DEFINE Above == {n \in Nat : \A s \in S : s <= n}
<1>1. N \in Above
  OBVIOUS
<1>2. PICK n \in Above : \A k \in Above : <<k, n>> \notin OpToRel(<, Nat)
  BY <1>1, WFMin, NatLessThanWellFounded, Zenon
<1>3. \A k \in Above : ~(k < n)
  BY <1>2 DEF OpToRel
<1>4. n \in S
  <2> SUFFICES ASSUME n \notin S PROVE FALSE
    OBVIOUS
  <2> PICK t \in S : TRUE
    OBVIOUS
  <2>1. \A s \in S : s \in Nat /\ s <= n /\ s # n
    OBVIOUS
  <2>2. n # 0
    BY <2>1
  <2>3. n - 1 \in Above
    BY <2>1, <2>2
  <2> QED BY <1>3, <2>3
<1>5. \E x \in S : \A y \in S : x >= y
  BY <1>4
<1> QED BY <1>5 DEF Max

\* Of the calls of a response only one is chosen, if only one is counted.
LEMMA CountedOnce ==
  ASSUME NEW resp \in Responses, NEW W, W \subseteq DOMAIN resp, Cardinality(W) <= 1
  PROVE  \A i, j \in W : i = j
<1>1. IsFiniteSet(DOMAIN resp)
  <2>1. DOMAIN resp = 1..Len(resp) /\ Len(resp) \in Nat
    BY LeadAssumption
  <2> QED BY <2>1, FS_Interval
<1>2. IsFiniteSet(W) /\ Cardinality(W) \in Nat
  BY <1>1, FS_Subset, FS_CardinalityType
<1>3. Cardinality(W) = 0 \/ Cardinality(W) = 1
  BY <1>2
<1> QED BY <1>2, <1>3, FS_EmptySet, FS_Singleton

\* The graph as another process or another step finds it, with the same calls open.
SameOpen(g, h) ==
  /\ h.turn = g.turn /\ h.resp = g.resp /\ h.at = g.at /\ h.final = g.final
  /\ DOMAIN h.state = DOMAIN g.state /\ OpenOf(h) = OpenOf(g)

LEMMA StandsFor ==
  ASSUME NEW g, NEW h, SameOpen(g, h), NEW r, NEW x
  PROVE  /\ Stands(r, g, x) => Stands(r, h, x)
         /\ AtMostOne(g) => AtMostOne(h)
BY DEF SameOpen, Stands, Matches, AtMostOne

LEMMA NothingAsked ==
  ASSUME NEW g, NEW q, Placed(g, q), OpenOf(g) = {}
  PROVE  NoQuestion(q)
BY DEF Placed, NoQuestion

LEMMA NothingOpen ==
  ASSUME NEW g, DOMAIN g.state = {}
  PROVE  OpenOf(g) = {} /\ Rests(g) /\ AtMostOne(g)
BY DEF OpenOf, Rests, AtMostOne

\* The interrupt that is shown for calls that all wait.
LEMMA FirstStands ==
  ASSUME AnswerTyped, NEW r \in Run, Rests(graph[r]), OpenOf(graph[r]) # {}
  PROVE  /\ Stands(r, graph[r], FirstInterrupt(r))
         /\ FirstInterrupt(r).kind \in {"question", "approval"}
         /\ FirstInterrupt(r) # None
<1>1. Waiting(r) = OpenOf(graph[r])
  BY DEF Waiting, OpenOf, Rests
<1>2. ASSUME NEW i, OpenOf(graph[r]) = {i} PROVE Min(Waiting(r)) = i
  <2>1. i \in DOMAIN graph[r].resp
    BY <1>2 DEF OpenOf, AnswerTyped
  <2>2. i \in Nat
    BY <2>1, LeadAssumption DEF AnswerTyped
  <2> QED BY <1>1, <1>2, <2>2 DEF Min
<1>3. ASSUME NEW i \in OpenOf(graph[r]), OpenOf(graph[r]) = {i}
      PROVE  Matches(r, graph[r], i, FirstInterrupt(r))
  BY <1>2, <1>3 DEF FirstInterrupt, Matches, KindAt, CallAt
<1> QED BY <1>3 DEF FirstInterrupt, Stands, None

\* What is said of the calls stays when no call, question or answer changes.
LEMMA CallsStay ==
  ASSUME AInv, UNCHANGED <<graph, question, heard>>
  PROVE  AnswerTyped' /\ Places' /\ AnswersFitTheirQuestion'
BY DEF AInv, AnswerTyped, GraphShape, Places, AnswersFitTheirQuestion

\* The loop of the lead goes from one stage to the next.
LEMMA LoopMoves ==
  ASSUME AInv, SameRows, UNCHANGED <<graph, question, heard, card, pending, ref, reply, current,
                                     resumed, shown, session>>,
         \/ stage = "loop" /\ stage' = "calling"
         \/ /\ stage = "judged"
            /\ \/ stage' = "tools"
               \/ /\ \A r \in Run : current = r => graph[r].final
                  /\ stage' = IF resumed THEN "record" ELSE "pump"
         \/ /\ stage = "tools" /\ stage' = IF resumed THEN "record" ELSE "park"
            /\ \A r \in Run : current = r => Rests(graph[r]) /\ OpenOf(graph[r]) # {}
         \/ stage = "pump" /\ stage' = "close"
  PROVE  AInv'
<1>1. AnswerTyped' /\ Places' /\ AnswersFitTheirQuestion'
  BY CallsStay
<1>2. Turns'
  BY DEF AInv, Turns, SameRows
<1>3. CallsRest'
  BY NothingOpen DEF AInv, CallsRest, SameRows, Turns
<1>4. FirstExecution'
  BY DEF AInv, FirstExecution, Working
<1>5. RunningIsNew' /\ Resumption'
  BY DEF AInv, RunningIsNew, Resumption, SameRows, Working
<1>6. RefStands'
  BY DEF AInv, RefStands
<1>7. RepliesFit'
  BY DEF AInv, RepliesFit
<1>8. CardFits'
  <2>1. ASSUME NEW r \in Run, current = r, Rests(graph[r]) PROVE ~Held(graph[r], card)
    BY <2>1 DEF Rests, Held
  <2> QED BY <2>1 DEF AInv, CardFits, SameRows, AtWorkOnTurn, FirstExecution, Working
<1> QED BY <1>1, <1>2, <1>3, <1>4, <1>5, <1>6, <1>7, <1>8 DEF AInv

\* The run that is resumed ends, or one that is not worked on; nothing waits any more.
LEMMA AnswerEndsAside ==
  ASSUME AInv, LInv, NEW q, NEW status, NEW attempt, ChangesRow(q, status, attempt),
         status \notin {"none", "running"}, attempt # "running",
         AnswerTyped' /\ Places' /\ AnswersFitTheirQuestion', UNCHANGED <<graph, ref>>,
         current \in {NoRun, q},
         stage # "refer", stage' = "idle", current' = NoRun, pending' = NoRun,
         card' = None \/ (card' = card /\ pending \in {NoRun, q})
  PROVE  AInv'
<1>1. Turns' /\ CallsRest'
  BY NoRunIsNone DEF AInv, Turns, CallsRest, ChangesRow
<1>2. FirstExecution' /\ Resumption'
  BY NoRunIsNone DEF FirstExecution, Resumption, Working
<1>3. RunningIsNew'
  BY NoRunIsNone DEF AInv, RunningIsNew, ChangesRow
<1>4. RefStands' /\ RepliesFit'
  BY NoRunIsNone DEF AInv, RefStands, RepliesFit
<1>5. CardFits'
  <2>1. card'.kind # "bare"
    BY DEF AInv, CardFits, None
  <2>2. ASSUME card' # None, NEW r \in Run, ref.run = r PROVE row'[r].attempt # "running"
    BY <2>2, NoRunIsNone DEF AInv, CardFits, LInv, RefOfPending, ChangesRow
  <2> QED BY <2>1, <2>2, NoRunIsNone DEF CardFits
<1> QED BY <1>1, <1>2, <1>3, <1>4, <1>5 DEF AInv

\* The run of a first execution ends, and has its reference still to save.
LEMMA AnswerEndsFirst ==
  ASSUME AInv, LInv, NEW status, NEW attempt, ChangesRow(current, status, attempt),
         status \notin {"none", "running"}, attempt # "running",
         UNCHANGED <<graph, question, heard, ref, current, pending, resumed>>,
         ~resumed, stage' = "terminal", card' = None
  PROVE  AInv'
<1>1. AnswerTyped' /\ Places' /\ AnswersFitTheirQuestion'
  BY CallsStay
<1>2. Turns' /\ CallsRest'
  BY DEF AInv, Turns, CallsRest, ChangesRow
<1>3. FirstExecution' /\ Resumption'
  BY DEF FirstExecution, Resumption, Working
<1>4. RunningIsNew'
  BY DEF AInv, RunningIsNew, ChangesRow
<1>5. RefStands' /\ RepliesFit' /\ CardFits'
  BY DEF AInv, RefStands, RepliesFit, CardFits, None
<1> QED BY <1>1, <1>2, <1>3, <1>4, <1>5 DEF AInv

\* The controller comes to rest, and the rows, the reference and the card stay.
LEMMA AnswerRests ==
  ASSUME AInv, LInv, row' = row, UNCHANGED <<graph, ref, card, pending>>,
         AnswerTyped' /\ Places' /\ AnswersFitTheirQuestion',
         stage \in {"resume", "record", "pump", "idle", "down", "recovered"},
         stage = "pump" => resumed,
         stage' = "idle", current' = NoRun
  PROVE  AInv'
<1>1. Turns' /\ CallsRest'
  BY NoRunIsNone DEF AInv, Turns, CallsRest
<1>2. FirstExecution' /\ Resumption'
  BY NoRunIsNone DEF FirstExecution, Resumption, Working
<1>3. RunningIsNew'
  BY NoRunIsNone DEF AInv, RunningIsNew
<1>4. RefStands' /\ RepliesFit'
  BY NoRunIsNone DEF AInv, RefStands, RepliesFit
<1>5. CardFits'
  BY NoRunIsNone DEF AInv, CardFits, Resumption, Working, AtWorkOnTurn
<1> QED BY <1>1, <1>2, <1>3, <1>4, <1>5 DEF AInv

LEMMA AnswerLeaves ==
  ASSUME AInv, LInv, NEW status, NEW attempt, ChangesRow(current, status, attempt),
         status \notin {"none", "running"}, attempt # "running",
         UNCHANGED <<graph, question, heard, ref, resumed>>,
         stage \in Working, Leave, card' = card \/ card' = None
  PROVE  AInv'
<1>1. CASE resumed
  <2>1. pending = current /\ stage # "refer"
    BY <1>1 DEF AInv, Resumption, Working
  <2>2. stage' = "idle" /\ current' = NoRun /\ pending' = NoRun
    BY <1>1 DEF Leave, Forgotten
  <2> QED BY <2>1, <2>2, CallsStay, AnswerEndsAside
<1>2. CASE ~resumed
  <2>1. card = None
    BY <1>2 DEF AInv, FirstExecution
  <2>2. stage' = "terminal" /\ UNCHANGED <<current, pending>>
    BY <1>2 DEF Leave
  <2> QED BY <1>2, <2>1, <2>2, AnswerEndsFirst
<1> QED BY <1>1, <1>2

LEMMA AnswerEnding ==
  ASSUME AInv, LInv, NEW i, NEW waits, CallFails \/ RepeatedCall(i) \/ Cancel \/ Close(waits)
  PROVE  AInv'
<1>1. /\ stage \in Working /\ Leave /\ UNCHANGED <<graph, question, heard, ref, resumed>>
      /\ card' = card \/ card' = None
      /\ \E status, attempt : /\ Ended(current, status, attempt)
                              /\ status \notin {"none", "running"} /\ attempt # "running"
  BY DEF CallFails, RepeatedCall, Cancel, Close, GateBlocked, Fails, Shows, AtCall, Working, saved,
         stores, ghosts
<1> QED BY <1>1, EndedChanges, AnswerLeaves

\* The steps that leave nothing to wait for.
LEMMA AnswerBlocked ==
  ASSUME AInv, LInv, PumpBlocked \/ ResumeAmbiguous
  PROVE  AInv'
<1>1. /\ stage \in {"pump", "resume"} /\ stage' = "idle" /\ current' = NoRun /\ pending' = NoRun
      /\ UNCHANGED <<graph, question, heard, ref>>
      /\ card' = card \/ card' = None
      /\ \E status, attempt : /\ Ended(current, status, attempt)
                              /\ status \notin {"none", "running"} /\ attempt # "running"
  BY DEF PumpBlocked, ResumeAmbiguous, Forgotten, Shows, saved, stores, ghosts
<1>2. pending \in {NoRun, current}
  BY <1>1 DEF AInv, Resumption, LInv, OneRun, Working
<1> QED BY <1>1, <1>2, CallsStay, EndedChanges, AnswerEndsAside

LEMMA AnswerReject == ASSUME AInv, LInv, Reject PROVE AInv'
<1>1. /\ stage = "idle" /\ current = NoRun /\ UNCHANGED <<graph, heard, ref, stage, current>>
  BY DEF Reject, saved, ghosts, LInv, OneRun
<1>2. AnswerTyped' /\ Places' /\ AnswersFitTheirQuestion'
  <2>1. \/ question' = question
        \/ question' = [question EXCEPT ![card.run][card.call] = "cancelled"]
    BY DEF Reject
  <2>2. AnswerTyped'
    BY <1>1, <2>1 DEF AInv, AnswerTyped, GraphShape
  <2>3. \A r \in Run : \A c \in Call : question'[r][c] \in {question[r][c], "cancelled"}
    BY <2>1 DEF AInv, AnswerTyped
  <2> QED BY <1>1, <2>2, <2>3 DEF AInv, Places, Placed, AnswersFitTheirQuestion
<1>3. CASE pending # NoRun
  <2>1. /\ Ended(pending, "blocked", "blocked") /\ card' = None /\ pending' = NoRun
    BY <1>3 DEF Reject, Forgotten
  <2> QED BY <1>1, <1>2, <2>1, EndedChanges, AnswerEndsAside
<1>4. CASE pending = NoRun
  <2>1. UNCHANGED <<row, card, pending>>
    BY <1>4 DEF Reject, rows, wait
  <2> QED BY <1>1, <1>2, <2>1, AnswerRests
<1> QED BY <1>3, <1>4

LEMMA AnswerPumpRaises ==
  ASSUME AInv, LInv, NEW status \in {"failed", "cancelled"}, PumpRaises(status)
  PROVE  AInv'
<1>1. /\ stage = "pump" /\ stage' = "idle" /\ current' = NoRun
      /\ UNCHANGED <<graph, question, heard, ref, card, pending>>
  BY DEF PumpRaises, saved, stores, ghosts, wait
<1>2. CASE resumed
  BY <1>1, <1>2, CallsStay, AnswerRests DEF PumpRaises, rows
<1>3. CASE ~resumed
  <2>1. pending = NoRun
    BY <1>1, <1>3 DEF LInv, OneRun, Working
  <2>2. PICK attempt \in {"interrupted", "failed"} : ChangesRow(current, status, attempt)
    BY <1>3, EndedChanges DEF PumpRaises
  <2> QED BY <1>1, <2>1, <2>2, CallsStay, AnswerEndsAside
<1> QED BY <1>2, <1>3

LEMMA AnswerUnassigned ==
  ASSUME AInv, LInv, NEW r \in Run, NEW status \in {"blocked", "failed"}, Unassigned(r, status)
  PROVE  AInv'
<1>1. /\ stage = "idle" /\ stage' = "idle" /\ current = NoRun /\ current' = NoRun
      /\ pending = NoRun /\ pending' = NoRun
      /\ UNCHANGED <<graph, question, heard, ref, card>>
      /\ Ended(r, status, status)
  BY DEF Unassigned, Accepts, saved, stores, ghosts, wait, LInv, OneRun
<1> QED BY <1>1, CallsStay, EndedChanges, AnswerEndsAside

LEMMA AnswerComesToRest ==
  ASSUME AInv, LInv, ResumeRaises \/ Reopen \/ NothingToRestore
  PROVE  AInv'
<1>1. /\ stage \in {"resume", "record", "down", "recovered"} /\ stage' = "idle"
      /\ current' = NoRun
      /\ UNCHANGED <<row, graph, question, heard, ref, card, pending>>
  BY DEF ResumeRaises, Raises, Prepared, Reopen, NothingToRestore, rows, saved, stores, ghosts,
         wait, LInv, OneRun
<1> QED BY <1>1, CallsStay, AnswerRests DEF AInv, Resumption

\* A call of the response goes on, from state from to state to.
CallGoes(i, to) ==
  /\ stage = "tools" /\ i \in OpenOf(graph[current]) /\ Advance(i, to)
  /\ to \in {"done", "waiting", "granted", "ran", "told"}
  /\ UNCHANGED <<stage, current, resumed, ref, pending, reply, shown, session>>

\* What happens with its question, and with the card.
QuestionGoes(i, to) ==
  /\ question' \in [Run -> [Call -> {"none", "pending", "answered", "cancelled"}]]
  /\ DOMAIN heard' = Run /\ \A r \in Run : DOMAIN heard'[r] = Call
  /\ \A r \in Run : \A c \in Call :
       IF r = current /\ c = <<graph[r].turn, i>>
       THEN /\ question'[r][c] = "pending" => graph[r].resp[i] = "ask" /\ to = "waiting"
            /\ question'[r][c] = "answered" =>
                 \/ question[r][c] = "answered" /\ heard'[r][c] = heard[r][c]
                 \/ /\ heard'[r][c].kind \in {"question", "bare"}
                    /\ heard'[r][c].run = r /\ heard'[r][c].call = c
       ELSE question'[r][c] = question[r][c] /\ heard'[r][c] = heard[r][c]
  /\ \/ card' = None
     \/ /\ card' = card
        /\ \/ to = "told" \/ graph[current].state[i] \notin {"woken", "told"}
           \/ graph[current].resp[i] # "ask"
           \/ card.kind # "question" \/ card.call # <<graph[current].turn, i>>

LEMMA AnswerGoes ==
  ASSUME AInv, LInv, SameRows, NEW i, NEW to, CallGoes(i, to), QuestionGoes(i, to)
  PROVE  AInv'
<1>1. /\ DOMAIN graph' = Run
      /\ \A r \in Run : r # current => graph'[r] = graph[r]
      /\ \A r \in Run : r = current =>
           graph'[r] = [graph[r] EXCEPT !.state = [graph[r].state EXCEPT ![i] = to]]
  BY DEF CallGoes, Advance, AInv, AnswerTyped, GraphShape
<1>2. \A r \in Run : /\ DOMAIN graph'[r] = DOMAIN graph[r]
                     /\ graph'[r].turn = graph[r].turn /\ graph'[r].resp = graph[r].resp
                     /\ graph'[r].at = graph[r].at /\ graph'[r].final = graph[r].final
                     /\ DOMAIN graph'[r].state = DOMAIN graph[r].state
                     /\ \A j \in DOMAIN graph[r].state :
                          graph'[r].state[j] = IF r = current /\ j = i THEN to
                                               ELSE graph[r].state[j]
  BY <1>1 DEF AInv, AnswerTyped, GraphShape
<1>3. \A r \in Run : OpenOf(graph'[r]) \subseteq OpenOf(graph[r])
  BY <1>2 DEF CallGoes, OpenOf
<1>4. AnswerTyped'
  BY <1>1, <1>2 DEF AInv, AnswerTyped, GraphShape, QuestionGoes
<1>5. Places'
  <2> SUFFICES ASSUME NEW r \in Run, NEW c \in Call, question'[r][c] = "pending"
               PROVE  \E j \in OpenOf(graph'[r]) :
                        /\ c = <<graph'[r].turn, j>> /\ graph'[r].resp[j] = "ask"
                        /\ graph'[r].state[j] \in {"waiting", "woken"}
    BY DEF Places, Placed
  <2>1. CASE r = current /\ c = <<graph[r].turn, i>>
    BY <1>2, <2>1 DEF QuestionGoes, CallGoes, OpenOf
  <2>2. CASE ~(r = current /\ c = <<graph[r].turn, i>>)
    <3>1. question[r][c] = "pending"
      BY <2>2 DEF QuestionGoes
    <3>2. PICK j \in OpenOf(graph[r]) :
                 /\ c = <<graph[r].turn, j>> /\ graph[r].resp[j] = "ask"
                 /\ graph[r].state[j] \in {"waiting", "woken"}
      BY <3>1 DEF AInv, Places, Placed
    <3> QED BY <1>2, <2>2, <3>2 DEF OpenOf
  <2> QED BY <2>1, <2>2
<1>6. AnswersFitTheirQuestion'
  BY DEF AInv, AnswersFitTheirQuestion, QuestionGoes
<1>7. Turns' /\ CallsRest'
  BY <1>1, <1>2 DEF AInv, Turns, CallsRest, SameRows, CallGoes
<1>8. FirstExecution' /\ Resumption' /\ RunningIsNew'
  BY <1>1, <1>2 DEF AInv, FirstExecution, Resumption, RunningIsNew, SameRows, CallGoes, QuestionGoes
<1>9. RefStands'
  <2> SUFFICES ASSUME NEW r \in Run, ref.run = r
               PROVE  /\ ref.at \in Nat /\ ref.at <= graph'[r].at /\ ref.shown.kind # "bare"
                      /\ ref.at = graph'[r].at /\ ref.shown # None =>
                           OpenOf(graph'[r]) = {} \/ Stands(r, graph'[r], ref.shown)
                      /\ current = r /\ ref.at = graph'[r].at => AtMostOne(graph'[r])
    BY DEF RefStands, CallGoes
  <2>1. /\ ref.at \in Nat /\ ref.at <= graph[r].at /\ ref.shown.kind # "bare"
        /\ ref.at = graph[r].at /\ ref.shown # None =>
             OpenOf(graph[r]) = {} \/ Stands(r, graph[r], ref.shown)
        /\ current = r /\ ref.at = graph[r].at => AtMostOne(graph[r])
    BY DEF AInv, RefStands, CallGoes
  <2>2. CASE current # r
    BY <1>1, <2>1, <2>2
  <2>3. CASE current = r /\ ref.at = graph[r].at
    <3>1. AtMostOne(graph[r])
      BY <2>1, <2>3
    <3>2. AtMostOne(graph'[r])
      BY <1>3, <3>1 DEF AtMostOne
    <3>3. OpenOf(graph'[r]) = {} \/ OpenOf(graph'[r]) = OpenOf(graph[r])
      BY <1>3, <3>1 DEF AtMostOne
    <3>4. CASE OpenOf(graph'[r]) = OpenOf(graph[r])
      BY <1>2, <2>1, <2>3, <3>2, <3>4, StandsFor DEF SameOpen
    <3> QED BY <1>2, <2>1, <3>2, <3>3, <3>4
  <2>4. CASE ref.at # graph[r].at
    BY <1>2, <2>1, <2>4
  <2> QED BY <2>2, <2>3, <2>4
<1>10. RepliesFit'
  <2> SUFFICES ASSUME NEW r \in Run, current = r
               PROVE  Due(r, graph'[r], question'[r], reply)
    BY DEF RepliesFit, CallGoes
  <2>1. Due(r, graph[r], question[r], reply)
    BY DEF AInv, RepliesFit, CallGoes
  <2> SUFFICES ASSUME NEW j \in OpenOf(graph'[r]), NEW c \in Call, graph'[r].state[j] = "woken",
                      c = <<graph'[r].turn, j>>, question'[r][c] = "pending"
               PROVE  Matches(r, graph'[r], j, reply)
    BY DEF Due
  <2>2. j \in OpenOf(graph[r]) /\ graph[r].state[j] = "woken" /\ j # i
    BY <1>2, <1>3 DEF CallGoes, OpenOf
  <2>3. c = <<graph[r].turn, j>> /\ question[r][c] = "pending"
    BY <1>2, <2>2 DEF QuestionGoes
  <2>4. Matches(r, graph[r], j, reply)
    BY <2>1, <2>2, <2>3 DEF Due
  <2> QED BY <1>2, <2>4 DEF Matches
<1>11. CardFits'
  <2>1. stage = "tools" /\ stage' = "tools" /\ UNCHANGED <<current, pending, ref>>
    BY DEF CallGoes
  <2>2. ASSUME card' # None, NEW r \in Run, current = r PROVE Held(graph'[r], card')
    <3>1. card' = card /\ Held(graph[r], card)
      BY <2>1, <2>2 DEF QuestionGoes, AInv, CardFits
    <3>2. PICK j \in OpenOf(graph[r]) : /\ card.call = <<graph[r].turn, j>>
                                        /\ graph[r].resp[j] = "ask"
                                        /\ graph[r].state[j] \in {"woken", "told"}
      BY <3>1 DEF Held
    <3>3. j = i => to = "told"
      BY <2>2, <3>1, <3>2 DEF QuestionGoes, Held
    <3>4. graph'[r].state[j] \in {"woken", "told"} /\ j \in OpenOf(graph'[r])
      BY <1>2, <2>2, <3>2, <3>3 DEF OpenOf
    <3> QED BY <1>2, <3>1, <3>2, <3>4 DEF Held
  <2>3. card'.kind # "bare" /\ (card' # None => card # None)
    BY DEF QuestionGoes, AInv, CardFits, None
  <2> QED BY <2>1, <2>2, <2>3 DEF AInv, CardFits, SameRows, AtWorkOnTurn
<1> QED BY <1>4, <1>5, <1>6, <1>7, <1>8, <1>9, <1>10, <1>11 DEF AInv

\* A call whose question is pending asks, and waits or was woken.
LEMMA AskedCalls ==
  ASSUME AInv, NEW r \in Run, NEW i, NEW c \in Call, c = <<graph[r].turn, i>>,
         question[r][c] = "pending"
  PROVE  graph[r].resp[i] = "ask" /\ graph[r].state[i] \in {"waiting", "woken"}
BY DEF AInv, Places, Placed

\* A call goes on that has no question pending.
LEMMA QuietGoes ==
  ASSUME AInv, NEW i, NEW to, UNCHANGED <<question, heard>>,
         graph[current].state[i] \notin {"waiting", "woken"} \/ graph[current].resp[i] # "ask",
         \/ card' = None
         \/ /\ card' = card
            /\ \/ to = "told" \/ graph[current].state[i] \notin {"woken", "told"}
               \/ graph[current].resp[i] # "ask"
               \/ card.kind # "question" \/ card.call # <<graph[current].turn, i>>
  PROVE  QuestionGoes(i, to)
BY AskedCalls DEF QuestionGoes, AInv, AnswerTyped, AnswersFitTheirQuestion

LEMMA AnswerTools ==
  ASSUME AInv, LInv, NEW i, TooEarly(i) \/ Works(i) \/ RunCommand(i) \/ Finish(i) \/ Execute(i)
  PROVE  AInv'
<1>1. CASE TooEarly(i) \/ Works(i)
  <2>1. CallGoes(i, "done")
    BY <1>1 DEF TooEarly, Works, CallGoes, AtCall, OpenOf, wait, rows
  <2>2. QuestionGoes(i, "done")
    BY <1>1, QuietGoes DEF TooEarly, Works, AtCall, stores, wait, ghosts
  <2> QED BY <1>1, <2>1, <2>2, LoopRows, AnswerGoes
<1>2. CASE RunCommand(i)
  <2>1. CallGoes(i, "ran")
    BY <1>2 DEF RunCommand, CallGoes, AtCall, OpenOf, saved, wait, rows
  <2>2. QuestionGoes(i, "ran")
    BY <1>2, QuietGoes DEF RunCommand, AtCall, stores, wait, ghosts
  <2> QED BY <1>2, <2>1, <2>2, LoopRows, AnswerGoes
<1>3. CASE Finish(i)
  <2>1. CallGoes(i, "done")
    BY <1>3 DEF Finish, CallGoes, AtCall, OpenOf, wait, rows
  <2>2. QuestionGoes(i, "done")
    BY <1>3, QuietGoes DEF Finish, AtCall, CallAt, stores, ghosts
  <2> QED BY <1>3, <2>1, <2>2, LoopRows, AnswerGoes
<1>4. CASE Execute(i)
  <2>1. graph[current].resp[i] # "ask"
    BY <1>4 DEF Execute, Commands, KindAt
  <2>2. PICK to \in {"granted", "waiting", "done"} : Advance(i, to)
    BY <1>4 DEF Execute
  <2>3. CallGoes(i, to)
    BY <1>4, <2>2 DEF Execute, CallGoes, AtCall, OpenOf, wait, rows
  <2>4. QuestionGoes(i, to)
    BY <1>4, <2>1, QuietGoes DEF Execute, wait, ghosts
  <2> QED BY <1>4, <2>3, <2>4, LoopRows, AnswerGoes
<1> QED BY <1>1, <1>2, <1>3, <1>4

LEMMA AnswerRefused == ASSUME AInv, LInv, NEW i, Refused(i) PROVE AInv'
<1>1. /\ stage = "tools" /\ i \in OpenOf(graph[current]) /\ graph[current].state[i] = "todo"
      /\ UNCHANGED <<question, heard, ref, resumed>>
  BY DEF Refused, AtCall, OpenOf, stores, ghosts
<1>2. PICK bad : /\ bad = row \/ \E v : bad = [row EXCEPT ![current].bad = v]
                 /\ \/ /\ row' = [bad EXCEPT ![current].status = "failed",
                                             ![current].attempt = "failed"]
                       /\ Leave /\ UNCHANGED <<graph, card>>
                    \/ /\ row' = bad /\ Advance(i, "done")
                       /\ UNCHANGED <<session, stage, current, wait>>
  BY Zenon DEF Refused
<1>3. CASE /\ Leave /\ UNCHANGED <<graph, card>>
           /\ row' = [bad EXCEPT ![current].status = "failed", ![current].attempt = "failed"]
  <2>1. ChangesRow(current, "failed", "failed")
    BY <1>2, <1>3 DEF LInv, RunShape, ChangesRow
  <2> QED BY <1>1, <1>3, <2>1, AnswerLeaves DEF Working
<1>4. CASE row' = bad /\ Advance(i, "done") /\ UNCHANGED <<session, stage, current, wait>>
  <2>1. SameRows
    BY <1>2, <1>4 DEF LInv, RunShape, SameRows
  <2>2. CallGoes(i, "done") /\ QuestionGoes(i, "done")
    BY <1>1, <1>4, QuietGoes DEF CallGoes, wait
  <2> QED BY <2>1, <2>2, AnswerGoes
<1> QED BY <1>2, <1>3, <1>4

\* A question is asked, or told its answer.
LEMMA AnswerAsks == ASSUME AInv, LInv, NEW i, Ask(i) \/ Told(i) PROVE AInv'
<1>1. /\ stage = "tools" /\ i \in DOMAIN graph[current].state /\ graph[current].resp[i] = "ask"
      /\ i \in OpenOf(graph[current]) /\ SameRows /\ UNCHANGED wait
      /\ UNCHANGED <<stage, current, resumed, ref, session>>
  BY LoopRows DEF Ask, Told, AtCall, KindAt, OpenOf, rows
<1>2. CASE Ask(i)
  <2>1. CallGoes(i, "waiting")
    BY <1>1, <1>2 DEF Ask, CallGoes, wait
  <2>2. /\ question' = [question EXCEPT ![current][<<graph[current].turn, i>>] =
                          IF @ = "none" THEN "pending" ELSE @]
        /\ heard' = heard /\ graph[current].state[i] = "todo" /\ card' = card
    BY <1>2 DEF Ask, Stored, CallAt, AtCall, ghosts, wait
  <2>3. QuestionGoes(i, "waiting")
    BY <1>1, <2>2 DEF QuestionGoes, AInv, AnswerTyped
  <2> QED BY <1>1, <2>1, <2>3, AnswerGoes
<1>3. CASE Told(i)
  <2>1. CallGoes(i, "told")
    BY <1>1, <1>3 DEF Told, CallGoes, wait
  <2>2. /\ question' = [question EXCEPT ![current][<<graph[current].turn, i>>] = "answered"]
        /\ heard' = [heard EXCEPT ![current][<<graph[current].turn, i>>] = reply]
        /\ question[current][<<graph[current].turn, i>>] = "pending"
        /\ graph[current].state[i] = "woken" /\ card' = card
    BY <1>3 DEF Told, CallAt, AtCall, wait
  <2>3. ASSUME NEW r \in Run, r = current, NEW c \in Call, c = <<graph[r].turn, i>>
        PROVE  Matches(r, graph[r], i, reply)
    BY <1>1, <2>2, <2>3 DEF AInv, RepliesFit, Due
  <2>4. /\ question' \in [Run -> [Call -> {"none", "pending", "answered", "cancelled"}]]
        /\ DOMAIN heard' = Run /\ \A r \in Run : DOMAIN heard'[r] = Call
    BY <2>2 DEF AInv, AnswerTyped
  <2>5. ASSUME NEW r \in Run, NEW c \in Call
        PROVE  IF r = current /\ c = <<graph[r].turn, i>>
               THEN question'[r][c] = "answered" /\ heard'[r][c] = reply
               ELSE question'[r][c] = question[r][c] /\ heard'[r][c] = heard[r][c]
    BY <2>2 DEF AInv, AnswerTyped
  <2>6. ASSUME NEW r \in Run, NEW c \in Call, r = current, c = <<graph[r].turn, i>>
        PROVE  /\ heard'[r][c].kind \in {"question", "bare"}
               /\ heard'[r][c].run = r /\ heard'[r][c].call = c
    BY <1>1, <2>3, <2>5, <2>6 DEF Matches
  <2>7. QuestionGoes(i, "told")
    BY <2>2, <2>4, <2>5, <2>6 DEF QuestionGoes
  <2> QED BY <1>1, <2>1, <2>7, AnswerGoes
<1> QED BY <1>2, <1>3

LEMMA AnswerLoop ==
  ASSUME AInv, LInv, BeginCall \/ Persist \/ Interrupted \/ PumpEnds
  PROVE  AInv'
<1>1. /\ SameRows
      /\ UNCHANGED <<graph, question, heard, card, pending, ref, reply, current, resumed, shown,
                     session>>
  BY LoopRows DEF BeginCall, Persist, Interrupted, PumpEnds, saved, stores, wait, ghosts, rows
<1>2. Interrupted => \A r \in Run : current = r => Rests(graph[r]) /\ OpenOf(graph[r]) # {}
  BY DEF Interrupted, Settled, Waiting, Rests, OpenOf
<1>3. Persist => /\ stage = "judged"
                 /\ \/ stage' = "tools"
                    \/ /\ \A r \in Run : current = r => graph[r].final
                       /\ stage' = IF resumed THEN "record" ELSE "pump"
  BY DEF Persist
<1> QED BY <1>1, <1>2, <1>3, LoopMoves DEF BeginCall, Interrupted, PumpEnds

\* The graph of the run that is worked on changes, and of no other.
LEMMA TurnEnds == ASSUME AInv, LInv, NextTurn PROVE AInv'
<1>1. /\ stage = "tools" /\ stage' = "loop" /\ row' = row
      /\ UNCHANGED <<question, heard, card, pending, ref, reply, current, resumed, shown, session>>
  BY DEF NextTurn, rows, stores, wait, ghosts
<1>2. /\ DOMAIN graph' = Run
      /\ \A r \in Run : r # current => graph'[r] = graph[r]
      /\ \A r \in Run : r = current =>
           /\ DOMAIN graph'[r] = DOMAIN graph[r] /\ graph'[r].at = graph[r].at + 1
           /\ graph'[r].resp = <<>> /\ DOMAIN graph'[r].state = {}
           /\ OpenOf(graph[r]) = {}
  BY DEF NextTurn, Settled, Waiting, OpenOf, AInv, AnswerTyped, GraphShape
<1>3. AnswerTyped'
  <2>1. DOMAIN <<>> = {} /\ <<>> \in Responses
    BY LeadAssumption
  <2>2. GraphShape'
    BY <1>2 DEF AInv, AnswerTyped, GraphShape
  <2>3. ASSUME NEW r \in Run
        PROVE  /\ graph'[r].at \in Nat /\ graph'[r].resp \in Responses
               /\ DOMAIN graph'[r].state = DOMAIN graph'[r].resp
    <3>1. graph[r].at \in Nat /\ graph[r].resp \in Responses
          /\ DOMAIN graph[r].state = DOMAIN graph[r].resp
      BY DEF AInv, AnswerTyped
    <3>2. CASE r = current
      <4>1. /\ graph'[r].at = graph[r].at + 1 /\ graph'[r].resp = <<>>
            /\ DOMAIN graph'[r].state = {}
        BY <1>2, <3>2
      <4>2. DOMAIN graph'[r].resp = {}
        BY <2>1, <4>1, Zenon
      <4>3. graph'[r].resp \in Responses
        BY <2>1, <4>1, Zenon
      <4> QED BY <3>1, <4>1, <4>2, <4>3
    <3>3. CASE r # current
      BY <1>2, <3>1, <3>3
    <3> QED BY <3>2, <3>3
  <2> QED BY <1>1, <2>2, <2>3 DEF AInv, AnswerTyped
<1>4. Places'
  BY <1>1, <1>2, NothingAsked DEF AInv, Places, Placed, NoQuestion
<1>5. Turns' /\ CallsRest' /\ AnswersFitTheirQuestion'
  BY <1>1, <1>2, NothingOpen DEF AInv, Turns, CallsRest, AnswersFitTheirQuestion
<1>6. FirstExecution' /\ Resumption' /\ RunningIsNew'
  BY <1>1, <1>2 DEF AInv, FirstExecution, Resumption, RunningIsNew, Working
<1>7. RefStands'
  <2> SUFFICES ASSUME NEW r \in Run, ref.run = r
               PROVE  /\ ref.at \in Nat /\ ref.at <= graph'[r].at /\ ref.shown.kind # "bare"
                      /\ r = current => ref.at < graph'[r].at
                      /\ r # current => graph'[r] = graph[r]
    BY <1>1 DEF AInv, RefStands
  <2>1. ref.at \in Nat /\ ref.at <= graph[r].at /\ ref.shown.kind # "bare" /\ graph[r].at \in Nat
    BY DEF AInv, RefStands, AnswerTyped
  <2>2. CASE r = current
    BY <1>2, <2>1, <2>2
  <2>3. CASE r # current
    BY <1>2, <2>1, <2>3
  <2> QED BY <2>2, <2>3
<1>8. RepliesFit' /\ CardFits'
  BY <1>1, <1>2 DEF AInv, RepliesFit, CardFits, Held, AtWorkOnTurn
<1> QED BY <1>3, <1>4, <1>5, <1>6, <1>7, <1>8 DEF AInv

LEMMA TurnBegins == ASSUME AInv, LInv, NEW resp \in Responses, Respond(resp) PROVE AInv'
<1>1. /\ stage = "calling" /\ stage' = "judged" /\ row' = row
      /\ UNCHANGED <<question, heard, card, pending, ref, reply, current, resumed, shown, session>>
  BY DEF Respond, rows, stores, wait, ghosts
<1>2. /\ DOMAIN graph' = Run
      /\ \A r \in Run : r # current => graph'[r] = graph[r]
      /\ \A r \in Run : r = current =>
           /\ DOMAIN graph'[r] = DOMAIN graph[r] /\ graph'[r].at = graph[r].at + 1
           /\ graph'[r].resp = resp /\ DOMAIN graph'[r].state = DOMAIN resp
           /\ graph'[r].final = (resp = <<>>)
  BY DEF Respond, AInv, AnswerTyped, GraphShape
<1>3. AnswerTyped'
  BY <1>1, <1>2 DEF AInv, AnswerTyped, GraphShape
<1>4. \A r \in Run : r = current => NoQuestion(question[r]) /\ row[r].status # "none"
  <2>1. \A r \in Run : r = current => OpenOf(graph[r]) = {} /\ row[r].attempt = "running"
    BY <1>1, NothingOpen DEF AInv, Turns, LInv, AttemptsRun
  <2> QED BY <2>1, NothingAsked DEF AInv, Places, LInv, AttemptsRun
<1>5. Places'
  BY <1>1, <1>2, <1>4 DEF AInv, Places, Placed, NoQuestion
<1>6. Turns' /\ CallsRest' /\ AnswersFitTheirQuestion'
  <2>1. DOMAIN <<>> = {}
    OBVIOUS
  <2> QED BY <1>1, <1>2, <1>4, <2>1 DEF AInv, Turns, CallsRest, AnswersFitTheirQuestion
<1>7. FirstExecution' /\ Resumption' /\ RunningIsNew'
  BY <1>1, <1>2 DEF AInv, FirstExecution, Resumption, RunningIsNew, Working
<1>8. RefStands'
  <2> SUFFICES ASSUME NEW r \in Run, ref.run = r
               PROVE  /\ ref.at \in Nat /\ ref.at <= graph'[r].at /\ ref.shown.kind # "bare"
                      /\ r = current => ref.at < graph'[r].at
                      /\ r # current => graph'[r] = graph[r]
    BY <1>1 DEF AInv, RefStands
  <2>1. ref.at \in Nat /\ ref.at <= graph[r].at /\ ref.shown.kind # "bare" /\ graph[r].at \in Nat
    BY DEF AInv, RefStands, AnswerTyped
  <2>2. CASE r = current
    BY <1>2, <2>1, <2>2
  <2>3. CASE r # current
    BY <1>2, <2>1, <2>3
  <2> QED BY <2>2, <2>3
<1>9. RepliesFit' /\ CardFits'
  BY <1>1, <1>2, <1>4 DEF AInv, RepliesFit, CardFits, NoQuestion, Due, AtWorkOnTurn
<1> QED BY <1>3, <1>5, <1>6, <1>7, <1>8, <1>9 DEF AInv

LEMMA AnswerInstruct ==
  ASSUME AInv, LInv, NEW r \in Run, NEW said, NEW given, Instruct(r, said, given)
  PROVE  AInv'
<1>1. /\ stage = "idle" /\ pending = NoRun /\ card = None /\ row[r].status = "none"
      /\ stage' = "loop" /\ current' = r /\ resumed' = FALSE
      /\ UNCHANGED <<question, heard, card, pending, ref, session>>
      /\ ref.run # r /\ DOMAIN graph[r].state = {}
  BY DEF Instruct, Accepts, Invoke, stores, ghosts, LInv, AttemptsRun, AInv, Turns
<1>2. ChangesRow(r, "running", "running")
  BY DEF Instruct, Started, LInv, RunShape, ChangesRow
<1>3. /\ DOMAIN graph' = Run
      /\ \A q \in Run : q # r => graph'[q] = graph[q]
      /\ DOMAIN graph'[r] = DOMAIN graph[r] /\ graph'[r].at \in Nat
      /\ graph'[r].resp = graph[r].resp /\ graph'[r].state = graph[r].state
  BY DEF Instruct, Invoke, AInv, AnswerTyped, GraphShape
<1>4. AnswerTyped'
  BY <1>1, <1>3 DEF AInv, AnswerTyped, GraphShape
<1>5. Places'
  BY <1>1, <1>3, NothingOpen, NothingAsked DEF AInv, Places, Placed, NoQuestion
<1>6. Turns' /\ CallsRest' /\ AnswersFitTheirQuestion'
  BY <1>1, <1>2, <1>3, NothingOpen DEF AInv, Turns, CallsRest, AnswersFitTheirQuestion, ChangesRow
<1>7. FirstExecution' /\ Resumption' /\ RunningIsNew'
  BY <1>1, <1>2 DEF AInv, FirstExecution, Resumption, RunningIsNew, ChangesRow
<1>8. RefStands' /\ RepliesFit' /\ CardFits'
  BY <1>1, <1>3 DEF AInv, RefStands, RepliesFit, CardFits
<1> QED BY <1>4, <1>5, <1>6, <1>7, <1>8 DEF AInv

\* Of a run whose lead is at work no call is open but those of its tools.
LEMMA AtRest ==
  ASSUME AInv, LInv, NEW r \in Run, current = r, stage \notin {"judged", "tools", "terminal"}
  PROVE  Rests(graph[r])
BY DEF AInv, CallsRest, LInv, AttemptsRun

LEMMA AnswerPark == ASSUME AInv, LInv, Park PROVE AInv'
<1>1. /\ stage = "park" /\ stage' = "refer" /\ pending' = current
      /\ shown' = FirstInterrupt(current) /\ ~resumed /\ card = None
      /\ UNCHANGED <<graph, question, heard, ref, current, resumed, card>>
      /\ row' = [row EXCEPT ![current].status = "blocked", ![current].attempt = "running"]
  BY DEF Park, saved, stores, ghosts, LInv, OneRun, AInv, FirstExecution, Working
<1>2. ChangesRow(current, "blocked", "running")
  BY <1>1 DEF LInv, RunShape, ChangesRow
<1>3. AnswerTyped' /\ Places' /\ AnswersFitTheirQuestion'
  BY <1>1, CallsStay
<1>4. Turns' /\ CallsRest'
  BY <1>1, <1>2, AtRest DEF AInv, Turns, CallsRest, ChangesRow
<1>5. FirstExecution'
  <2>1. ASSUME NEW r \in Run, current = r PROVE Stands(r, graph[r], FirstInterrupt(r))
    BY <1>1, <2>1, AtRest, FirstStands DEF AInv, FirstExecution
  <2>2. FirstInterrupt(current).kind # "bare"
    BY DEF FirstInterrupt
  <2> QED BY <1>1, <2>1, <2>2 DEF FirstExecution
<1>6. Resumption' /\ RunningIsNew'
  BY <1>1, <1>2 DEF AInv, Resumption, RunningIsNew, ChangesRow
<1>7. RefStands' /\ RepliesFit' /\ CardFits'
  BY <1>1 DEF AInv, RefStands, RepliesFit, CardFits
<1> QED BY <1>3, <1>4, <1>5, <1>6, <1>7 DEF AInv

LEMMA AnswerPumpWaits == ASSUME AInv, LInv, PumpWaits PROVE AInv'
<1>1. /\ stage = "pump" /\ stage' = "refer" /\ pending' = current
      /\ shown'.kind = "tool" /\ ~resumed /\ card = None
      /\ UNCHANGED <<graph, question, heard, ref, current, resumed, card>>
      /\ row' = [row EXCEPT ![current].status = "blocked"]
  BY DEF PumpWaits, saved, stores, ghosts, AInv, FirstExecution, Working
<1>2. /\ \A r \in Run : /\ row'[r].attempt = row[r].attempt
                        /\ row'[r].status = IF r = current THEN "blocked" ELSE row[r].status
  BY <1>1 DEF LInv, RunShape
<1>3. AnswerTyped' /\ Places' /\ AnswersFitTheirQuestion'
  BY <1>1, CallsStay
<1>4. Turns' /\ CallsRest'
  BY <1>1, <1>2 DEF AInv, Turns, CallsRest
<1>5. FirstExecution'
  <2>1. ASSUME NEW r \in Run, current = r PROVE OpenOf(graph[r]) = {}
    BY <1>1, <2>1, NothingOpen DEF AInv, Turns
  <2> QED BY <1>1, <2>1 DEF FirstExecution, Stands
<1>6. Resumption' /\ RunningIsNew'
  BY <1>1, <1>2 DEF AInv, Resumption, RunningIsNew
<1>7. RefStands' /\ RepliesFit' /\ CardFits'
  BY <1>1 DEF AInv, RefStands, RepliesFit, CardFits
<1> QED BY <1>3, <1>4, <1>5, <1>6, <1>7 DEF AInv

LEMMA AnswerRefer == ASSUME AInv, LInv, Refer PROVE AInv'
<1>1. /\ stage \in {"refer", "terminal"} /\ stage' = "idle" /\ current' = NoRun
      /\ ref'.run = current /\ ref'.at = graph[current].at
      /\ ref'.shown = IF stage = "refer" THEN shown ELSE None
      /\ card' = IF stage = "refer" THEN shown ELSE card
      /\ UNCHANGED <<row, graph, question, heard, pending, resumed>>
  BY DEF Refer, rows, stores, ghosts
<1>2. stage = "terminal" => card = None
  BY DEF LInv, OneRun, AInv, FirstExecution, Working
<1>3. AnswerTyped' /\ Places' /\ AnswersFitTheirQuestion'
  BY <1>1, CallsStay
<1>4. Turns' /\ CallsRest'
  BY <1>1, NoRunIsNone DEF AInv, Turns, CallsRest
<1>5. FirstExecution' /\ Resumption'
  BY <1>1, NoRunIsNone DEF FirstExecution, Resumption, Working
<1>6. RunningIsNew'
  BY <1>1, <1>2, NoRunIsNone DEF AInv, RunningIsNew, Resumption
<1>7. RefStands' /\ RepliesFit'
  BY <1>1, NoRunIsNone DEF AInv, AnswerTyped, FirstExecution, RefStands, RepliesFit, None
<1>8. CardFits'
  <2>1. CASE stage = "terminal"
    BY <1>1, <1>2, <2>1 DEF CardFits, None
  <2>2. CASE stage = "refer"
    <3>1. card' = shown /\ pending' = current
      BY <1>1, <2>2 DEF AInv, Resumption
    <3>2. CASE current \in Run
      BY <1>1, <2>2, <3>1, <3>2, NoRunIsNone DEF AInv, FirstExecution, CardFits
    <3>3. CASE current \notin Run
      BY <1>1, <2>2, <3>1, <3>3, NoRunIsNone DEF AInv, FirstExecution, CardFits
    <3> QED BY <3>2, <3>3
  <2> QED BY <1>1, <2>1, <2>2
<1> QED BY <1>3, <1>4, <1>5, <1>6, <1>7, <1>8 DEF AInv

LEMMA AnswerRecord == ASSUME AInv, LInv, Record PROVE AInv'
<1>1. /\ stage = "record" /\ resumed /\ pending = current
      /\ ref'.run = current /\ ref'.at = graph[current].at /\ ref'.shown = None
      /\ UNCHANGED <<row, graph, question, heard, pending, resumed>>
      /\ \/ stage' = "pump" /\ UNCHANGED <<current, card>>
         \/ /\ Waiting(current) # {} /\ card' = FirstInterrupt(current)
            /\ stage' = "idle" /\ current' = NoRun
  BY DEF Record, stores, ghosts, AInv, Resumption, Working
<1>2. AnswerTyped' /\ Places' /\ AnswersFitTheirQuestion'
  BY <1>1, CallsStay
<1>3. Turns' /\ CallsRest'
  BY <1>1, NoRunIsNone DEF AInv, Turns, CallsRest
<1>4. FirstExecution' /\ Resumption'
  BY <1>1, NoRunIsNone DEF FirstExecution, Resumption, Working
<1>5. RunningIsNew'
  BY <1>1, NoRunIsNone DEF AInv, RunningIsNew, Working
<1>6. RefStands' /\ RepliesFit'
  BY <1>1, NoRunIsNone DEF AInv, AnswerTyped, RefStands, RepliesFit, None
<1>7. CardFits'
  <2>1. CASE stage' = "pump" /\ UNCHANGED <<current, card>>
    BY <1>1, <2>1, NoRunIsNone DEF AInv, CardFits, AtWorkOnTurn
  <2>2. CASE /\ Waiting(current) # {} /\ card' = FirstInterrupt(current)
             /\ stage' = "idle" /\ current' = NoRun
    <3>1. ASSUME NEW r \in Run, current = r PROVE Stands(r, graph[r], FirstInterrupt(r))
      <4>1. OpenOf(graph[r]) # {}
        BY <2>2, <3>1 DEF Waiting, OpenOf
      <4> QED BY <1>1, <3>1, <4>1, AtRest, FirstStands DEF AInv
    <3>2. FirstInterrupt(current).kind # "bare"
      BY DEF FirstInterrupt
    <3> QED BY <1>1, <2>2, <3>1, <3>2, NoRunIsNone DEF CardFits
  <2> QED BY <1>1, <2>1, <2>2
<1> QED BY <1>2, <1>3, <1>4, <1>5, <1>6, <1>7 DEF AInv

\* The answer is one to what is on the terminal.
LEMMA AnswerAnswers == ASSUME AInv, LInv, Answer PROVE AInv'
<1>1. /\ stage = "idle" /\ stage' = "resume" /\ card # None
      /\ current' = pending /\ reply' = card
      /\ card' = (IF card.kind = "question" THEN card ELSE None)
      /\ UNCHANGED <<row, graph, question, heard, ref, pending, resumed>>
  BY DEF Answer, rows, saved, ghosts
<1>2. AnswerTyped' /\ Places' /\ AnswersFitTheirQuestion'
  BY <1>1, CallsStay
<1>3. Turns' /\ CallsRest'
  BY <1>1 DEF AInv, Turns, CallsRest
<1>4. FirstExecution' /\ Resumption' /\ RunningIsNew'
  BY <1>1 DEF AInv, FirstExecution, Resumption, RunningIsNew, Working
<1>5. RefStands'
  BY <1>1 DEF AInv, RefStands
<1>6. RepliesFit'
  BY <1>1 DEF AInv, CardFits, RepliesFit, AtWorkOnTurn
<1>7. CardFits'
  BY <1>1 DEF AInv, CardFits, AtWorkOnTurn, None
<1> QED BY <1>2, <1>3, <1>4, <1>5, <1>6, <1>7 DEF AInv

LEMMA AnswerPrompt == ASSUME AInv, LInv, PromptRefused PROVE AInv'
<1>1. /\ stage = "idle" /\ stage' = "idle" /\ card' = None /\ current' = current
      /\ UNCHANGED <<row, graph, question, heard, ref, resumed>>
  BY DEF PromptRefused, rows, stores, saved, ghosts
<1>2. AnswerTyped' /\ Places' /\ AnswersFitTheirQuestion'
  BY <1>1, CallsStay
<1>3. Turns' /\ CallsRest'
  BY <1>1 DEF AInv, Turns, CallsRest
<1>4. FirstExecution' /\ Resumption' /\ RunningIsNew'
  BY <1>1 DEF AInv, FirstExecution, Resumption, RunningIsNew, Working
<1>5. RefStands' /\ RepliesFit' /\ CardFits'
  BY <1>1 DEF AInv, RefStands, RepliesFit, CardFits, None
<1> QED BY <1>2, <1>3, <1>4, <1>5 DEF AInv

LEMMA AnswerRecover == ASSUME AInv, LInv, Recover PROVE AInv'
<1>1. /\ stage \in {"down", "idle"} /\ stage' = "recovered" /\ ref.run # NoRun
      /\ session' = "active" /\ current = NoRun
      /\ UNCHANGED <<graph, question, heard, ref, current, card, pending, resumed>>
  BY DEF Recover, stores, saved, wait, ghosts, LInv, OneRun
<1>2. \A r \in Run : /\ row'[r].status = row[r].status
                     /\ row'[r].attempt = "running" => row[r].attempt = "running"
  BY DEF Recover, LInv, RunShape
<1>3. AnswerTyped' /\ Places' /\ AnswersFitTheirQuestion'
  BY <1>1, CallsStay
<1>4. Turns' /\ CallsRest'
  BY <1>1, <1>2 DEF AInv, Turns, CallsRest
<1>5. FirstExecution' /\ Resumption' /\ RunningIsNew'
  BY <1>1, <1>2, NoRunIsNone DEF AInv, FirstExecution, Resumption, RunningIsNew, Working
<1>6. RefStands' /\ RepliesFit' /\ CardFits'
  BY <1>1, <1>2, NoRunIsNone DEF AInv, RefStands, RepliesFit, CardFits, AtWorkOnTurn
<1> QED BY <1>3, <1>4, <1>5, <1>6 DEF AInv

\* What a new process finds: the calls that were open wait.
LEMMA AnswerStop == ASSUME AInv, LInv, NEW quit, Stop(quit) PROVE AInv'
<1>1. /\ stage' = "down" /\ current' = NoRun /\ resumed' = FALSE /\ card' = None
      /\ UNCHANGED <<row, question, heard, ref>>
      /\ graph' = [r \in Run |-> [graph[r] EXCEPT !.state =
                     [i \in DOMAIN @ |-> IF @[i] = "done" THEN "done" ELSE "waiting"]]]
  BY DEF Stop, stores, ghosts
<1>2. \A r \in Run :
        /\ DOMAIN graph'[r] = DOMAIN graph[r] /\ SameOpen(graph[r], graph'[r])
        /\ \A i \in OpenOf(graph'[r]) : graph'[r].state[i] = "waiting"
  BY <1>1 DEF AInv, AnswerTyped, GraphShape, SameOpen, OpenOf
<1>3. AnswerTyped'
  BY <1>1, <1>2 DEF AInv, AnswerTyped, GraphShape, SameOpen
<1>4. Places'
  <2> SUFFICES ASSUME NEW r \in Run, NEW c \in Call, question'[r][c] = "pending"
               PROVE  \E i \in OpenOf(graph'[r]) :
                        /\ c = <<graph'[r].turn, i>> /\ graph'[r].resp[i] = "ask"
                        /\ graph'[r].state[i] \in {"waiting", "woken"}
    BY DEF Places, Placed
  <2>1. PICK i \in OpenOf(graph[r]) : c = <<graph[r].turn, i>> /\ graph[r].resp[i] = "ask"
    BY <1>1 DEF AInv, Places, Placed
  <2> QED BY <1>2, <2>1 DEF SameOpen
<1>5. Turns' /\ CallsRest' /\ AnswersFitTheirQuestion'
  <2>1. Turns'
    BY <1>1, <1>2, NoRunIsNone DEF AInv, Turns, SameOpen
  <2>2. CallsRest'
    BY <1>2 DEF CallsRest, Rests
  <2>3. AnswersFitTheirQuestion'
    BY <1>1 DEF AInv, AnswersFitTheirQuestion
  <2> QED BY <2>1, <2>2, <2>3
<1>6. FirstExecution' /\ Resumption' /\ RunningIsNew'
  BY <1>1, NoRunIsNone DEF AInv, FirstExecution, Resumption, RunningIsNew, Working
<1>7. RefStands'
  <2>1. \A r \in Run : /\ graph'[r].at = graph[r].at /\ OpenOf(graph'[r]) = OpenOf(graph[r])
                       /\ Stands(r, graph[r], ref.shown) => Stands(r, graph'[r], ref.shown)
    BY <1>2, StandsFor DEF SameOpen
  <2> QED BY <1>1, <2>1 DEF AInv, RefStands
<1>8. RepliesFit' /\ CardFits'
  BY <1>1, NoRunIsNone DEF RepliesFit, CardFits, None
<1> QED BY <1>3, <1>4, <1>5, <1>6, <1>7, <1>8 DEF AInv

\* A resumption of the calls that wait: it wakes one at most.
LEMMA AnswerResume == ASSUME AInv, LInv, Resume PROVE AInv'
<1>1. /\ stage = "resume" /\ resumed' = TRUE /\ pending = current /\ pending' = current
      /\ UNCHANGED <<row, question, heard, ref, current, card, reply>>
      /\ stage' = IF ~Onward THEN "pump" ELSE IF graph[current].final THEN "record" ELSE "tools"
      /\ Onward => Cardinality(Waiting(current)) <= 1
  BY DEF Resume, Prepared, rows, stores, ghosts, AInv, Resumption
<1>2. \A r \in Run : current = r => Rests(graph[r])
  BY <1>1, AtRest
<1>3. CASE ~Onward
  <2>1. graph' = graph /\ stage' = "pump"
    BY <1>1, <1>3 DEF Resume
  <2>2. AnswerTyped' /\ Places' /\ AnswersFitTheirQuestion'
    BY <1>1, <2>1, CallsStay
  <2>3. Turns' /\ CallsRest' /\ FirstExecution' /\ Resumption' /\ RunningIsNew'
    BY <1>1, <2>1 DEF AInv, Turns, CallsRest, FirstExecution, Resumption, RunningIsNew, Working
  <2>4. RefStands' /\ RepliesFit' /\ CardFits'
    BY <1>1, <2>1 DEF AInv, RefStands, RepliesFit, CardFits, AtWorkOnTurn
  <2> QED BY <2>2, <2>3, <2>4 DEF AInv
<1>4. CASE Onward
  <2>1. graph' = [graph EXCEPT ![current].state =
                    [i \in DOMAIN @ |-> IF @[i] = "waiting" THEN "woken" ELSE @[i]]]
    BY <1>4 DEF Resume
  <2>2. /\ DOMAIN graph' = Run
        /\ \A r \in Run : /\ DOMAIN graph'[r] = DOMAIN graph[r] /\ SameOpen(graph[r], graph'[r])
                          /\ r # current => graph'[r] = graph[r]
                          /\ r = current => \A i \in OpenOf(graph'[r]) : graph'[r].state[i] = "woken"
    <3>1. /\ DOMAIN graph' = Run
          /\ \A r \in Run : r # current => graph'[r] = graph[r]
          /\ \A r \in Run : r = current =>
               graph'[r] = [graph[r] EXCEPT !.state =
                              [i \in DOMAIN graph[r].state |->
                                 IF graph[r].state[i] = "waiting" THEN "woken"
                                 ELSE graph[r].state[i]]]
      BY <2>1 DEF AInv, AnswerTyped, GraphShape
    <3>2. ASSUME NEW r \in Run, r = current
          PROVE  /\ DOMAIN graph'[r] = DOMAIN graph[r] /\ SameOpen(graph[r], graph'[r])
                 /\ \A i \in OpenOf(graph'[r]) : graph'[r].state[i] = "woken"
      BY <1>2, <3>1, <3>2 DEF AInv, AnswerTyped, GraphShape, SameOpen, OpenOf, Rests
    <3> QED BY <3>1, <3>2 DEF SameOpen
  <2>3. ASSUME NEW r \in Run, r = current PROVE AtMostOne(graph[r])
    <3>1. OpenOf(graph[r]) = Waiting(r)
      BY <1>2, <2>3 DEF Rests, OpenOf, Waiting
    <3>2. graph[r].resp \in Responses /\ Waiting(r) \subseteq DOMAIN graph[r].resp
      BY DEF AInv, AnswerTyped, Waiting
    <3> QED BY <1>1, <1>4, <2>3, <3>1, <3>2, CountedOnce DEF AtMostOne
  <2>4. AnswerTyped'
    BY <1>1, <2>2 DEF AInv, AnswerTyped, GraphShape, SameOpen
  <2>5. Places' /\ AnswersFitTheirQuestion'
    <3>1. AnswersFitTheirQuestion'
      BY <1>1 DEF AInv, AnswersFitTheirQuestion
    <3> SUFFICES ASSUME NEW r \in Run, NEW c \in Call, question'[r][c] = "pending"
                 PROVE  \E i \in OpenOf(graph'[r]) :
                          /\ c = <<graph'[r].turn, i>> /\ graph'[r].resp[i] = "ask"
                          /\ graph'[r].state[i] \in {"waiting", "woken"}
      BY <3>1 DEF Places, Placed
    <3>2. PICK i \in OpenOf(graph[r]) : /\ c = <<graph[r].turn, i>> /\ graph[r].resp[i] = "ask"
                                        /\ graph[r].state[i] \in {"waiting", "woken"}
      BY <1>1 DEF AInv, Places, Placed
    <3> QED BY <2>2, <3>2 DEF SameOpen
  <2>6. Turns' /\ CallsRest' /\ FirstExecution' /\ Resumption' /\ RunningIsNew'
    <3>1. Turns'
      BY <1>1, <1>4, <2>2 DEF AInv, Turns, SameOpen
    <3>2. CallsRest'
      <4>1. ASSUME NEW r \in Run, r = current, stage' # "tools" PROVE OpenOf(graph'[r]) = {}
        BY <1>1, <1>4, <2>2, <4>1, NothingOpen DEF AInv, Turns, SameOpen
      <4> QED BY <1>1, <2>2, <4>1 DEF AInv, CallsRest, Rests
    <3> QED BY <1>1, <1>4, <3>1, <3>2
            DEF AInv, FirstExecution, Resumption, RunningIsNew, Working
  <2>7. RefStands'
    <3>1. \A r \in Run : /\ graph'[r].at = graph[r].at /\ OpenOf(graph'[r]) = OpenOf(graph[r])
                         /\ Stands(r, graph[r], ref.shown) => Stands(r, graph'[r], ref.shown)
                         /\ r = current => AtMostOne(graph'[r])
      BY <2>2, <2>3, StandsFor DEF SameOpen
    <3> QED BY <1>1, <3>1 DEF AInv, RefStands
  <2>8. RepliesFit'
    <3> SUFFICES ASSUME NEW r \in Run, r = current, NEW i \in OpenOf(graph'[r])
                 PROVE  Matches(r, graph'[r], i, reply)
      BY <1>1, <1>4 DEF RepliesFit, Due
    <3>1. OpenOf(graph[r]) = {i}
      BY <2>2, <2>3 DEF SameOpen, AtMostOne
    <3>2. Stands(r, graph'[r], reply) /\ OpenOf(graph'[r]) = {i}
      BY <1>1, <2>2, <3>1, StandsFor DEF AInv, RepliesFit, SameOpen
    <3> QED BY <3>2 DEF Stands
  <2>9. CardFits'
    <3>1. ASSUME card # None, NEW r \in Run, r = current
          PROVE  stage' = "tools" /\ Held(graph'[r], card)
      <4>1. /\ Stands(r, graph[r], card) /\ card.kind # "bare"
            /\ card.kind = "question" \/ ~NoQuestion(question[r])
        BY <1>1, <3>1 DEF AInv, CardFits, AtWorkOnTurn
      <4>2. OpenOf(graph[r]) # {}
        BY <4>1, NothingAsked DEF AInv, Places, Stands
      <4>3. PICK i \in OpenOf(graph[r]) : OpenOf(graph[r]) = {i}
        BY <2>3, <3>1, <4>2 DEF AtMostOne
      <4>4. Matches(r, graph[r], i, card)
        BY <4>1, <4>3 DEF Stands
      <4>5. graph[r].resp[i] = "ask"
        <5>1. CASE card.kind = "question"
          BY <4>4, <5>1 DEF Matches
        <5>2. CASE ~NoQuestion(question[r])
          BY <4>3, <5>2 DEF AInv, Places, Placed, NoQuestion
        <5> QED BY <4>1, <5>1, <5>2
      <4>6. card.kind = "question" /\ card.call = <<graph[r].turn, i>>
        BY <4>1, <4>4, <4>5 DEF Matches
      <4>7. Held(graph'[r], card)
        BY <2>2, <3>1, <4>3, <4>5, <4>6 DEF Held, SameOpen
      <4>8. ~graph[r].final
        BY <4>2, NothingOpen DEF AInv, Turns
      <4> QED BY <1>1, <1>4, <3>1, <4>7, <4>8
    <3> QED BY <1>1, <1>4, <2>2, <3>1, NoRunIsNone DEF AInv, CardFits, AtWorkOnTurn
  <2> QED BY <2>4, <2>5, <2>6, <2>7, <2>8, <2>9 DEF AInv
<1> QED BY <1>3, <1>4

\* A single question that is pending is the newest one.
LEMMA StoredStands ==
  ASSUME AInv, NEW r \in Run, Asked(r) # {}
  PROVE  Stands(r, graph[r], StoredQuestion(r)) /\ OpenOf(graph[r]) # {}
<1>1. \A c \in Asked(r) : \E i \in OpenOf(graph[r]) : c = <<graph[r].turn, i>>
                                                      /\ graph[r].resp[i] = "ask"
  BY DEF AInv, Places, Placed, Asked
<1>2. OpenOf(graph[r]) # {}
  BY <1>1
<1>3. ASSUME NEW i \in OpenOf(graph[r]), OpenOf(graph[r]) = {i}
      PROVE  Matches(r, graph[r], i, StoredQuestion(r))
  <2> DEFINE k == <<graph[r].turn, i>>
  <2>1. \A c \in Asked(r) : c = k
    BY <1>1, <1>3
  <2>2. Asked(r) = {k} /\ graph[r].resp[i] = "ask"
    BY <1>1, <1>3, <2>1
  <2>3. (CHOOSE c \in Asked(r) : \A d \in Asked(r) : Before(d, c) \/ d = c) = k
    <3> HIDE DEF k
    <3> QED BY <2>2
  <2> QED BY <2>2, <2>3 DEF StoredQuestion, Matches
<1> QED BY <1>2, <1>3 DEF Stands

\* What a recovery restores, and what it shows of it.
LEMMA RestoredStands ==
  ASSUME AInv, LInv, Restored, ref.run # NoRun, session = "active"
  PROVE  /\ ref.run \in Run /\ pending' = ref.run /\ Candidate = ref.run
         /\ row[ref.run].attempt = "running" /\ ~NoQuestion(question[ref.run])
         /\ Stands(ref.run, graph[ref.run], shown')
         /\ \/ shown' = [kind |-> "bare", run |-> shown'.run, call |-> shown'.call]
            \/ shown'.kind # "bare"
<1>1. /\ Candidate = ref.run /\ Candidate # NoRun /\ pending' = Candidate
      /\ graph[ref.run].at = ref.at
      /\ shown' = IF ref.shown # None THEN ref.shown ELSE StoredQuestion(ref.run)
  BY DEF Restored, Stale
<1>2. Recoverable # {} /\ Candidate = Max(Recoverable) /\ row[Candidate].attempt = "running"
  BY <1>1 DEF Candidate
<1>3. Recoverable \subseteq 1..LastRun /\ LastRun \in Nat
  BY LeadAssumption DEF Recoverable, Run
<1>4. ref.run \in Recoverable
  BY <1>1, <1>2, <1>3, LargestExists
<1>5. ref.run \in Run /\ Asked(ref.run) # {}
  BY <1>4 DEF Recoverable, AInv, RunningIsNew
<1>6. Stands(ref.run, graph[ref.run], StoredQuestion(ref.run)) /\ OpenOf(graph[ref.run]) # {}
  BY <1>5, StoredStands
<1>7. Stands(ref.run, graph[ref.run], shown')
  BY <1>1, <1>5, <1>6 DEF AInv, RefStands
<1>8. ~NoQuestion(question[ref.run])
  BY <1>5 DEF Asked, NoQuestion
<1>9. \/ shown' = [kind |-> "bare", run |-> shown'.run, call |-> shown'.call]
      \/ shown'.kind # "bare"
  <2>1. CASE ref.shown # None
    BY <1>1, <1>5, <2>1 DEF AInv, RefStands
  <2>2. CASE ref.shown = None
    <3>1. PICK k : shown' = [kind |-> "bare", run |-> ref.run, call |-> k]
      BY <1>1, <1>5, <2>2 DEF StoredQuestion
    <3> QED BY <3>1
  <2> QED BY <2>1, <2>2
<1> QED BY <1>1, <1>2, <1>5, <1>7, <1>8, <1>9

LEMMA AnswerRestore == ASSUME AInv, LInv, NEW headless, Restore(headless) PROVE AInv'
<1>1. /\ stage = "recovered" /\ Restored /\ ref.run # NoRun /\ session = "active"
      /\ current = NoRun
      /\ UNCHANGED <<row, graph, question, heard, ref, resumed>>
      /\ \/ /\ stage' = "resume" /\ current' = Candidate /\ reply' = shown' /\ card' = card
         \/ /\ stage' = "idle" /\ current' = current
            /\ \/ card = None /\ shown'.kind = "bare"
                  /\ card' = [shown' EXCEPT !.kind = "question"]
               \/ card = None /\ shown'.kind # "bare" /\ card' = shown'
               \/ card # None /\ card' = card
  BY DEF Restore, rows, saved, stores, ghosts, AInv, FirstExecution, LInv, OneRun
<1> DEFINE r == ref.run
<1>2. /\ r \in Run /\ pending' = r /\ Candidate = r /\ row[r].attempt = "running"
      /\ ~NoQuestion(question[r]) /\ Stands(r, graph[r], shown')
  BY <1>1, RestoredStands
<1>3. card # None => Stands(r, graph[r], card)
  BY <1>1, <1>2 DEF AInv, CardFits, LInv, RefOfPending, AtWorkOnTurn
<1>4. AnswerTyped' /\ Places' /\ AnswersFitTheirQuestion'
  BY <1>1, CallsStay
<1>5. Turns' /\ CallsRest'
  BY <1>1 DEF AInv, Turns, CallsRest
<1>6. FirstExecution' /\ Resumption' /\ RunningIsNew'
  BY <1>1, <1>2, NoRunIsNone DEF AInv, FirstExecution, Resumption, RunningIsNew, Working
<1>7. RefStands' /\ RepliesFit'
  BY <1>1, <1>2, NoRunIsNone DEF AInv, RefStands, RepliesFit
<1>8. card'.kind # "bare" /\ (card' # None => Stands(r, graph[r], card'))
  <2>1. CASE card # None \/ shown'.kind # "bare"
    BY <1>1, <1>2, <1>3, <2>1 DEF AInv, CardFits
  <2>2. CASE card = None /\ shown'.kind = "bare"
    <3>1. CASE card' = card
      BY <2>2, <3>1 DEF None
    <3>2. CASE card' = [shown' EXCEPT !.kind = "question"]
      <4>1. shown' = [kind |-> "bare", run |-> shown'.run, call |-> shown'.call]
        BY <1>1, <2>2, RestoredStands
      <4>2. card'.kind = "question" /\ card'.run = shown'.run /\ card'.call = shown'.call
        BY <3>2, <4>1
      <4> QED BY <1>2, <2>2, <4>2 DEF Stands, Matches
    <3> QED BY <1>1, <2>2, <3>1, <3>2
  <2> QED BY <2>1, <2>2
<1>9. CardFits'
  <2> HIDE DEF r
  <2>1. stage' \in {"resume", "idle"} /\ stage' \notin AtWorkOnTurn \cup {"tools"}
    BY <1>1 DEF AtWorkOnTurn
  <2>2. pending' = r /\ r # NoRun /\ current' \in {NoRun, r} /\ UNCHANGED <<graph, question>>
    BY <1>1, <1>2, NoRunIsNone
  <2> QED BY <1>2, <1>8, <2>1, <2>2, NoRunIsNone DEF CardFits
<1> QED BY <1>4, <1>5, <1>6, <1>7, <1>9 DEF AInv

LEMMA AnswerInit == Init => AInv
<1> SUFFICES ASSUME Init PROVE AInv
  OBVIOUS
<1> USE DEF Init
<1>1. AnswerTyped
  BY LeadAssumption DEF AnswerTyped, GraphShape
<1>2. Places /\ AnswersFitTheirQuestion
  BY DEF Places, Placed, AnswersFitTheirQuestion
<1>3. \A r \in Run : DOMAIN graph[r].state = {}
  OBVIOUS
<1>4. Turns /\ CallsRest
  BY <1>3, NothingOpen DEF Turns, CallsRest
<1>5. FirstExecution /\ Resumption /\ RunningIsNew
  BY DEF FirstExecution, Resumption, RunningIsNew, Working
<1>6. RefStands /\ RepliesFit /\ CardFits
  BY NoRunIsNone DEF RefStands, RepliesFit, CardFits, None
<1> QED BY <1>1, <1>2, <1>4, <1>5, <1>6 DEF AInv

LEMMA AnswerSteps == ASSUME AInv, LInv, [Next]_vars PROVE AInv'
<1>1. CASE UNCHANGED vars
  <2>1. UNCHANGED <<row, session, graph, question, heard, ref, stage, current, resumed, pending,
                    shown, card, reply>>
    BY <1>1 DEF vars, rows, stores, saved, wait, ghosts
  <2>2. AnswerTyped' /\ Places' /\ AnswersFitTheirQuestion'
    BY <2>1, CallsStay
  <2>3. Turns' /\ CallsRest' /\ FirstExecution' /\ Resumption' /\ RunningIsNew'
    BY <2>1 DEF AInv, Turns, CallsRest, FirstExecution, Resumption, RunningIsNew
  <2>4. RefStands' /\ RepliesFit' /\ CardFits'
    BY <2>1 DEF AInv, RefStands, RepliesFit, CardFits
  <2> QED BY <2>2, <2>3, <2>4 DEF AInv
<1>2. CASE ToolStep
  BY <1>2, AnswerEnding, AnswerTools, AnswerRefused, AnswerAsks DEF ToolStep
<1>3. CASE LeadStep /\ ~ToolStep
  BY <1>3, AnswerLoop, AnswerEnding, AnswerBlocked, AnswerPumpRaises, AnswerComesToRest, TurnEnds,
     TurnBegins, AnswerPark, AnswerRefer, AnswerRecord, AnswerPumpWaits, AnswerResume
     DEF LeadStep
<1>4. CASE Person
  BY <1>4, AnswerInstruct, AnswerUnassigned, AnswerAnswers, AnswerPrompt, AnswerReject,
     AnswerEnding, AnswerPumpRaises DEF Person
<1>5. CASE Process
  BY <1>5, AnswerStop, AnswerComesToRest, AnswerRecover, AnswerRestore DEF Process
<1> QED BY <1>1, <1>2, <1>3, <1>4, <1>5 DEF Next

\* The inductive invariant of the answers holds in every session, where the invariant of
\* the live attempts does.
THEOREM AnswerInvariance == Spec => []AInv
<1>1. AInv /\ LInv /\ [Next]_vars => AInv'
  BY AnswerSteps
<1>2. QED
  BY <1>1, AnswerInit, LiveAttempts, PTL DEF Spec

\* A question is answered only with what the person said to it (RunController.answer, the
\* one answer that a resumption carries, and QuestionStore.answer): over the questions of
\* other calls and turns, approvals, references that are shown again after a restart, and
\* answers given without a terminal.
THEOREM AnswersAreTheirs == Spec => []AnswersFitTheirQuestion
<1>1. AInv => AnswersFitTheirQuestion
  BY DEF AInv
<1>2. QED
  BY <1>1, AnswerInvariance, PTL

-----------------------------------------------------------------------------
(* The types.                                                              *)

Verdicts == {"ok", "plan_invalid", "intent_conflict", "already_recorded", "repair_exhausted",
             "question_required", "decision_required"}
Judgement == [decision : {"none", "direct", "planned"}, repairs : 0..2, answered : BOOLEAN,
              codes : Seq(Verdicts)]

\* The gate judges a call: the decision is one there can be, and no repair is spent twice.
LEMMA JudgeCallTyped ==
  ASSUME NEW g \in Judgement, NEW need, NEW mode, NEW kind
  PROVE  JudgeCall(g, need, mode, kind) \in Judgement
<1>1. ASSUME NEW code \in Verdicts, NEW h \in Judgement PROVE Refuse(h, code) \in Judgement
  <2>1. Append(h.codes, code) \in Seq(Verdicts)
    BY DEF Judgement
  <2>2. Refuse(h, code) = [h EXCEPT !.codes = Append(h.codes, code)]
    BY DEF Refuse
  <2> QED BY <2>1, <2>2 DEF Judgement
<1>2. ASSUME NEW code \in Verdicts PROVE Repair(g, code) \in Judgement
  <2>1. CASE g.repairs = 0
    <3>1. Repair(g, code) = Refuse(g, "repair_exhausted")
      BY <2>1 DEF Repair
    <3> QED BY <1>1, <3>1 DEF Verdicts
  <2>2. CASE g.repairs # 0
    <3>1. [g EXCEPT !.repairs = @ - 1] \in Judgement
      BY <2>2 DEF Judgement
    <3>2. Repair(g, code) = Refuse([g EXCEPT !.repairs = @ - 1], code)
      BY <2>2 DEF Repair
    <3> QED BY <1>1, <3>1, <3>2
  <2> QED BY <2>1, <2>2
<1>3. kind \in Decisions \ {"invalid"} => [g EXCEPT !.decision = kind] \in Judgement
  BY DEF Judgement, Decisions
<1>4. kind \in Decisions => JudgeDecision(g, mode, kind) \in Judgement
  BY <1>1, <1>2, <1>3 DEF JudgeDecision, Verdicts
<1> QED BY <1>1, <1>4 DEF JudgeCall, Verdicts

\* The calls of a response judged one by one, as FoldLeft takes them.
Judged(base, need, mode, resp) ==
  FoldLeft(LAMBDA g, kind : JudgeCall(g, need, mode, kind), base, resp)
JudgesAll(f, base, need, mode, resp) ==
  f = [s \in SUBSET DOMAIN resp |->
         IF s = {} THEN base ELSE JudgeCall(f[s \ {Max(s)}], need, mode, resp[Max(s)])]

LEMMA JudgedUnfolds ==
  ASSUME NEW base, NEW need, NEW mode, NEW resp
  PROVE  Judged(base, need, mode, resp)
           = (CHOOSE f : JudgesAll(f, base, need, mode, resp))[DOMAIN resp]
BY DEF Judged, FoldLeft, MapThenFoldSet, JudgesAll

\* Of a set of places of a response the last is taken.
LEMMA LastPlace ==
  ASSUME NEW resp \in Responses, NEW s \in SUBSET DOMAIN resp
  PROVE  /\ IsFiniteSet(s) /\ Cardinality(s) \in Nat
         /\ Cardinality(s) = 0 => s = {}
         /\ s # {} => /\ Max(s) \in s /\ s \ {Max(s)} \in SUBSET DOMAIN resp
                      /\ Cardinality(s \ {Max(s)}) = Cardinality(s) - 1
<1>1. DOMAIN resp = 1..Len(resp) /\ Len(resp) \in Nat
  BY LeadAssumption
<1>2. IsFiniteSet(1..Len(resp))
  BY <1>1, FS_Interval
<1>3. IsFiniteSet(s) /\ Cardinality(s) \in Nat
  BY <1>1, <1>2, FS_Subset, FS_CardinalityType
<1>4. Cardinality(s) = 0 => s = {}
  BY <1>3, FS_EmptySet
<1>5. s # {} => Max(s) \in s
  BY <1>1, LargestExists
<1> QED BY <1>3, <1>4, <1>5, FS_RemoveElement

\* Judging one by one is well defined: first for at most n calls.
JudgesSome(f, base, need, mode, resp, n) ==
  /\ f \in [SUBSET DOMAIN resp -> Judgement]
  /\ \A s \in SUBSET DOMAIN resp : Cardinality(s) <= n =>
       f[s] = IF s = {} THEN base ELSE JudgeCall(f[s \ {Max(s)}], need, mode, resp[Max(s)])

LEMMA JudgingGrows ==
  ASSUME NEW base \in Judgement, NEW need, NEW mode, NEW resp \in Responses, NEW n \in Nat,
         NEW f, JudgesSome(f, base, need, mode, resp, n)
  PROVE  \E h : JudgesSome(h, base, need, mode, resp, n + 1)
<1> DEFINE Step(s) == IF s = {} THEN base
                      ELSE JudgeCall(f[s \ {Max(s)}], need, mode, resp[Max(s)])
           grown == [s \in SUBSET DOMAIN resp |-> IF Cardinality(s) <= n THEN f[s] ELSE Step(s)]
<1>1. ASSUME NEW s \in SUBSET DOMAIN resp PROVE Step(s) \in Judgement
  <2>1. CASE s # {}
    <3>1. f[s \ {Max(s)}] \in Judgement
      BY <2>1, LastPlace DEF JudgesSome
    <3> QED BY <2>1, <3>1, JudgeCallTyped
  <2> QED BY <2>1
<1>2. grown \in [SUBSET DOMAIN resp -> Judgement]
  BY <1>1 DEF JudgesSome
<1>3. ASSUME NEW s \in SUBSET DOMAIN resp, Cardinality(s) <= n + 1
      PROVE  grown[s] = IF s = {} THEN base
                        ELSE JudgeCall(grown[s \ {Max(s)}], need, mode, resp[Max(s)])
  <2>1. grown[s] = Step(s)
    <3>1. CASE Cardinality(s) <= n
      BY <3>1 DEF JudgesSome
    <3>2. CASE ~(Cardinality(s) <= n)
      BY <3>2
    <3> QED BY <3>1, <3>2
  <2>2. CASE s # {}
    <3>1. grown[s \ {Max(s)}] = f[s \ {Max(s)}]
      BY <1>3, <2>2, LastPlace
    <3> QED BY <2>1, <2>2, <3>1
  <2> QED BY <2>1, <2>2
<1> HIDE DEF grown
<1> QED BY <1>2, <1>3 DEF JudgesSome

LEMMA JudgingReaches ==
  ASSUME NEW base \in Judgement, NEW need, NEW mode, NEW resp \in Responses, NEW n \in Nat
  PROVE  \E f : JudgesSome(f, base, need, mode, resp, n)
<1> DEFINE Out == {m \in Nat : ~ \E f : JudgesSome(f, base, need, mode, resp, m)}
<1> SUFFICES ASSUME Out # {} PROVE FALSE
  OBVIOUS
<1>1. PICK m \in Out : \A q \in Out : <<q, m>> \notin OpToRel(<, Nat)
  BY WFMin, NatLessThanWellFounded, Zenon
<1>2. \A q \in Out : ~ (q < m)
  BY <1>1, Zenon DEF OpToRel
<1>3. CASE m = 0
  <2>1. ASSUME NEW s \in SUBSET DOMAIN resp, Cardinality(s) <= 0 PROVE s = {}
    <3>1. Cardinality(s) \in Nat
      BY LastPlace
    <3>2. Cardinality(s) = 0
      BY <2>1, <3>1
    <3> QED BY <3>2, LastPlace
  <2>2. JudgesSome([s \in SUBSET DOMAIN resp |-> base], base, need, mode, resp, 0)
    BY <2>1 DEF JudgesSome
  <2> QED BY <1>3, <2>2
<1>4. CASE m # 0
  <2>1. m - 1 \in Nat /\ m - 1 < m /\ m - 1 + 1 = m
    BY <1>4
  <2>2. PICK f : JudgesSome(f, base, need, mode, resp, m - 1)
    BY <1>2, <2>1
  <2>3. \E h : JudgesSome(h, base, need, mode, resp, m)
    BY <2>1, <2>2, JudgingGrows
  <2> QED BY <2>3
<1> QED BY <1>3, <1>4

\* So judging a whole response is.
LEMMA JudgingIsDefined ==
  ASSUME NEW base \in Judgement, NEW need, NEW mode, NEW resp \in Responses
  PROVE  \E h : /\ JudgesAll(h, base, need, mode, resp)
                /\ Judged(base, need, mode, resp) = h[DOMAIN resp]
<1> DEFINE all == DOMAIN resp
<1>1. all \in SUBSET DOMAIN resp /\ Cardinality(all) \in Nat
  BY LastPlace
<1>2. PICK f : JudgesSome(f, base, need, mode, resp, Cardinality(all))
  BY <1>1, JudgingReaches
<1>3. JudgesAll(f, base, need, mode, resp)
  <2>1. \A s \in SUBSET all : Cardinality(s) <= Cardinality(all)
    BY LastPlace, FS_Subset
  <2> QED BY <1>2, <2>1 DEF JudgesSome, JudgesAll
<1> DEFINE h == CHOOSE h : JudgesAll(h, base, need, mode, resp)
<1>4. JudgesAll(h, base, need, mode, resp) /\ Judged(base, need, mode, resp) = h[all]
  BY <1>3, JudgedUnfolds
<1> QED BY <1>4

\* What the gate and its verdicts are after any response, of any length.
LEMMA JudgedTyped ==
  ASSUME NEW base \in Judgement, NEW need, NEW mode, NEW resp \in Responses
  PROVE  Judged(base, need, mode, resp) \in Judgement
<1> DEFINE all == DOMAIN resp
<1>1. all \in SUBSET DOMAIN resp /\ Cardinality(all) \in Nat
  BY LastPlace
<1>2. PICK h : JudgesAll(h, base, need, mode, resp) /\ Judged(base, need, mode, resp) = h[all]
  BY JudgingIsDefined
<1> DEFINE Out == {m \in Nat : \E s \in SUBSET all : Cardinality(s) = m /\ h[s] \notin Judgement}
<1>3. Out = {}
  <2> SUFFICES ASSUME Out # {} PROVE FALSE
    OBVIOUS
  <2>1. PICK m \in Out : \A q \in Out : <<q, m>> \notin OpToRel(<, Nat)
    <3>1. Out \subseteq Nat
      OBVIOUS
    <3> HIDE DEF Out
    <3> QED BY <3>1, WFMin, NatLessThanWellFounded, Zenon
  <2>2. \A q \in Out : ~ (q < m)
    BY <2>1, Zenon DEF OpToRel
  <2>3. PICK s \in SUBSET all : Cardinality(s) = m /\ h[s] \notin Judgement
    OBVIOUS
  <2>4. h[s] = IF s = {} THEN base ELSE JudgeCall(h[s \ {Max(s)}], need, mode, resp[Max(s)])
    BY <1>2 DEF JudgesAll
  <2>5. s # {}
    BY <2>3, <2>4
  <2>6. h[s \ {Max(s)}] \in Judgement
    BY <2>2, <2>3, <2>5, LastPlace
  <2> QED BY <2>3, <2>4, <2>5, <2>6, JudgeCallTyped
<1> QED BY <1>1, <1>2, <1>3

States == {"todo", "waiting", "woken", "granted", "ran", "told", "done"}

Statuses == {"none", "running", "blocked"} \cup Finals
Attempts == {"none", "running", "blocked", "succeeded", "failed", "interrupted"}
Row == [status : Statuses, attempt : Attempts, need : BOOLEAN, mode : {"any", "direct", "planned"},
        decision : {"none", "direct", "planned"}, answered : BOOLEAN, required : BOOLEAN,
        bad : 0..2, started : Nat]

RowTyped == row \in [Run -> Row]

\* The controller is at work on a run of the session, and the lead's turn is one of its calls.
PlaceTyped ==
  /\ stage \in Stages /\ current \in Run \cup {NoRun} /\ resumed \in BOOLEAN
  /\ stage \notin {"idle", "down", "recovered"} => current \in Run
  /\ stage = "calling" => begun[current] # 0

TurnTyped ==
  \A r \in Run : /\ graph[r].turn \in 0..CallLimit /\ graph[r].state \in Seq(States)
                 /\ DOMAIN graph[r].state # {} => graph[r].turn # 0

RefTyped ==
  /\ ref \in [run : Run \cup {NoRun}, at : Nat, shown : Interrupt, live : BOOLEAN,
              controls : BOOLEAN]
  /\ resumedAt \in [Run -> Nat]

WaitTyped ==
  /\ pending \in Run \cup {NoRun} /\ shown \in Interrupt /\ card \in Interrupt
  /\ reply \in Interrupt
  /\ kept \in BOOLEAN /\ again \in BOOLEAN /\ restored \in {"none", "direct", "planned"}

GateTyped ==
  gate \in [decision : {"none", "direct", "planned"}, repairs : 0..2, answered : BOOLEAN]

RestTyped ==
  /\ session \in {"active", "interrupted", "idle"} /\ stops \in 0..MaxStops
  /\ worked \in [Run -> SUBSET Call] /\ heard \in [Run -> [Call -> Interrupt]]

TInv ==
  /\ RowTyped /\ PlaceTyped /\ TurnTyped /\ RefTyped /\ WaitTyped /\ GateTyped /\ RestTyped

\* The width of the responses bounds the places of their calls.
LEMMA WidthBounds == Width \in Nat /\ \A resp \in Responses : Len(resp) <= Width
<1> DEFINE Lengths == {Len(resp) : resp \in Responses}
<1>1. PICK longest \in Responses : \A resp \in Responses : Len(resp) <= Len(longest)
  BY LeadAssumption
<1>2. \A resp \in Responses : Len(resp) \in Nat
  BY LeadAssumption
<1>3. \E x \in Lengths : \A y \in Lengths : x >= y
  BY <1>1, <1>2
<1>4. Max(Lengths) \in Lengths /\ \A y \in Lengths : Max(Lengths) >= y
  BY <1>3 DEF Max
<1> QED BY <1>2, <1>4 DEF Width

\* A set of numbers that is not empty has a smallest element.
LEMMA SmallestExists ==
  ASSUME NEW S, S \subseteq Nat, S # {}
  PROVE  Min(S) \in S /\ \A s \in S : Min(S) <= s
<1>1. PICK n \in S : \A k \in S : <<k, n>> \notin OpToRel(<, Nat)
  BY WFMin, NatLessThanWellFounded, Zenon
<1>2. \A k \in S : ~(k < n)
  BY <1>1 DEF OpToRel
<1>3. \E x \in S : \A y \in S : x =< y
  BY <1>2
<1> QED BY <1>3 DEF Min

\* A call that is in the graph has a turn and a place.
LEMMA CallsTyped ==
  ASSUME AnswerTyped, TurnTyped, NEW r \in Run, NEW i \in DOMAIN graph[r].state
  PROVE  CallAt(r, i) \in Call
<1>1. graph[r].turn \in 1..CallLimit
  <2>1. graph[r].turn \in 0..CallLimit /\ graph[r].turn # 0
    BY DEF TurnTyped
  <2> QED BY <2>1, LeadAssumption
<1>2. i \in 1..Width
  <2>1. graph[r].resp \in Responses /\ i \in DOMAIN graph[r].resp
    BY DEF AnswerTyped
  <2>2. DOMAIN graph[r].resp = 1..Len(graph[r].resp) /\ Len(graph[r].resp) \in Nat
    BY <2>1, LeadAssumption
  <2> QED BY <2>1, <2>2, WidthBounds
<1> QED BY <1>1, <1>2 DEF CallAt, Call

LEMMA FirstTyped ==
  ASSUME AnswerTyped, TurnTyped, NEW r \in Run, Waiting(r) # {}
  PROVE  FirstInterrupt(r) \in Interrupt
<1>1. Waiting(r) \subseteq Nat
  <2>1. graph[r].resp \in Responses /\ DOMAIN graph[r].state = DOMAIN graph[r].resp
    BY DEF AnswerTyped
  <2>2. DOMAIN graph[r].resp = 1..Len(graph[r].resp)
    BY <2>1, LeadAssumption
  <2> QED BY <2>1, <2>2 DEF Waiting
<1>2. Min(Waiting(r)) \in DOMAIN graph[r].state
  BY <1>1, SmallestExists DEF Waiting
<1>3. CallAt(r, Min(Waiting(r))) \in Call
  BY <1>2, CallsTyped
<1> QED BY <1>3 DEF FirstInterrupt, Interrupt

LEMMA NoneTyped == None \in Interrupt
BY DEF None, Interrupt

\* Of the pending questions of a run, all of one turn, the newest is stored.
LEMMA StoredTyped ==
  ASSUME AInv, NEW r \in Run
  PROVE  StoredQuestion(r) \in Interrupt
<1>1. CASE Asked(r) = {}
  BY <1>1, NoneTyped DEF StoredQuestion
<1>2. CASE Asked(r) # {}
  <2> DEFINE t == graph[r].turn
             resp == graph[r].resp
             S == {i \in DOMAIN resp : <<t, i>> \in Asked(r)}
  <2>1. \A c \in Asked(r) : \E i \in DOMAIN resp : c = <<t, i>>
    BY DEF AInv, Places, Placed, Asked, OpenOf, AnswerTyped
  <2>2. resp \in Responses
    BY DEF AInv, AnswerTyped
  <2>3. DOMAIN resp = 1..Len(resp) /\ Len(resp) \in Nat
    BY <2>2, LeadAssumption
  <2>4. S \subseteq 1..Len(resp) /\ S # {}
    BY <1>2, <2>1, <2>3
  <2>5. Max(S) \in S /\ \A s \in S : Max(S) >= s
    BY <2>3, <2>4, LargestExists
  <2>6. ASSUME NEW d \in Asked(r) PROVE Before(d, <<t, Max(S)>>) \/ d = <<t, Max(S)>>
    <3>1. PICK i \in S : d = <<t, i>>
      BY <2>1
    <3>2. i \in Nat /\ Max(S) \in Nat /\ i <= Max(S)
      BY <2>3, <2>4, <2>5
    <3> HIDE DEF S, t
    <3> QED BY <3>1, <3>2 DEF Before
  <2>7. \E c \in Asked(r) : \A d \in Asked(r) : Before(d, c) \/ d = c
    BY <2>5, <2>6
  <2>8. (CHOOSE c \in Asked(r) : \A d \in Asked(r) : Before(d, c) \/ d = c) \in Call
    BY <2>7 DEF Asked
  <2> QED BY <1>2, <2>8 DEF StoredQuestion, Interrupt
<1> QED BY <1>1, <1>2

\* A second bad decision counts no further.
LEMMA CountedTwice == ASSUME NEW n \in 0..2 PROVE Min({n + 1, 2}) \in 0..2
<1> DEFINE S == {n + 1, 2}
<1>1. S \subseteq Nat /\ S # {}
  OBVIOUS
<1>2. Min(S) \in S /\ \A s \in S : Min(S) <= s
  <2> HIDE DEF S
  <2> QED BY <1>1, SmallestExists
<1> QED BY <1>2

\* The run a restart looks at is one of the session.
LEMMA CandidateTyped == Candidate \in Run \cup {NoRun}
<1>1. Recoverable \subseteq 1..LastRun /\ LastRun \in Nat
  BY LeadAssumption DEF Recoverable, Run
<1>2. Recoverable # {} => Max(Recoverable) \in Recoverable
  BY <1>1, LargestExists
<1> QED BY <1>1, <1>2 DEF Candidate, Run

\* What is restored with it.
LEMMA RestoredTyped ==
  ASSUME AInv, RowTyped, RefTyped, Restored
  PROVE  /\ pending' \in Run /\ pending' = Candidate /\ shown' \in Interrupt
         /\ kept' \in BOOLEAN /\ again' \in BOOLEAN /\ restored' \in {"none", "direct", "planned"}
<1>1. Candidate \in Run /\ pending' = Candidate
  BY CandidateTyped DEF Restored
<1>2. shown' \in Interrupt
  BY <1>1, StoredTyped DEF Restored, RefTyped
<1>3. restored' \in {"none", "direct", "planned"} /\ again' \in BOOLEAN
  BY <1>1 DEF Restored, RowTyped, Row
<1>4. kept' \in BOOLEAN
  BY DEF Restored
<1> QED BY <1>1, <1>2, <1>3, <1>4

\* A column of a row takes another value.
LEMMA ColumnsTyped ==
  ASSUME NEW rs \in [Run -> Row], NEW r
  PROVE  /\ \A v \in Statuses : [rs EXCEPT ![r].status = v] \in [Run -> Row]
         /\ \A v \in Attempts : [rs EXCEPT ![r].attempt = v] \in [Run -> Row]
         /\ \A v \in BOOLEAN : [rs EXCEPT ![r].need = v] \in [Run -> Row]
         /\ \A v \in {"any", "direct", "planned"} : [rs EXCEPT ![r].mode = v] \in [Run -> Row]
         /\ \A v \in {"none", "direct", "planned"} :
              [rs EXCEPT ![r].decision = v] \in [Run -> Row]
         /\ \A v \in BOOLEAN : [rs EXCEPT ![r].answered = v] \in [Run -> Row]
         /\ \A v \in BOOLEAN : [rs EXCEPT ![r].required = v] \in [Run -> Row]
         /\ \A v \in 0..2 : [rs EXCEPT ![r].bad = v] \in [Run -> Row]
         /\ \A v \in Nat : [rs EXCEPT ![r].started = v] \in [Run -> Row]
<1>1. \A v \in Statuses : [rs EXCEPT ![r].status = v] \in [Run -> Row]
  BY DEF Row
<1>2. \A v \in Attempts : [rs EXCEPT ![r].attempt = v] \in [Run -> Row]
  BY DEF Row
<1>3. \A v \in BOOLEAN : [rs EXCEPT ![r].need = v] \in [Run -> Row]
  BY DEF Row
<1>4. \A v \in {"any", "direct", "planned"} : [rs EXCEPT ![r].mode = v] \in [Run -> Row]
  BY DEF Row
<1>5. \A v \in {"none", "direct", "planned"} : [rs EXCEPT ![r].decision = v] \in [Run -> Row]
  BY DEF Row
<1>6. \A v \in BOOLEAN : [rs EXCEPT ![r].answered = v] \in [Run -> Row]
  BY DEF Row
<1>7. \A v \in BOOLEAN : [rs EXCEPT ![r].required = v] \in [Run -> Row]
  BY DEF Row
<1>8. \A v \in 0..2 : [rs EXCEPT ![r].bad = v] \in [Run -> Row]
  BY DEF Row
<1>9. \A v \in Nat : [rs EXCEPT ![r].started = v] \in [Run -> Row]
  BY DEF Row
<1> QED BY <1>1, <1>2, <1>3, <1>4, <1>5, <1>6, <1>7, <1>8, <1>9

\* The status and the attempt of a run change.
LEMMA StatusTyped ==
  ASSUME NEW rs \in [Run -> Row], NEW r, NEW status \in Statuses, NEW attempt \in Attempts
  PROVE  [rs EXCEPT ![r].status = status, ![r].attempt = attempt] \in [Run -> Row]
<1>1. [rs EXCEPT ![r].status = status] \in [Run -> Row]
  BY ColumnsTyped
<1> QED BY <1>1, ColumnsTyped

\* The rows of a run that ends or stays blocked.
LEMMA EndedTyped ==
  ASSUME RowTyped, NEW r, NEW status \in Statuses, NEW attempt \in Attempts,
         Ended(r, status, attempt)
  PROVE  RowTyped' /\ session' = "idle"
BY StatusTyped DEF Ended, RowTyped

LEMMA FailsTyped ==
  ASSUME RowTyped, NEW status \in {"failed", "cancelled"}, Fails(status)
  PROVE  RowTyped' /\ session' = "idle"
<1>1. status \in Statuses /\ (IF status = "cancelled" THEN "interrupted" ELSE "failed") \in Attempts
  BY DEF Statuses, Finals, Attempts
<1> QED BY <1>1, EndedTyped DEF Fails

\* A run ends, or waits.
LEMMA RowsEnd ==
  ASSUME RowTyped, RestTyped,
         \/ CallFails \/ Cancel \/ PumpBlocked \/ ResumeAmbiguous \/ Reject
         \/ \E i \in 1..Width : RepeatedCall(i)
         \/ \E status \in {"failed", "cancelled"} : PumpRaises(status)
         \/ \E waits \in BOOLEAN : Close(waits)
         \/ \E r \in Run, status \in {"blocked", "failed"} : Unassigned(r, status)
         \/ Park \/ PumpWaits \/ Recover
  PROVE  RowTyped' /\ session' \in {"active", "interrupted", "idle"}
<1> USE DEF RestTyped
<1>1. /\ {"failed", "blocked", "completed"} \subseteq Statuses
      /\ {"failed", "interrupted", "blocked", "succeeded"} \subseteq Attempts
  BY DEF Statuses, Finals, Attempts
<1>2. CASE CallFails \/ Cancel \/ \E i \in 1..Width : RepeatedCall(i)
  BY <1>2, FailsTyped DEF CallFails, Cancel, RepeatedCall
<1>3. CASE PumpBlocked \/ ResumeAmbiguous
  BY <1>1, <1>3, EndedTyped DEF PumpBlocked, ResumeAmbiguous
<1>4. CASE Reject
  <2>1. CASE pending # NoRun
    BY <1>1, <1>4, <2>1, EndedTyped DEF Reject
  <2>2. CASE pending = NoRun
    BY <1>4, <2>2 DEF Reject, rows, RowTyped
  <2> QED BY <2>1, <2>2
<1>5. ASSUME NEW status \in {"failed", "cancelled"}, PumpRaises(status)
      PROVE  RowTyped' /\ session' \in {"active", "interrupted", "idle"}
  <2>1. status \in Statuses /\ (IF status = "cancelled" THEN "interrupted" ELSE "failed") \in Attempts
    BY DEF Statuses, Finals, Attempts
  <2>2. CASE resumed
    BY <1>5, <2>2 DEF PumpRaises, rows, RowTyped
  <2>3. CASE ~resumed
    BY <1>5, <2>1, <2>3, EndedTyped DEF PumpRaises
  <2> QED BY <2>2, <2>3
<1>6. ASSUME NEW waits, Close(waits)
      PROVE  RowTyped' /\ session' \in {"active", "interrupted", "idle"}
  BY <1>1, <1>6, EndedTyped DEF Close, GateBlocked
<1>7. ASSUME NEW r, NEW status \in {"blocked", "failed"}, Unassigned(r, status)
      PROVE  RowTyped' /\ session' \in {"active", "interrupted", "idle"}
  <2>1. status \in Statuses /\ status \in Attempts
    BY DEF Statuses, Attempts, Finals
  <2> QED BY <1>7, <2>1, EndedTyped DEF Unassigned
<1>8. CASE Park \/ PumpWaits
  <2>1. "blocked" \in Statuses /\ "running" \in Attempts
    BY DEF Statuses, Attempts
  <2>2. \/ row' = [row EXCEPT ![current].status = "blocked", ![current].attempt = "running"]
        \/ row' = [row EXCEPT ![current].status = "blocked"]
    BY <1>8 DEF Park, PumpWaits
  <2>3. row' \in [Run -> Row]
    <3>1. /\ [row EXCEPT ![current].status = "blocked"] \in [Run -> Row]
          /\ [row EXCEPT ![current].status = "blocked", ![current].attempt = "running"]
               \in [Run -> Row]
      BY <2>1, StatusTyped, ColumnsTyped DEF RowTyped
    <3> QED BY <2>2, <3>1
  <2> QED BY <1>8, <2>3 DEF Park, PumpWaits, RowTyped
<1>9. CASE Recover
  <2>1. \A r \in Run : [row[r] EXCEPT !.attempt = "interrupted"] \in Row
    BY DEF RowTyped, Row, Attempts
  <2> QED BY <1>9, <2>1 DEF Recover, RowTyped
<1> QED BY <1>2, <1>3, <1>4, <1>5, <1>6, <1>7, <1>8, <1>9

\* What is said and what was given make the controls of a run.
LEMMA ControlsTyped ==
  ASSUME NEW said \in Instructions, NEW given \in Given
  PROVE  ControlsOf(said, given) \in [need : BOOLEAN, mode : {"any", "direct", "planned"}]
<1>1. /\ said \in [planned : BOOLEAN, alone : BOOLEAN, ask : BOOLEAN, agents : SUBSET Nat]
      /\ given \in [need : BOOLEAN, mode : {"any", "direct", "planned"},
                    delegates : BOOLEAN, children : Nat]
  BY LeadAssumption
<1>2. (said.ask \/ given.need) \in BOOLEAN
  OBVIOUS
<1>3. CASE said.planned
  BY <1>2, <1>3 DEF ControlsOf
<1>4. CASE ~said.planned
  BY <1>1, <1>2, <1>4 DEF ControlsOf
<1> QED BY <1>3, <1>4

\* The lead's loop writes what it does into the row of its run.
LEMMA RowsOfTheLoop ==
  ASSUME RowTyped, PlaceTyped, RestTyped, GateTyped, NEW i,
         \/ BeginCall \/ Persist \/ TooEarly(i) \/ Refused(i) \/ Finish(i)
         \/ \E r \in Run, said \in Instructions, given \in Given : Instruct(r, said, given)
  PROVE  RowTyped' /\ session' \in {"active", "interrupted", "idle"}
<1>1. session' \in {"active", "interrupted", "idle"}
  BY DEF RestTyped, BeginCall, Persist, TooEarly, Refused, Finish, Instruct
<1>2. ASSUME current \in Run
      PROVE  /\ row[current].bad \in 0..2 /\ row[current].started \in Nat
             /\ row[current].required \in BOOLEAN /\ row[current].answered \in BOOLEAN
  BY <1>2 DEF RowTyped, Row
<1>3. CASE BeginCall \/ Persist
  <2>1. CASE BeginCall
    <3>1. current \in Run /\ row' = [row EXCEPT ![current].started = row[current].started + 1]
      BY <2>1 DEF BeginCall, PlaceTyped
    <3>2. row[current].started + 1 \in Nat
      BY <1>2, <3>1
    <3>3. [row EXCEPT ![current].started = row[current].started + 1] \in [Run -> Row]
      BY <3>2, ColumnsTyped DEF RowTyped
    <3> QED BY <1>1, <3>1, <3>3 DEF RowTyped
  <2>2. CASE Persist
    <3>1. row' = row \/ row' = [row EXCEPT ![current].decision = gate.decision]
      BY <2>2 DEF Persist
    <3>2. gate.decision \in {"none", "direct", "planned"}
      BY DEF GateTyped
    <3>3. [row EXCEPT ![current].decision = gate.decision] \in [Run -> Row]
      BY <3>2, ColumnsTyped DEF RowTyped
    <3> QED BY <1>1, <3>1, <3>3 DEF RowTyped
  <2> QED BY <1>1, <1>3, <2>1, <2>2
<1>4. CASE TooEarly(i) \/ Finish(i)
  <2>1. /\ current \in Run
        /\ \/ \E v \in BOOLEAN : row' = [row EXCEPT ![current].required = row[current].required \/ v]
           \/ \E v \in BOOLEAN : row' = [row EXCEPT ![current].answered = row[current].answered \/ v]
    BY <1>4 DEF TooEarly, Finish, AtCall, PlaceTyped
  <2>2. /\ \A v \in BOOLEAN :
             [row EXCEPT ![current].required = row[current].required \/ v] \in [Run -> Row]
        /\ \A v \in BOOLEAN :
             [row EXCEPT ![current].answered = row[current].answered \/ v] \in [Run -> Row]
    BY ColumnsTyped DEF RowTyped
  <2> QED BY <1>1, <2>1, <2>2 DEF RowTyped
<1>5. CASE Refused(i)
  <2> DEFINE bad == IF verdict[i] = "intent_conflict" THEN row
                    ELSE [row EXCEPT ![current].bad = Min({@ + 1, 2})]
  <2>1. bad \in [Run -> Row]
    <3>1. Min({row[current].bad + 1, 2}) \in 0..2
      BY <1>2, <1>5, CountedTwice DEF Refused, AtCall, PlaceTyped
    <3>2. [row EXCEPT ![current].bad = Min({row[current].bad + 1, 2})] \in [Run -> Row]
      BY <3>1, ColumnsTyped DEF RowTyped
    <3> QED BY <3>2 DEF RowTyped
  <2>2. \/ row' = bad
        \/ row' = [bad EXCEPT ![current].status = "failed", ![current].attempt = "failed"]
    BY <1>5, Zenon DEF Refused
  <2>3. "failed" \in Statuses /\ "failed" \in Attempts
    BY DEF Statuses, Attempts, Finals
  <2> HIDE DEF bad
  <2> QED BY <1>1, <2>1, <2>2, <2>3, StatusTyped DEF RowTyped
<1>6. ASSUME NEW r \in Run, NEW said \in Instructions, NEW given \in Given,
             Instruct(r, said, given)
      PROVE  RowTyped'
  <2>1. ControlsOf(said, given) \in [need : BOOLEAN, mode : {"any", "direct", "planned"}]
    BY ControlsTyped
  <2> DEFINE controls == ControlsOf(said, given)
  <2>2. row' = [row EXCEPT ![r].status = "running", ![r].attempt = "running",
                           ![r].need = controls.need, ![r].mode = controls.mode]
    BY <1>6 DEF Instruct, Started
  <2>3. "running" \in Statuses /\ "running" \in Attempts
    BY DEF Statuses, Attempts
  <2>4. [row EXCEPT ![r].status = "running", ![r].attempt = "running"] \in [Run -> Row]
    BY <2>3, StatusTyped DEF RowTyped
  <2>5. controls.need \in BOOLEAN /\ controls.mode \in {"any", "direct", "planned"}
    BY <2>1
  <2> HIDE DEF controls
  <2>6. [row EXCEPT ![r].status = "running", ![r].attempt = "running",
                    ![r].need = controls.need] \in [Run -> Row]
    BY <2>4, <2>5, ColumnsTyped
  <2> QED BY <2>2, <2>5, <2>6, ColumnsTyped DEF RowTyped
<1> QED BY <1>1, <1>3, <1>4, <1>5, <1>6

\* The controller goes from one stage to another with a run of the session.
LEMMA PlaceOfTheLoop ==
  ASSUME PlaceTyped, CallsFit, LeadStep
  PROVE  PlaceTyped'
<1> USE DEF PlaceTyped, Stages
<1>1. CASE BeginCall
  <2>1. /\ begun' = [begun EXCEPT ![current] = @ + 1] /\ current \in Run
        /\ stage' = "calling" /\ current' = current /\ resumed' = resumed
    BY <1>1 DEF BeginCall
  <2>2. begun'[current] = begun[current] + 1 /\ begun[current] \in Nat
    BY <2>1 DEF CallsFit
  <2>3. begun'[current] # 0
    BY <2>2
  <2> QED BY <2>1, <2>3
<1>2. ASSUME NEW status, Fails(status), stage # "terminal", current \in Run, UNCHANGED resumed
      PROVE  PlaceTyped'
  BY <1>2 DEF Fails, Leave
<1>3. CASE CallFails \/ Persist \/ NextTurn \/ Interrupted \/ \E resp \in Responses : Respond(resp)
  BY <1>2, <1>3 DEF CallFails, Persist, NextTurn, Interrupted, Respond
<1>4. CASE Park \/ Refer \/ Record \/ ResumeRaises \/ PumpEnds \/ PumpWaits \/ PumpBlocked
           \/ PumpRaises("failed") \/ ResumeAmbiguous
  BY <1>4 DEF Park, Refer, Record, ResumeRaises, PumpEnds, PumpWaits, PumpBlocked, PumpRaises,
              ResumeAmbiguous
<1>5. CASE Resume
  BY <1>5 DEF Resume
<1>6. ASSUME NEW waits, Close(waits) PROVE PlaceTyped'
  BY <1>6 DEF Close, Leave
<1>7. ASSUME NEW i, \/ TooEarly(i) \/ Works(i) \/ Execute(i) \/ RunCommand(i) \/ Finish(i)
                    \/ Ask(i) \/ Told(i) \/ RepeatedCall(i) \/ Refused(i)
      PROVE  PlaceTyped'
  <2>1. stage = "tools"
    BY <1>7 DEF TooEarly, Works, Execute, RunCommand, Finish, Ask, Told, RepeatedCall, Refused,
       AtCall
  <2>2. CASE RepeatedCall(i)
    BY <1>2, <2>1, <2>2 DEF RepeatedCall
  <2>3. CASE Refused(i)
    BY <2>1, <2>3 DEF Refused, Leave
  <2>4. CASE ~(RepeatedCall(i) \/ Refused(i))
    BY <1>7, <2>1, <2>4 DEF TooEarly, Works, Execute, RunCommand, Finish, Ask, Told
  <2> QED BY <2>2, <2>3, <2>4
<1>8. CASE ToolStep
  BY <1>7, <1>8 DEF ToolStep
<1> QED BY <1>1, <1>3, <1>4, <1>5, <1>6, <1>8 DEF LeadStep

LEMMA PlaceOfOthers ==
  ASSUME PlaceTyped, WaitTyped, Person \/ Process
  PROVE  PlaceTyped'
<1> USE DEF PlaceTyped, Stages
<1>1. ASSUME NEW r \in Run, NEW said, NEW given, Instruct(r, said, given) PROVE PlaceTyped'
  BY <1>1 DEF Instruct, Invoke
<1>2. ASSUME NEW r, NEW status, Unassigned(r, status) PROVE PlaceTyped'
  BY <1>2 DEF Unassigned, agent
<1>3. CASE Answer
  BY <1>3 DEF Answer, WaitTyped
<1>4. CASE PromptRefused \/ Reject
  BY <1>4 DEF PromptRefused, Reject, agent
<1>5. CASE Cancel
  BY <1>5 DEF Cancel, Fails, Leave
<1>6. CASE PumpRaises("cancelled")
  BY <1>6 DEF PumpRaises
<1>7. CASE Reopen \/ Recover \/ NothingToRestore \/ \E quit \in BOOLEAN : Stop(quit)
  BY <1>7 DEF Reopen, Recover, NothingToRestore, Stop
<1>8. ASSUME NEW headless, Restore(headless) PROVE PlaceTyped'
  BY <1>8, CandidateTyped DEF Restore, Restored
<1> QED BY <1>1, <1>2, <1>3, <1>4, <1>5, <1>6, <1>7, <1>8 DEF Person, Process

\* A call of the response advances; the turn is what it was.
LEMMA AdvanceTyped ==
  ASSUME GraphShape, TurnTyped, NEW i, i \in DOMAIN graph[current].state, NEW to \in States,
         Advance(i, to)
  PROVE  TurnTyped'
<1>1. ASSUME NEW r \in Run
      PROVE  /\ graph'[r].turn = graph[r].turn /\ graph'[r].state \in Seq(States)
             /\ DOMAIN graph'[r].state = DOMAIN graph[r].state
  <2>1. graph[r].state \in Seq(States)
    BY DEF TurnTyped
  <2>2. CASE r = current
    <3>1. graph'[r].turn = graph[r].turn /\ graph'[r].state = [graph[r].state EXCEPT ![i] = to]
      BY <2>2 DEF Advance, GraphShape
    <3>2. /\ DOMAIN graph[r].state = 1..Len(graph[r].state) /\ Len(graph[r].state) \in Nat
          /\ graph[r].state \in [DOMAIN graph[r].state -> States]
      BY <2>1
    <3>3. graph'[r].state \in [1..Len(graph[r].state) -> States]
      BY <3>1, <3>2
    <3> QED BY <3>1, <3>2, <3>3
  <2>3. CASE r # current
    <3>1. graph'[r] = graph[r]
      BY <2>3 DEF Advance, GraphShape
    <3> QED BY <2>1, <3>1
  <2> QED BY <2>2, <2>3
<1> QED BY <1>1 DEF TurnTyped

LEMMA TurnSteps ==
  ASSUME GraphShape, CallsFit, PlaceTyped, TurnTyped, [Next]_vars
  PROVE  TurnTyped'
<1>1. CASE graph' = graph
  BY <1>1 DEF TurnTyped
<1>2. ASSUME NEW i, \/ TooEarly(i) \/ Works(i) \/ Execute(i) \/ RunCommand(i) \/ Finish(i)
                    \/ Ask(i) \/ Told(i) \/ Refused(i)
      PROVE  TurnTyped'
  <2>1. i \in DOMAIN graph[current].state
    BY <1>2 DEF TooEarly, Works, Execute, RunCommand, Finish, Ask, Told, Refused, AtCall
  <2>2. graph' = graph \/ \E to \in States : Advance(i, to)
    <3>1. CASE TooEarly(i) \/ Works(i) \/ RunCommand(i) \/ Finish(i)
      BY <3>1 DEF TooEarly, Works, RunCommand, Finish, States
    <3>2. CASE Execute(i)
      BY <3>2 DEF Execute, States
    <3>3. CASE Refused(i) \/ Ask(i) \/ Told(i)
      BY <3>3 DEF Refused, Ask, Told, States
    <3> QED BY <1>2, <3>1, <3>2, <3>3
  <2> QED BY <1>1, <2>1, <2>2, AdvanceTyped
<1>3. ASSUME NEW resp \in Responses, Respond(resp) PROVE TurnTyped'
  <2>1. [i \in DOMAIN resp |-> "todo"] \in Seq(States)
    <3>1. DOMAIN resp = 1..Len(resp) /\ Len(resp) \in Nat
      BY LeadAssumption
    <3> QED BY <3>1 DEF States
  <2>2. begun[current] \in 0..CallLimit /\ begun[current] # 0 /\ current \in Run
    <3>1. current \in Run /\ begun[current] # 0
      BY <1>3 DEF Respond, PlaceTyped
    <3> QED BY <3>1, LeadAssumption DEF CallsFit
  <2>3. /\ graph'[current].turn = begun[current]
        /\ graph'[current].state = [i \in DOMAIN resp |-> "todo"]
        /\ \A r \in Run \ {current} : graph'[r] = graph[r]
    BY <1>3, <2>2 DEF Respond, GraphShape
  <2> QED BY <2>1, <2>2, <2>3 DEF TurnTyped
<1>4. ASSUME NEW r \in Run, NEW said, NEW given, Instruct(r, said, given) PROVE TurnTyped'
  <2>1. \A q \in Run : graph'[q].turn = graph[q].turn /\ graph'[q].state = graph[q].state
    BY <1>4 DEF Instruct, Invoke, GraphShape
  <2> QED BY <2>1 DEF TurnTyped
<1>5. CASE NextTurn
  <2>1. \A q \in Run : /\ graph'[q].turn = graph[q].turn
                       /\ graph'[q].state = graph[q].state \/ graph'[q].state = <<>>
    BY <1>5 DEF NextTurn, GraphShape
  <2>2. <<>> \in Seq(States) /\ DOMAIN <<>> = {}
    OBVIOUS
  <2> HIDE DEF NextTurn
  <2> QED BY <2>1, <2>2 DEF TurnTyped
<1>6. CASE Resume \/ \E quit \in BOOLEAN : Stop(quit)
  <2>1. ASSUME NEW q \in Run
        PROVE  /\ graph'[q].turn = graph[q].turn
               /\ \/ graph'[q].state = graph[q].state
                  \/ \E f \in [DOMAIN graph[q].state -> {"waiting", "done"}] :
                       graph'[q].state = f
                  \/ graph'[q].state = [i \in DOMAIN graph[q].state |->
                       IF graph[q].state[i] = "waiting" THEN "woken" ELSE graph[q].state[i]]
    <3>1. CASE Resume
      BY <3>1 DEF Resume, GraphShape
    <3>2. ASSUME NEW quit, Stop(quit)
          PROVE  /\ graph'[q].turn = graph[q].turn
                 /\ graph'[q].state = [i \in DOMAIN graph[q].state |->
                      IF graph[q].state[i] = "done" THEN "done" ELSE "waiting"]
      BY <3>2 DEF Stop, GraphShape
    <3> QED BY <1>6, <3>1, <3>2
  <2>2. ASSUME NEW q \in Run
        PROVE  graph'[q].state \in Seq(States) /\ DOMAIN graph'[q].state = DOMAIN graph[q].state
    <3>1. graph[q].state \in Seq(States) /\ {"waiting", "done", "woken"} \subseteq States
      BY DEF TurnTyped, States
    <3>2. /\ DOMAIN graph[q].state = 1..Len(graph[q].state) /\ Len(graph[q].state) \in Nat
          /\ graph[q].state \in [DOMAIN graph[q].state -> States]
      BY <3>1
    <3>3. graph'[q].state \in [DOMAIN graph[q].state -> States]
      <4>1. CASE graph'[q].state = graph[q].state
        BY <3>2, <4>1
      <4>2. CASE graph'[q].state # graph[q].state
        <5> DEFINE woken == [i \in DOMAIN graph[q].state |->
                              IF graph[q].state[i] = "waiting" THEN "woken" ELSE graph[q].state[i]]
        <5>1. woken \in [DOMAIN graph[q].state -> States]
          BY <3>1, <3>2
        <5>2. [DOMAIN graph[q].state -> {"waiting", "done"}]
                \subseteq [DOMAIN graph[q].state -> States]
          BY <3>1
        <5>3. graph'[q].state = woken
              \/ graph'[q].state \in [DOMAIN graph[q].state -> {"waiting", "done"}]
          BY <2>1, <4>2
        <5> HIDE DEF woken
        <5> QED BY <5>1, <5>2, <5>3
      <4> QED BY <4>1, <4>2
    <3> QED BY <3>2, <3>3
  <2> QED BY <2>1, <2>2 DEF TurnTyped
<1>7. CASE UNCHANGED vars
  BY <1>1, <1>7 DEF vars, saved
<1>8. CASE LeadStep
  <2>1. CASE ToolStep
    BY <1>1, <1>2, <2>1 DEF ToolStep, RepeatedCall, saved
  <2>2. CASE ~ToolStep
    BY <1>1, <1>3, <1>5, <1>6, <1>8, <2>2 DEF LeadStep, BeginCall, CallFails, Persist, Interrupted,
       Park, Refer, Record, ResumeRaises, PumpEnds, PumpWaits, PumpBlocked, PumpRaises, Close,
       ResumeAmbiguous, saved
  <2> QED BY <2>1, <2>2
<1>9. CASE Person \/ Process
  BY <1>1, <1>4, <1>6, <1>9 DEF Person, Process, Unassigned, Answer, PromptRefused, Reject, Cancel,
     PumpRaises, Reopen, Recover, NothingToRestore, Restore, saved
<1> QED BY <1>7, <1>8, <1>9 DEF Next

LEMMA RefSteps ==
  ASSUME AnswerTyped, PlaceTyped, WaitTyped, RefTyped, [Next]_vars
  PROVE  RefTyped'
<1>1. CASE UNCHANGED <<ref, resumedAt>>
  BY <1>1 DEF RefTyped
<1>2. CASE Refer
  <2>1. current \in Run /\ graph[current].at \in Nat
    BY <1>2 DEF Refer, PlaceTyped, AnswerTyped
  <2> QED BY <1>2, <2>1, NoneTyped DEF Refer, RefTyped, WaitTyped
<1>3. CASE Record
  <2>1. current \in Run /\ graph[current].at \in Nat
    BY <1>3 DEF Record, PlaceTyped, AnswerTyped
  <2> QED BY <1>3, <2>1, NoneTyped DEF Record, LiveAttempt, RefTyped
<1>4. CASE ToolStep
  BY <1>1, <1>4 DEF ToolStep, RepeatedCall, TooEarly, Refused, Works, Execute, RunCommand, Finish,
     Ask, Told, saved
<1>5. CASE LeadStep /\ ~ToolStep
  BY <1>1, <1>2, <1>3, <1>5 DEF LeadStep, BeginCall, CallFails, Persist, NextTurn, Interrupted,
     Respond, Park, ResumeRaises, PumpEnds, PumpWaits, PumpBlocked, PumpRaises, Close, Resume,
     ResumeAmbiguous, saved
<1>6. CASE Person \/ Process
  BY <1>1, <1>6 DEF Person, Process, Instruct, Unassigned, Answer, PromptRefused, Reject, Cancel,
     PumpRaises, Stop, Reopen, Recover, NothingToRestore, Restore, saved
<1> QED BY <1>1, <1>4, <1>5, <1>6 DEF Next, vars, saved

\* The gate of a lead that judges a response, or that is built.
LEMMA GateSteps ==
  ASSUME PlaceTyped, WaitTyped, RowTyped, GateTyped, [Next]_vars
  PROVE  GateTyped'
<1>1. CASE gate' = gate
  BY <1>1 DEF GateTyped
<1>2. ASSUME NEW resp \in Responses, Respond(resp) PROVE GateTyped'
  <2> DEFINE base == [decision |-> gate.decision, repairs |-> gate.repairs,
                      answered |-> gate.answered, codes |-> <<>>]
  <2>1. base \in Judgement
    BY DEF GateTyped, Judgement
  <2>2. Judge(current, resp) = Judged(base, Need(current), Mode(current), resp)
    BY DEF Judge, Judged
  <2>3. Judge(current, resp) \in Judgement
    <3> HIDE DEF base
    <3> QED BY <2>1, <2>2, JudgedTyped
  <2>4. PICK g \in Judgement : gate' = [decision |-> g.decision, repairs |-> g.repairs,
                                        answered |-> g.answered]
    BY <1>2, <2>3 DEF Respond
  <2> QED BY <2>4 DEF Judgement, GateTyped
<1>3. CASE Resume
  <2>1. current \in Run
    BY <1>3 DEF Resume, PlaceTyped
  <2>2. restored' \in {"none", "direct", "planned"}
    BY <1>3, <2>1 DEF Resume, Prepared, WaitTyped, RowTyped, Row
  <2> QED BY <1>3, <2>2 DEF Resume, BuildLead, NewGate, GateTyped
<1>4. ASSUME NEW r, NEW said, NEW given, Instruct(r, said, given) PROVE GateTyped'
  BY <1>4 DEF Instruct, BuildLead, NewGate, GateTyped
<1>5. ASSUME NEW quit, Stop(quit) PROVE GateTyped'
  BY <1>5 DEF Stop, FreshGate, NewGate, GateTyped
<1>6. CASE ToolStep
  BY <1>1, <1>6 DEF ToolStep, RepeatedCall, TooEarly, Refused, Works, Execute, RunCommand, Finish,
     Ask, Told, agent
<1>7. CASE LeadStep /\ ~ToolStep
  BY <1>1, <1>2, <1>3, <1>7 DEF LeadStep, BeginCall, CallFails, Persist, NextTurn, Interrupted,
     Park, Refer, Record, ResumeRaises, PumpEnds, PumpWaits, PumpBlocked, PumpRaises, Close,
     ResumeAmbiguous, agent
<1>8. CASE Person \/ Process
  BY <1>1, <1>4, <1>5, <1>8 DEF Person, Process, Unassigned, Answer, PromptRefused, Reject, Cancel,
     PumpRaises, Reopen, Recover, NothingToRestore, Restore, agent
<1> QED BY <1>1, <1>6, <1>7, <1>8 DEF Next, vars, agent

\* What the controller keeps of the run that waits, and what it shows.
LEMMA WaitSteps ==
  ASSUME AInv, LInv, RowTyped, PlaceTyped, TurnTyped, RefTyped, WaitTyped, [Next]_vars
  PROVE  WaitTyped'
<1>1. CASE UNCHANGED wait
  BY <1>1 DEF WaitTyped, wait
<1>2. ASSUME Leave, card' \in Interrupt PROVE WaitTyped'
  BY <1>2, NoneTyped DEF Leave, Forgotten, WaitTyped
<1>3. ASSUME NEW status, Fails(status) PROVE WaitTyped'
  BY <1>2, <1>3 DEF Fails, WaitTyped
<1>4. ASSUME NEW i, Finish(i) PROVE WaitTyped'
  BY <1>4, NoneTyped DEF Finish, WaitTyped
<1>5. ASSUME NEW i, Refused(i) PROVE WaitTyped'
  BY <1>1, <1>2, <1>5 DEF Refused, WaitTyped
<1>6. CASE Park
  <2>1. current \in Run /\ Waiting(current) # {}
    <3>1. current \in Run
      BY <1>6 DEF Park, PlaceTyped
    <3>2. OpenOf(graph[current]) # {} /\ Rests(graph[current])
      BY <1>6, <3>1 DEF Park, AInv, FirstExecution, CallsRest, LInv, AttemptsRun
    <3> QED BY <3>1, <3>2 DEF Rests, OpenOf, Waiting
  <2>2. FirstInterrupt(current) \in Interrupt
    BY <2>1, FirstTyped DEF AInv
  <2> QED BY <1>6, <2>1, <2>2 DEF Park, WaitTyped
<1>7. CASE Refer
  BY <1>7 DEF Refer, WaitTyped
<1>8. CASE Record
  <2>1. current \in Run
    BY <1>8 DEF Record, PlaceTyped
  <2>2. Waiting(current) # {} => FirstInterrupt(current) \in Interrupt
    BY <2>1, FirstTyped DEF AInv
  <2> QED BY <1>8, <2>2 DEF Record, WaitTyped
<1>9. CASE PumpWaits
  <2>1. current \in Run
    BY <1>9 DEF PumpWaits, PlaceTyped
  <2> QED BY <1>9, <2>1 DEF PumpWaits, WaitTyped, Interrupt
<1>10. CASE PumpBlocked \/ ResumeAmbiguous
  BY <1>10, NoneTyped DEF PumpBlocked, ResumeAmbiguous, Forgotten, Shows, WaitTyped
<1>11. ASSUME NEW waits, Close(waits) PROVE WaitTyped'
  BY <1>2, <1>11, NoneTyped DEF Close, Shows, WaitTyped
<1>12. CASE Resume \/ ResumeRaises
  <2>1. CASE Prepared /\ stage = "resume"
    <3>1. current \in Run
      BY <2>1 DEF PlaceTyped
    <3>2. row[current].decision \in {"none", "direct", "planned"}
      BY <3>1 DEF RowTyped, Row
    <3>3. again' \in BOOLEAN /\ shown' \in Interrupt /\ restored' \in {"none", "direct", "planned"}
      BY <2>1, <3>2, NoneTyped DEF Prepared, Onward, WaitTyped
    <3> QED BY <2>1, <3>3 DEF Prepared, WaitTyped
  <2> QED BY <1>1, <1>12, <2>1 DEF Resume, ResumeRaises, Raises
<1>13. ASSUME NEW r, NEW said, NEW given, Instruct(r, said, given) PROVE WaitTyped'
  BY <1>13, NoneTyped DEF Instruct, WaitTyped
<1>14. CASE Answer
  BY <1>14, NoneTyped DEF Answer, WaitTyped
<1>15. CASE Reject
  BY <1>1, <1>15, NoneTyped DEF Reject, Forgotten, WaitTyped
<1>16. CASE PromptRefused
  BY <1>16, RestoredTyped DEF PromptRefused, WaitTyped
<1>17. ASSUME NEW headless, Restore(headless) PROVE WaitTyped'
  <2>1. /\ pending' \in Run /\ shown' \in Interrupt /\ kept' \in BOOLEAN /\ again' \in BOOLEAN
        /\ restored' \in {"none", "direct", "planned"}
    BY <1>17, RestoredTyped DEF Restore
  <2>2. [shown' EXCEPT !.kind = "question"] \in Interrupt
    BY <2>1 DEF Interrupt
  <2> QED BY <1>17, <2>1, <2>2 DEF Restore, WaitTyped
<1>18. ASSUME NEW quit, Stop(quit) PROVE WaitTyped'
  BY <1>18, NoneTyped DEF Stop, WaitTyped
<1>19. CASE ToolStep
  BY <1>1, <1>3, <1>4, <1>5, <1>19 DEF ToolStep, RepeatedCall, TooEarly, Works, Execute,
     RunCommand, Ask, Told
<1>20. CASE LeadStep /\ ~ToolStep
  BY <1>1, <1>3, <1>6, <1>7, <1>8, <1>9, <1>10, <1>11, <1>12, <1>20 DEF LeadStep, BeginCall,
     CallFails, Persist, NextTurn, Interrupted, Respond, PumpEnds, PumpRaises
<1>21. CASE Person \/ Process
  BY <1>1, <1>3, <1>13, <1>14, <1>15, <1>16, <1>17, <1>18, <1>21 DEF Person, Process, Unassigned,
     Cancel, PumpRaises, Reopen, Recover, NothingToRestore
<1> QED BY <1>1, <1>19, <1>20, <1>21 DEF Next, vars

\* The rows of every run, and the status of the session.
LEMMA RowSteps ==
  ASSUME RowTyped, PlaceTyped, GateTyped, RestTyped, [Next]_vars
  PROVE  RowTyped' /\ session' \in {"active", "interrupted", "idle"}
<1>1. ASSUME row' = row, session' \in {session, "interrupted", "idle"}
      PROVE  RowTyped' /\ session' \in {"active", "interrupted", "idle"}
  BY <1>1 DEF RowTyped, RestTyped
<1>2. CASE ToolStep
  BY <1>1, <1>2, RowsEnd, RowsOfTheLoop DEF ToolStep, Works, Execute, RunCommand, Ask, Told, rows
<1>3. CASE LeadStep /\ ~ToolStep
  BY <1>1, <1>3, RowsEnd, RowsOfTheLoop DEF LeadStep, NextTurn, Interrupted, Respond, Refer, Record,
     ResumeRaises, PumpEnds, Resume, rows
<1>4. CASE Person \/ Process
  BY <1>1, <1>4, RowsEnd, RowsOfTheLoop DEF Person, Process, Answer, PromptRefused, Stop, Reopen,
     NothingToRestore, Restore, rows
<1> QED BY <1>1, <1>2, <1>3, <1>4 DEF Next, vars, rows

\* The history of the tools, and the stops of the process.
LEMMA RestSteps ==
  ASSUME AnswerTyped, RowTyped, PlaceTyped, TurnTyped, GateTyped, WaitTyped, RestTyped, [Next]_vars
  PROVE  RestTyped'
<1>1. session' \in {"active", "interrupted", "idle"}
  BY RowSteps
<1>2. CASE UNCHANGED <<stops, worked, heard>>
  BY <1>1, <1>2 DEF RestTyped
<1>3. ASSUME NEW i, Works(i) \/ RunCommand(i) \/ Told(i) PROVE RestTyped'
  <2>1. current \in Run /\ i \in DOMAIN graph[current].state
    BY <1>3 DEF Works, RunCommand, Told, AtCall, PlaceTyped
  <2> DEFINE k == CallAt(current, i)
  <2>2. k \in Call
    BY <2>1, CallsTyped
  <2> HIDE DEF k
  <2>3. worked' \in [Run -> SUBSET Call]
    <3>1. worked' = worked \/ worked' = [worked EXCEPT ![current] = @ \cup {k}]
      BY <1>3 DEF Works, RunCommand, Told, k
    <3> QED BY <2>1, <2>2, <3>1 DEF RestTyped
  <2>4. heard' \in [Run -> [Call -> Interrupt]]
    <3>1. heard' = heard \/ heard' = [heard EXCEPT ![current][k] = reply]
      BY <1>3 DEF Works, RunCommand, Told, k
    <3>2. reply \in Interrupt /\ heard \in [Run -> [Call -> Interrupt]]
      BY DEF RestTyped, WaitTyped
    <3>3. [heard[current] EXCEPT ![k] = reply] \in [Call -> Interrupt]
      BY <2>1, <3>2
    <3>4. [heard EXCEPT ![current] = [heard[current] EXCEPT ![k] = reply]]
            \in [Run -> [Call -> Interrupt]]
      BY <2>1, <3>2, <3>3
    <3> QED BY <3>1, <3>2, <3>4
  <2>5. stops' = stops
    BY <1>3 DEF Works, RunCommand, Told
  <2> QED BY <1>1, <2>3, <2>4, <2>5 DEF RestTyped
<1>4. ASSUME NEW quit, Stop(quit) PROVE RestTyped'
  <2>1. stops < MaxStops /\ stops' = stops + 1 /\ UNCHANGED <<worked, heard>>
    BY <1>4 DEF Stop, ghosts
  <2>2. stops + 1 \in 0..MaxStops
    BY <2>1, LeadAssumption DEF RestTyped
  <2> QED BY <1>1, <2>1, <2>2 DEF RestTyped
<1>5. CASE ToolStep
  BY <1>2, <1>3, <1>5 DEF ToolStep, RepeatedCall, TooEarly, Refused, Execute, Finish, Ask, ghosts
<1>6. CASE LeadStep /\ ~ToolStep
  BY <1>2, <1>6 DEF LeadStep, BeginCall, CallFails, Persist, NextTurn, Interrupted, Respond, Park,
     Refer, Record, ResumeRaises, PumpEnds, PumpWaits, PumpBlocked, PumpRaises, Close, Resume,
     ResumeAmbiguous, ghosts
<1>7. CASE Person \/ Process
  BY <1>2, <1>4, <1>7 DEF Person, Process, Instruct, Unassigned, Answer, PromptRefused, Reject,
     Cancel, PumpRaises, Reopen, Recover, NothingToRestore, Restore, ghosts
<1> QED BY <1>2, <1>5, <1>6, <1>7 DEF Next, vars, ghosts

LEMMA TypesInit == Init => TInv
<1> SUFFICES ASSUME Init PROVE TInv
  OBVIOUS
<1> USE DEF Init
<1>1. RowTyped
  BY DEF RowTyped, Row, Statuses, Attempts
<1>2. PlaceTyped
  BY DEF PlaceTyped, Stages
<1>3. TurnTyped
  <2>1. <<>> \in Seq(States) /\ DOMAIN <<>> = {}
    OBVIOUS
  <2>2. \A r \in Run : graph[r].turn = 0 /\ graph[r].state = <<>>
    OBVIOUS
  <2>3. 0 \in 0..CallLimit
    BY LeadAssumption
  <2> QED BY <2>1, <2>2, <2>3, Zenon DEF TurnTyped
<1>4. RefTyped
  BY NoneTyped DEF RefTyped
<1>5. WaitTyped /\ GateTyped
  BY NoneTyped DEF WaitTyped, GateTyped, FreshGate, NewGate
<1>6. RestTyped
  BY NoneTyped, LeadAssumption DEF RestTyped
<1> QED BY <1>1, <1>2, <1>3, <1>4, <1>5, <1>6 DEF TInv

LEMMA TypesStay ==
  ASSUME AInv, LInv, BInv, TInv, [Next]_vars
  PROVE  TInv'
<1> USE DEF TInv
<1>1. RowTyped' /\ TurnTyped' /\ RefTyped' /\ WaitTyped' /\ GateTyped' /\ RestTyped'
  BY RowSteps, TurnSteps, RefSteps, WaitSteps, GateSteps, RestSteps DEF AInv, AnswerTyped, BInv
<1>2. PlaceTyped'
  <2>1. CASE UNCHANGED vars
    BY <2>1 DEF PlaceTyped, vars, agent
  <2> QED BY <2>1, PlaceOfTheLoop, PlaceOfOthers DEF Next, BInv
<1> QED BY <1>1, <1>2

\* The inductive invariant of the types holds in every session, with those of consent, the
\* budget, the live attempts and the answers.
THEOREM TypeInvariance == Spec => []TInv
<1>1. AInv /\ LInv /\ BInv /\ TInv /\ [Next]_vars => TInv'
  BY TypesStay
<1>2. QED
  BY <1>1, TypesInit, AnswerInvariance, LiveAttempts, BudgetInvariance, PTL DEF Spec

\* Every variable has a value the code can give it, for any number of runs and responses of
\* any width: above all, no run starts more calls than MAX_MODEL_CALLS_PER_RUN
\* (RunModelCallBudget), no more than two repairs are left (ExecutionDecisionGate), and no
\* command runs twice (ApprovalStore).
THEOREM LeadTyped == Spec => []TypeOK
<1>1. IInv /\ BInv /\ AInv /\ TInv => TypeOK
  <2> SUFFICES ASSUME IInv, BInv, AInv, TInv PROVE TypeOK
    OBVIOUS
  <2> USE DEF TInv
  <2>1. row \in [Run -> [status : {"none", "running", "blocked"} \cup Finals,
                         attempt : {"none", "running", "blocked", "succeeded", "failed",
                                    "interrupted"},
                         need : BOOLEAN, mode : {"any", "direct", "planned"},
                         decision : {"none", "direct", "planned"},
                         answered : BOOLEAN, required : BOOLEAN, bad : 0..2,
                         started : 0..CallLimit]]
    <3>1. \A r \in Run : row[r].started \in 0..CallLimit
      BY LeadAssumption DEF BInv, CallsFit
    <3> QED BY <3>1 DEF RowTyped, Row, Statuses, Attempts
  <2>2. begun \in [Run -> 0..CallLimit]
    BY LeadAssumption DEF BInv, CallsFit
  <2>3. approval \in [Run -> [Call -> {"none", "once", "consumed"}]] /\ ran \in [Run -> [Call -> 0..2]]
    <3>1. \A r \in Run : \A c \in Call : ran[r][c] \in 0..2
      <4> SUFFICES ASSUME NEW r \in Run, NEW c \in Call PROVE ran[r][c] \in 0..2
        OBVIOUS
      <4>1. ran[r][c] \in Nat
        BY DEF IInv, ConsentTyped
      <4>2. ran[r][c] <= 0 \/ ran[r][c] <= 1
        BY DEF IInv, RunsUnderConsent
      <4> QED BY <4>1, <4>2
    <3> QED BY <3>1 DEF IInv, ConsentTyped
  <2>4. ASSUME NEW r \in Run
        PROVE  /\ graph[r].resp \in Responses /\ graph[r].at \in Nat
               /\ graph[r].turn \in 0..CallLimit
               /\ Len(graph[r].state) = Len(graph[r].resp)
               /\ {graph[r].state[i] : i \in DOMAIN graph[r].state} \subseteq States
    <3>1. /\ graph[r].resp \in Responses /\ graph[r].at \in Nat
          /\ DOMAIN graph[r].state = DOMAIN graph[r].resp
      BY DEF AInv, AnswerTyped
    <3>2. graph[r].turn \in 0..CallLimit /\ graph[r].state \in Seq(States)
      BY DEF TurnTyped
    <3>3. graph[r].resp \in Seq(STRING)
      BY <3>1, LeadAssumption
    <3> QED BY <3>1, <3>2, <3>3
  <2> QED BY <2>1, <2>2, <2>3, <2>4 DEF TypeOK, AInv, AnswerTyped, GraphShape, States, PlaceTyped,
     RefTyped, WaitTyped, GateTyped, RestTyped
<1>2. QED
  BY <1>1, ConsentInvariance, BudgetInvariance, AnswerInvariance, TypeInvariance, PTL

-----------------------------------------------------------------------------
(* The decision and the answer that work rests on.                         *)

\* A decision is journaled; what the person had to be asked first is answered.
Decided == \E r \in Run : row[r].decision # "none"
AnswerGiven(r) == row[r].need => row[r].answered
Licensed(r) == Decided /\ AnswerGiven(r)

\* A question of the turn is with the person, or is being answered.
AskOpen(g) ==
  \E i \in DOMAIN g.state : g.resp[i] = "ask" /\ g.state[i] \in {"waiting", "woken", "told"}

\* The reference is one that run r can be resumed at.
AtReference(r) == ref.run = r /\ ref.live /\ ref.at = graph[r].at

\* A run decides after it was heard.
DecidedRuns ==
  \A r \in Run : row[r].decision # "none" => row[r].status # "none" /\ AnswerGiven(r)

\* The gate of the lead at work allows what the journal does: a decision of its own is
\* journaled before a tool works, and the answer that it was built with has been given, or
\* is being given by the calls that were woken.
GateFollows ==
  /\ restored # "none" => Decided
  /\ \A r \in Run : current = r =>
       /\ stage \in {"loop", "calling", "tools"} /\ gate.decision # "none" => Decided
       /\ stage \in {"loop", "calling", "judged"} /\ gate.answered => row[r].answered
       /\ stage = "tools" /\ gate.answered => row[r].answered \/ AskOpen(graph[r])
       /\ stage \in {"loop", "calling", "judged", "tools"} /\ ~resumed => kept

\* A response that has been judged and not yet recorded.
JudgedFit ==
  \A r \in Run : current = r /\ stage = "judged" =>
    /\ DOMAIN verdict = DOMAIN graph[r].resp
    /\ \A i \in DOMAIN graph[r].state : graph[r].state[i] = "todo"
    /\ gate.decision # "none" =>
         Decided \/ \E i \in DOMAIN verdict : verdict[i] = "ok" /\ KindAt(r, i) \in Decisions
    /\ \A i \in DOMAIN verdict : verdict[i] = "ok" /\ KindAt(r, i) # "ask" =>
         gate.decision # "none" /\ AnswerGiven(r)

\* A call that may work has its decision and its answer: one whose command is about to run
\* or has run, one that waits or was woken where its run can be resumed, and one that the
\* gate let through.
MayWork(r, i) ==
  \/ graph[r].state[i] \in {"granted", "ran", "told"}
  \/ /\ graph[r].state[i] \in {"waiting", "woken"}
     /\ AtReference(r) \/ (current = r /\ stage \in {"tools", "park", "refer", "record"})
  \/ graph[r].state[i] = "todo" /\ current = r /\ stage = "tools" /\ verdict[i] = "ok"
CallsLicensed ==
  \A r \in Run :
    /\ \A i \in DOMAIN graph[r].state :
         (KindAt(r, i) # "ask" \/ graph[r].state[i] = "granted") /\ MayWork(r, i) => Licensed(r)
    /\ current = r /\ stage = "tools" => DOMAIN verdict = DOMAIN graph[r].resp

\* A run with calls that nobody has looked at is past its reference.
NoneUnseen ==
  \A r \in Run : AtReference(r) => \A i \in DOMAIN graph[r].state : graph[r].state[i] # "todo"

\* What is resumed stands where its reference says.
Waits(r) == current = NoRun /\ card # None /\ pending = r
Resumes(r) == current = r /\ (stage = "resume" \/ (stage = "pump" /\ resumed))
WaitsAtRef == \A r \in Run : Waits(r) \/ Resumes(r) => AtReference(r)

\* A question put to the person is open or has been answered.
Put(r) == row[r].answered \/ AskOpen(graph[r])
Faces(r) == Waits(r) \/ (Resumes(r) /\ (stage = "pump" => card # None))
QuestionsPut ==
  \A r \in Run :
    /\ AtReference(r) /\ ref.shown.kind = "question" => Put(r)
    /\ (Faces(r) \/ (current = r /\ stage = "refer")) /\ shown.kind = "question" => Put(r)

\* A run that was parked, or is resumed, has been heard or is asking.
HeardOrAsks ==
  \A r \in Run :
    \/ AtReference(r) \/ (current = r /\ stage = "refer")
    \/ current = r /\ resumed /\ stage \in {"loop", "calling", "judged", "tools", "record"}
    => AnswerGiven(r) \/ AskOpen(graph[r])

WInv ==
  /\ DecidedRuns /\ GateFollows /\ JudgedFit /\ CallsLicensed /\ NoneUnseen /\ WaitsAtRef
  /\ QuestionsPut /\ HeardOrAsks

\* Whatever tool works, in whatever run: some run of the session has a journaled decision,
\* and its own has the answer it had to wait for.
WorkIsLicensed == [][\A r \in Run : worked'[r] # worked[r] => Licensed(r)]_vars

\* The rows forget nothing of a run, and a run decides only when it has been heard.
RowsGrow ==
  \A r \in Run :
    /\ row'[r].need = row[r].need /\ (row[r].answered => row'[r].answered)
    /\ row[r].status # "none" => row'[r].status # "none"
    /\ row[r].decision # "none" => row'[r].decision # "none"
    /\ row'[r].decision # "none" =>
         row[r].decision # "none" \/ (row[r].status # "none" /\ AnswerGiven(r))

LEMMA Grown ==
  ASSUME DecidedRuns, RowsGrow
  PROVE  /\ DecidedRuns' /\ (Decided => Decided')
         /\ \A r \in Run : AnswerGiven(r) => AnswerGiven(r)'
         /\ \A r \in Run : Licensed(r) => Licensed(r)'
<1>1. Decided => Decided'
  BY DEF Decided, RowsGrow
<1>2. ASSUME NEW r \in Run, AnswerGiven(r) PROVE AnswerGiven(r)'
  BY <1>2 DEF AnswerGiven, RowsGrow
<1>3. DecidedRuns'
  BY <1>2 DEF DecidedRuns, RowsGrow, AnswerGiven
<1> QED BY <1>1, <1>2, <1>3 DEF Licensed

Sound == AInv /\ LInv /\ TInv /\ WInv

\* Nobody is at work on a response: what waits, or is resumed, is what its reference says.
LEMMA NobodyWorks ==
  ASSUME Sound, RowsGrow, UNCHANGED <<graph, ref>>, restored' # "none" => Decided,
         stage' \notin {"loop", "calling", "judged", "tools", "park", "record", "refer"},
         \A r \in Run : (Waits(r) \/ Resumes(r))' => AtReference(r),
         \A r \in Run : Faces(r)' /\ shown'.kind = "question" => Put(r)
  PROVE  WInv'
<1> USE DEF Sound
<1>0. /\ DecidedRuns' /\ (Decided => Decided')
      /\ \A r \in Run : AnswerGiven(r) => AnswerGiven(r)'
      /\ \A r \in Run : Licensed(r) => Licensed(r)'
  BY Grown DEF WInv
<1>7. DecidedRuns' /\ (Decided => Decided')
  BY <1>0
<1>1. \A r \in Run : /\ AtReference(r)' = AtReference(r)
                     /\ Put(r) => Put(r)'
  BY DEF AtReference, Put, RowsGrow
<1>2. GateFollows' /\ JudgedFit'
  BY <1>7 DEF GateFollows, JudgedFit
<1>3. CallsLicensed'
  BY <1>0, <1>1 DEF WInv, CallsLicensed, MayWork, KindAt
<1>4. NoneUnseen' /\ WaitsAtRef'
  BY <1>1 DEF WInv, NoneUnseen, WaitsAtRef
<1>5. QuestionsPut'
  BY <1>1 DEF WInv, QuestionsPut
<1>6. HeardOrAsks'
  BY <1>0, <1>1 DEF WInv, HeardOrAsks
<1> QED BY <1>2, <1>3, <1>4, <1>5, <1>6, <1>7 DEF WInv

\* What JudgeCall does to a gate: a call that is let through, and is no question, has the
\* answer that is needed and a decision.
LEMMA JudgeCallAllows ==
  ASSUME NEW g \in Judgement, NEW need, NEW mode, NEW kind
  PROVE  \E h \in Judgement, code \in Verdicts :
           /\ JudgeCall(g, need, mode, kind) = h
           /\ h.answered = g.answered /\ h.codes = Append(g.codes, code)
           /\ code = "ok" /\ kind # "ask" => (need => g.answered) /\ h.decision # "none"
           /\ h.decision # g.decision => code = "ok" /\ kind \in Decisions /\ h.decision # "none"
<1> DEFINE h == JudgeCall(g, need, mode, kind)
<1>1. h \in Judgement
  BY JudgeCallTyped
<1>2. ASSUME NEW code \in Verdicts, NEW e \in Judgement
      PROVE  /\ Refuse(e, code).decision = e.decision /\ Refuse(e, code).answered = e.answered
             /\ Refuse(e, code).codes = Append(e.codes, code)
  BY DEF Refuse, Judgement
<1>3. ASSUME NEW code \in Verdicts \ {"ok"}
      PROVE  \E c \in Verdicts \ {"ok"} :
                /\ Repair(g, code).decision = g.decision /\ Repair(g, code).answered = g.answered
                /\ Repair(g, code).codes = Append(g.codes, c)
  <2>1. CASE g.repairs = 0
    BY <1>2, <2>1 DEF Repair, Verdicts
  <2>2. CASE g.repairs # 0
    <3>1. [g EXCEPT !.repairs = @ - 1] \in Judgement
      BY <2>2 DEF Judgement
    <3>2. Repair(g, code) = Refuse([g EXCEPT !.repairs = @ - 1], code)
      BY <2>2 DEF Repair
    <3>3. /\ [g EXCEPT !.repairs = @ - 1].decision = g.decision
          /\ [g EXCEPT !.repairs = @ - 1].answered = g.answered
          /\ [g EXCEPT !.repairs = @ - 1].codes = g.codes
      BY DEF Judgement
    <3> QED BY <1>2, <3>1, <3>2, <3>3
  <2> QED BY <2>1, <2>2
<1>4. \E code \in Verdicts :
        /\ h.answered = g.answered /\ h.codes = Append(g.codes, code)
        /\ code = "ok" /\ kind # "ask" => (need => g.answered) /\ h.decision # "none"
        /\ h.decision # g.decision => code = "ok" /\ kind \in Decisions /\ h.decision # "none"
  <2>1. CASE need /\ ~g.answered /\ kind # "ask"
    BY <1>2, <2>1 DEF JudgeCall, Verdicts
  <2>2. CASE ~(need /\ ~g.answered /\ kind # "ask") /\ kind \in Decisions
    <3>1. h = JudgeDecision(g, mode, kind)
      BY <2>2 DEF JudgeCall
    <3>2. CASE kind = "invalid" \/ (mode # "any" /\ kind # mode)
      BY <1>3, <3>1, <3>2 DEF JudgeDecision, Verdicts
    <3>3. CASE /\ ~(kind = "invalid" \/ (mode # "any" /\ kind # mode))
               /\ g.decision # "none" /\ (kind = "direct" \/ g.decision = "planned")
      BY <1>2, <3>1, <3>3 DEF JudgeDecision, Verdicts
    <3>4. CASE /\ ~(kind = "invalid" \/ (mode # "any" /\ kind # mode))
               /\ ~(g.decision # "none" /\ (kind = "direct" \/ g.decision = "planned"))
      <4>1. [g EXCEPT !.decision = kind] \in Judgement /\ kind # "none"
        BY <2>2, <3>4 DEF Judgement, Decisions
      <4>2. h = Refuse([g EXCEPT !.decision = kind], "ok")
        BY <3>1, <3>4 DEF JudgeDecision
      <4>3. /\ [g EXCEPT !.decision = kind].decision = kind
            /\ [g EXCEPT !.decision = kind].answered = g.answered
            /\ [g EXCEPT !.decision = kind].codes = g.codes
        BY DEF Judgement
      <4>4. h.decision = kind /\ h.answered = g.answered /\ h.codes = Append(g.codes, "ok")
        <5> DEFINE e == [g EXCEPT !.decision = kind]
        <5>1. e \in Judgement /\ e.decision = kind /\ e.answered = g.answered /\ e.codes = g.codes
          BY <4>1, <4>3
        <5> HIDE DEF e, h
        <5>2. h = Refuse(e, "ok")
          BY <4>2 DEF e
        <5> QED BY <1>2, <5>1, <5>2 DEF Verdicts
      <4>5. kind # "ask" /\ (need => g.answered)
        BY <2>2 DEF Decisions
      <4> HIDE DEF h
      <4> QED BY <2>2, <4>1, <4>4, <4>5 DEF Verdicts
    <3> QED BY <3>2, <3>3, <3>4
  <2>3. CASE ~(need /\ ~g.answered /\ kind # "ask") /\ kind \notin Decisions
    BY <1>2, <2>3 DEF JudgeCall, Verdicts
  <2> QED BY <2>1, <2>2, <2>3
<1> QED BY <1>1, <1>4

\* A judged response: the calls that were let through have what they need, and a decision
\* that the gate was not built with comes from one of them.
LetThrough(g, base, need, resp, n) ==
  /\ g \in Judgement /\ DOMAIN g.codes = 1..n /\ g.answered = base.answered
  /\ \A i \in 1..n : g.codes[i] = "ok" /\ resp[i] # "ask" =>
       (need => base.answered) /\ g.decision # "none"
  /\ g.decision # "none" =>
       base.decision # "none" \/ \E i \in 1..n : g.codes[i] = "ok" /\ resp[i] \in Decisions

LEMMA OneMoreIsJudged ==
  ASSUME NEW base, NEW need, NEW mode, NEW resp, NEW n \in Nat, n # 0,
         NEW g, LetThrough(g, base, need, resp, n - 1)
  PROVE  LetThrough(JudgeCall(g, need, mode, resp[n]), base, need, resp, n)
<1>1. PICK h \in Judgement, code \in Verdicts :
        /\ JudgeCall(g, need, mode, resp[n]) = h
        /\ h.answered = g.answered /\ h.codes = Append(g.codes, code)
        /\ code = "ok" /\ resp[n] # "ask" => (need => g.answered) /\ h.decision # "none"
        /\ h.decision # g.decision => code = "ok" /\ resp[n] \in Decisions /\ h.decision # "none"
  BY JudgeCallAllows DEF LetThrough
<1>2. /\ DOMAIN h.codes = 1..n /\ h.codes[n] = code
      /\ \A i \in 1..n - 1 : i \in 1..n /\ h.codes[i] = g.codes[i]
      /\ \A i \in 1..n : i = n \/ i \in 1..n - 1
  <2>1. g.codes \in Seq(Verdicts) /\ DOMAIN g.codes = 1..n - 1
    BY DEF LetThrough, Judgement
  <2>2. Len(g.codes) = n - 1
    BY <2>1
  <2> QED BY <1>1, <2>1, <2>2
<1>3. n \in 1..n
  OBVIOUS
<1>4. ASSUME NEW i \in 1..n, h.codes[i] = "ok", resp[i] # "ask"
      PROVE  (need => base.answered) /\ h.decision # "none"
  BY <1>1, <1>2, <1>4 DEF LetThrough
<1>5. ASSUME h.decision # "none", base.decision = "none"
      PROVE  \E i \in 1..n : h.codes[i] = "ok" /\ resp[i] \in Decisions
  <2>1. CASE h.decision # g.decision
    BY <1>1, <1>2, <1>3, <2>1
  <2>2. CASE h.decision = g.decision
    BY <1>2, <1>5, <2>2 DEF LetThrough
  <2> QED BY <2>1, <2>2
<1> QED BY <1>1, <1>2, <1>4, <1>5 DEF LetThrough

LEMMA JudgedAllows ==
  ASSUME NEW base \in Judgement, base.codes = <<>>, NEW need, NEW mode, NEW resp \in Responses
  PROVE  LetThrough(Judged(base, need, mode, resp), base, need, resp, Len(resp))
<1>1. PICK h : /\ JudgesAll(h, base, need, mode, resp)
               /\ Judged(base, need, mode, resp) = h[DOMAIN resp]
  BY JudgingIsDefined
<1>2. DOMAIN resp = 1..Len(resp) /\ Len(resp) \in Nat
  BY LeadAssumption
<1> DEFINE Out == {n \in Nat : n <= Len(resp) /\ ~LetThrough(h[1..n], base, need, resp, n)}
<1>3. Out = {}
  <2> SUFFICES ASSUME Out # {} PROVE FALSE
    OBVIOUS
  <2>1. PICK n \in Out : \A q \in Out : <<q, n>> \notin OpToRel(<, Nat)
    <3>1. Out \subseteq Nat
      OBVIOUS
    <3> HIDE DEF Out
    <3> QED BY <3>1, WFMin, NatLessThanWellFounded, Zenon
  <2>2. \A q \in Out : ~ (q < n)
    BY <2>1, Zenon DEF OpToRel
  <2>3. 1..n \in SUBSET DOMAIN resp /\ n \in Nat
    BY <1>2
  <2>4. h[1..n] = IF 1..n = {} THEN base
                  ELSE JudgeCall(h[(1..n) \ {Max(1..n)}], need, mode, resp[Max(1..n)])
    BY <1>1, <2>3 DEF JudgesAll
  <2>5. CASE n = 0
    <3>1. 1..n = {}
      BY <2>5
    <3> QED BY <2>4, <3>1 DEF LetThrough, Judgement
  <2>6. CASE n # 0
    <3>1. 1..n # {} /\ n - 1 \in Nat /\ n - 1 <= Len(resp) /\ n - 1 < n
      BY <1>2, <2>3, <2>6
    <3>2. Max(1..n) = n
      <4>1. Max(1..n) \in 1..n /\ \A s \in 1..n : Max(1..n) >= s
        BY <2>3, <3>1, LargestExists
      <4> QED BY <2>3, <2>6, <4>1
    <3>3. (1..n) \ {n} = 1..n - 1
      BY <2>3
    <3>4. LetThrough(h[1..n - 1], base, need, resp, n - 1)
      BY <2>2, <3>1
    <3>5. h[1..n] = JudgeCall(h[1..n - 1], need, mode, resp[n])
      BY <2>4, <3>1, <3>2, <3>3
    <3>6. LetThrough(JudgeCall(h[1..n - 1], need, mode, resp[n]), base, need, resp, n)
      BY <2>3, <2>6, <3>4, OneMoreIsJudged
    <3> QED BY <3>5, <3>6
  <2> QED BY <2>5, <2>6
<1> QED BY <1>1, <1>2, <1>3


LEMMA EndedGrows ==
  ASSUME TInv, NEW q, NEW status, NEW attempt, status # "none", Ended(q, status, attempt)
  PROVE  RowsGrow
<1>1. \A r \in Run : /\ row'[r].need = row[r].need /\ row'[r].answered = row[r].answered
                     /\ row'[r].decision = row[r].decision
                     /\ row'[r].status = row[r].status \/ row'[r].status = status
  BY DEF Ended, TInv, RowTyped, Row
<1> QED BY <1>1 DEF RowsGrow

LEMMA SameGrows == ASSUME row' = row PROVE RowsGrow
BY DEF RowsGrow

\* The run ends, and nothing waits.
LEMMA WorkEnds ==
  ASSUME Sound, RowsGrow, UNCHANGED <<graph, ref, restored>>,
         \/ stage' = "idle" /\ current' = NoRun /\ pending' = NoRun
         \/ stage' \in {"terminal", "close"} /\ current' = current /\ current \in Run
  PROVE  WInv'
<1>1. restored' # "none" => Decided
  BY DEF Sound, WInv, GateFollows
<1>2. \A r \in Run : ~(Waits(r) \/ Resumes(r))' /\ ~Faces(r)'
  BY NoRunIsNone DEF Waits, Resumes, Faces
<1> QED BY <1>1, <1>2, NobodyWorks

LEMMA WorkFails ==
  ASSUME Sound, NEW status \in {"failed", "cancelled"}, Fails(status), UNCHANGED <<graph, ref>>,
         stage \notin {"idle", "down", "recovered"}
  PROVE  WInv'
<1>1. RowsGrow
  BY EndedGrows DEF Fails, Sound
<1>2. current \in Run
  BY DEF Sound, TInv, PlaceTyped
<1> QED BY <1>1, <1>2, WorkEnds DEF Fails, Leave, Forgotten

LEMMA WorkEnding ==
  ASSUME Sound,
         \/ CallFails \/ Cancel \/ PumpEnds \/ PumpBlocked \/ ResumeAmbiguous \/ Reject
         \/ \E i : RepeatedCall(i)
         \/ \E waits : Close(waits)
         \/ \E r \in Run, status \in {"blocked", "failed"} : Unassigned(r, status)
  PROVE  WInv'
<1>1. CASE CallFails \/ Cancel \/ \E i : RepeatedCall(i)
  BY <1>1, WorkFails DEF CallFails, Cancel, RepeatedCall, AtCall, saved
<1>2. CASE PumpEnds
  <2>1. current \in Run
    BY <1>2 DEF PumpEnds, Sound, TInv, PlaceTyped
  <2> QED BY <1>2, <2>1, SameGrows, WorkEnds DEF PumpEnds, rows, saved, wait
<1>3. CASE PumpBlocked \/ ResumeAmbiguous
  BY <1>3, EndedGrows, WorkEnds DEF PumpBlocked, ResumeAmbiguous, Forgotten, saved, Sound
<1>4. CASE Reject
  <2>1. stage' = "idle" /\ current' = NoRun /\ UNCHANGED <<graph, ref, restored>>
    BY <1>4 DEF Reject, saved, wait, Forgotten, Sound, LInv, OneRun
  <2>2. RowsGrow /\ pending' = NoRun
    BY <1>4, EndedGrows, SameGrows DEF Reject, Forgotten, rows, wait, Sound
  <2> QED BY <2>1, <2>2, WorkEnds
<1>5. ASSUME NEW waits, Close(waits) PROVE WInv'
  <2>1. RowsGrow
    BY <1>5, EndedGrows DEF Close, GateBlocked, Sound
  <2>2. current \in Run
    BY <1>5 DEF Close, Sound, TInv, PlaceTyped
  <2> QED BY <1>5, <2>1, <2>2, WorkEnds DEF Close, Leave, Forgotten, saved
<1>6. ASSUME NEW r \in Run, NEW status \in {"blocked", "failed"}, Unassigned(r, status) PROVE WInv'
  <2>1. stage' = "idle" /\ current' = NoRun /\ pending' = NoRun /\ UNCHANGED <<graph, ref, restored>>
    BY <1>6 DEF Unassigned, Accepts, saved, wait, Sound, LInv, OneRun
  <2> QED BY <1>6, <2>1, EndedGrows, WorkEnds DEF Unassigned, Sound
<1> QED BY <1>1, <1>2, <1>3, <1>4, <1>5, <1>6

\* What is prepared for a resumption: the decision is one that a run has journaled.
LEMMA PreparedFits ==
  ASSUME Sound, Prepared, stage = "resume"
  PROVE  /\ restored' # "none" => Decided
         /\ shown'.kind = "question" => shown.kind = "question"
         /\ current \in Run /\ pending = current /\ pending' = pending /\ card' = card /\ kept' = kept
<1>1. current \in Run
  BY DEF Sound, TInv, PlaceTyped
<1> QED BY <1>1 DEF Prepared, Sound, WInv, GateFollows, Decided, None, AInv, Resumption

LEMMA WorkRaises ==
  ASSUME Sound, ResumeRaises \/ \E status \in {"failed", "cancelled"} : PumpRaises(status)
  PROVE  WInv'
<1>1. CASE ResumeRaises /\ stage = "resume"
  <2>1. Prepared /\ UNCHANGED <<row, graph, ref>> /\ stage' = "idle" /\ current' = NoRun
    BY <1>1 DEF ResumeRaises, Raises, rows, saved
  <2>2. \A r \in Run : Waits(r)' => Resumes(r) /\ Faces(r)
    BY <1>1, <2>1, PreparedFits DEF Waits, Resumes, Faces
  <2>3. \A r \in Run : (Waits(r) \/ Resumes(r))' => AtReference(r)
    BY <2>1, <2>2 DEF Resumes, Sound, WInv, WaitsAtRef
  <2>4. \A r \in Run : Faces(r)' /\ shown'.kind = "question" => Put(r)
    BY <1>1, <2>1, <2>2, PreparedFits DEF Resumes, Faces, Sound, WInv, QuestionsPut
  <2> QED BY <1>1, <2>1, <2>3, <2>4, PreparedFits, SameGrows, NobodyWorks
<1>2. CASE ResumeRaises /\ stage # "resume"
  <2>1. /\ stage = "record" /\ UNCHANGED <<row, graph, ref, restored, pending, card>>
        /\ stage' = "idle" /\ current' = NoRun
    BY <1>2 DEF ResumeRaises, Raises, rows, saved, wait
  <2>2. \A r \in Run : ~(Waits(r) \/ Resumes(r))' /\ ~Faces(r)'
    BY <2>1 DEF Waits, Resumes, Faces, Sound, AInv, CardFits, AtWorkOnTurn, Resumption, Working
  <2>3. restored' # "none" => Decided
    BY <2>1 DEF Sound, WInv, GateFollows
  <2> QED BY <2>1, <2>2, <2>3, SameGrows, NobodyWorks
<1>3. ASSUME NEW status \in {"failed", "cancelled"}, PumpRaises(status) PROVE WInv'
  <2>1. /\ stage = "pump" /\ UNCHANGED <<graph, ref, restored, pending, card, shown>>
        /\ stage' = "idle" /\ current' = NoRun
    BY <1>3 DEF PumpRaises, saved, wait
  <2>2. CASE ~resumed
    <3>1. pending' = NoRun
      BY <2>1, <2>2 DEF Sound, LInv, OneRun, Working
    <3> QED BY <1>3, <2>1, <2>2, <3>1, EndedGrows, WorkEnds DEF PumpRaises, Sound
  <2>3. CASE resumed
    <3>1. row' = row
      BY <1>3, <2>3 DEF PumpRaises, rows
    <3>2. \A r \in Run : Waits(r)' => Resumes(r) /\ Faces(r)
      BY <2>1, <2>3 DEF Waits, Resumes, Faces, Sound, AInv, Resumption, Working
    <3>3. \A r \in Run : (Waits(r) \/ Resumes(r))' => AtReference(r)
      BY <2>1, <3>2 DEF Resumes, Sound, WInv, WaitsAtRef
    <3>4. \A r \in Run : Faces(r)' /\ shown'.kind = "question" => Put(r)
      BY <2>1, <3>2 DEF Resumes, Faces, Sound, WInv, QuestionsPut
    <3>5. restored' # "none" => Decided
      BY <2>1 DEF Sound, WInv, GateFollows
    <3> QED BY <2>1, <3>1, <3>3, <3>4, <3>5, SameGrows, NobodyWorks
  <2> QED BY <2>2, <2>3
<1> QED BY <1>1, <1>2, <1>3

LEMMA WorkAnswers == ASSUME Sound, Answer PROVE WInv'
<1>1. /\ UNCHANGED <<row, graph, ref, restored, pending, shown>> /\ stage' = "resume"
      /\ current' = pending /\ current = NoRun /\ pending # NoRun /\ card # None
  BY DEF Answer, rows, saved, Sound, LInv, OneRun
<1>2. \A r \in Run : ~Waits(r)' /\ (Resumes(r)' => Waits(r)) /\ (Faces(r)' => Faces(r))
  BY <1>1 DEF Waits, Resumes, Faces
<1>3. \A r \in Run : (Waits(r) \/ Resumes(r))' => AtReference(r)
  BY <1>2 DEF Sound, WInv, WaitsAtRef
<1>4. \A r \in Run : Faces(r)' /\ shown'.kind = "question" => Put(r)
  BY <1>1, <1>2 DEF Sound, WInv, QuestionsPut
<1>5. restored' # "none" => Decided
  BY <1>1 DEF Sound, WInv, GateFollows
<1> QED BY <1>1, <1>3, <1>4, <1>5, SameGrows, NobodyWorks

\* A process that is opened, or recovered, finds nothing at work.
LEMMA WorkReopens == ASSUME Sound, Reopen \/ NothingToRestore \/ Recover PROVE WInv'
<1>1. /\ UNCHANGED <<graph, ref, current, restored, pending, shown, card>>
      /\ stage' \in {"idle", "recovered"}
  BY DEF Reopen, NothingToRestore, Recover, saved, wait
<1>2. RowsGrow
  <2>1. CASE Recover
    <3>1. \A r \in Run : /\ row'[r].need = row[r].need /\ row'[r].answered = row[r].answered
                         /\ row'[r].decision = row[r].decision /\ row'[r].status = row[r].status
      BY <2>1 DEF Recover, Sound, TInv, RowTyped, Row
    <3> QED BY <3>1 DEF RowsGrow
  <2>2. CASE ~Recover
    BY <2>2, SameGrows DEF Reopen, NothingToRestore, rows
  <2> QED BY <2>1, <2>2
<1>3. \A r \in Run : ~Resumes(r)' /\ (Waits(r)' => Waits(r)) /\ (Faces(r)' => Faces(r))
  BY <1>1 DEF Waits, Resumes, Faces
<1>4. \A r \in Run : (Waits(r) \/ Resumes(r))' => AtReference(r)
  BY <1>3 DEF Sound, WInv, WaitsAtRef
<1>5. \A r \in Run : Faces(r)' /\ shown'.kind = "question" => Put(r)
  BY <1>1, <1>3 DEF Sound, WInv, QuestionsPut
<1>6. restored' # "none" => Decided
  BY <1>1 DEF Sound, WInv, GateFollows
<1> QED BY <1>1, <1>2, <1>4, <1>5, <1>6, NobodyWorks

\* The run that a recovered process takes up is the one the reference stands for.
LEMMA RestoredAtRef ==
  ASSUME Sound, Restored
  PROVE  /\ Candidate \in Run /\ pending' = Candidate /\ (restored' # "none" => Decided)
         /\ stage = "recovered" => /\ AtReference(Candidate)
                                   /\ shown'.kind = "question" => Put(Candidate)
<1>1. Candidate \in Run /\ pending' = Candidate
  BY CandidateTyped DEF Restored
<1>2. restored' # "none" => Decided
  BY <1>1 DEF Restored, Decided
<1>3. ASSUME stage = "recovered" PROVE AtReference(Candidate)
  <2>1. ref.run = Candidate /\ graph[Candidate].at = ref.at
    BY <1>1, <1>3 DEF Restored, Stale, Sound, AInv, FirstExecution
  <2>2. row[Candidate].attempt = "running"
    BY <1>1, RestoredFits DEF Sound
  <2>3. ref.live
    BY <1>1, <2>1, <2>2 DEF Sound, LInv, DeadRef
  <2> QED BY <2>1, <2>3 DEF AtReference
<1>4. ASSUME stage = "recovered", shown'.kind = "question" PROVE Put(Candidate)
  <2>1. StoredQuestion(Candidate).kind # "question"
    BY DEF StoredQuestion, None
  <2>2. shown' = ref.shown
    BY <1>4, <2>1 DEF Restored
  <2> QED BY <1>1, <1>3, <1>4, <2>2 DEF Sound, WInv, QuestionsPut
<1> QED BY <1>1, <1>2, <1>3, <1>4

LEMMA WorkRestores ==
  ASSUME Sound, PromptRefused \/ \E headless \in BOOLEAN : Restore(headless) PROVE WInv'
<1>1. CASE PromptRefused
  <2>1. /\ Restored /\ UNCHANGED <<row, graph, ref>> /\ stage' = "idle" /\ card' = None
    BY <1>1 DEF PromptRefused, rows, saved
  <2>2. \A r \in Run : ~(Waits(r) \/ Resumes(r))' /\ ~Faces(r)'
    BY <2>1 DEF Waits, Resumes, Faces
  <2> QED BY <2>1, <2>2, RestoredAtRef, SameGrows, NobodyWorks
<1>2. ASSUME NEW headless \in BOOLEAN, Restore(headless) PROVE WInv'
  <2>1. /\ Restored /\ stage = "recovered" /\ UNCHANGED <<row, graph, ref>>
        /\ \/ stage' = "resume" /\ current' = Candidate
           \/ stage' = "idle" /\ current' = current
    BY <1>2 DEF Restore, rows, saved
  <2>2. \A r \in Run : (Waits(r) \/ Resumes(r))' \/ Faces(r)' => r = Candidate
    BY <2>1, RestoredAtRef DEF Waits, Resumes, Faces
  <2> QED BY <2>1, <2>2, RestoredAtRef, SameGrows, NobodyWorks
<1> QED BY <1>1, <1>2


\* A call of the response goes on, from one state to another.
LEMMA WorkGoesOn ==
  ASSUME Sound, RowsGrow, stage = "tools", NEW i, i \in DOMAIN graph[current].state,
         NEW to, Advance(i, to), to \notin {"todo", "woken"},
         UNCHANGED <<stage, current, resumed, ref, gate, verdict, pending, shown, kept, restored>>,
         to # "done" /\ (KindAt(current, i) # "ask" \/ to = "granted") => Licensed(current),
         KindAt(current, i) = "ask" /\ graph[current].state[i] \in {"waiting", "woken", "told"} =>
           to \in {"waiting", "told"} \/ row'[current].answered
  PROVE  WInv'
<1>1. current \in Run
  BY DEF Sound, TInv, PlaceTyped
<1>2. /\ \A r \in Run : /\ graph'[r].at = graph[r].at /\ graph'[r].resp = graph[r].resp
                        /\ DOMAIN graph'[r].state = DOMAIN graph[r].state
                        /\ \A j \in DOMAIN graph[r].state :
                             graph'[r].state[j] = IF r = current /\ j = i THEN to
                                                  ELSE graph[r].state[j]
  BY <1>1 DEF Advance, Sound, AInv, AnswerTyped, GraphShape
<1>3. DecidedRuns' /\ (Decided => Decided')
  BY Grown DEF Sound, WInv
<1>4. /\ \A r \in Run : AnswerGiven(r) => AnswerGiven(r)'
      /\ \A r \in Run : Licensed(r) => Licensed(r)'
  BY Grown DEF Sound, WInv
<1>5. ASSUME NEW r \in Run
      PROVE  /\ AtReference(r)' = AtReference(r)
             /\ AskOpen(graph[r]) => AskOpen(graph'[r]) \/ row'[r].answered
             /\ row[r].answered => row'[r].answered
  BY <1>1, <1>2 DEF AtReference, AskOpen, KindAt, RowsGrow
<1>6. \A r \in Run : /\ ~Waits(r)' /\ ~Resumes(r)' /\ ~Faces(r)'
                     /\ Put(r) => Put(r)'
                     /\ row'[r].answered => AnswerGiven(r)'
  BY <1>1, <1>5, NoRunIsNone DEF Waits, Resumes, Faces, Put, AnswerGiven
<1>7. GateFollows' /\ JudgedFit'
  BY <1>3, <1>5 DEF Sound, WInv, GateFollows, JudgedFit
<1>8. CallsLicensed'
  <2>1. ASSUME NEW r \in Run, NEW j \in DOMAIN graph'[r].state,
               (KindAt(r, j) # "ask" \/ graph[r].state[j] = "granted")', MayWork(r, j)'
        PROVE  Licensed(r)'
    <3>1. CASE r = current /\ j = i
      BY <1>1, <1>2, <1>4, <2>1, <3>1 DEF MayWork, KindAt
    <3>2. CASE ~(r = current /\ j = i)
      <4>1. /\ j \in DOMAIN graph[r].state /\ MayWork(r, j)
            /\ KindAt(r, j) # "ask" \/ graph[r].state[j] = "granted"
        BY <1>2, <1>5, <2>1, <3>2 DEF MayWork, KindAt
      <4> QED BY <1>4, <4>1 DEF Sound, WInv, CallsLicensed
    <3> QED BY <3>1, <3>2
  <2> QED BY <1>2, <2>1 DEF Sound, WInv, CallsLicensed
<1>9. NoneUnseen'
  BY <1>2, <1>5 DEF Sound, WInv, NoneUnseen
<1>10. WaitsAtRef'
  BY <1>6 DEF WaitsAtRef
<1>11. QuestionsPut'
  BY <1>5, <1>6 DEF Sound, WInv, QuestionsPut
<1>12. HeardOrAsks'
  BY <1>4, <1>5, <1>6 DEF Sound, WInv, HeardOrAsks
<1> QED BY <1>3, <1>7, <1>8, <1>9, <1>10, <1>11, <1>12 DEF WInv

LEMMA CallLicensed ==
  ASSUME Sound, NEW i, stage = "tools", i \in DOMAIN graph[current].state,
         KindAt(current, i) # "ask" \/ graph[current].state[i] = "granted",
         \/ graph[current].state[i] \in {"woken", "granted"}
         \/ graph[current].state[i] = "todo" /\ verdict[i] = "ok"
  PROVE  Licensed(current)
<1>1. current \in Run
  BY DEF Sound, TInv, PlaceTyped
<1> QED BY <1>1 DEF Sound, WInv, CallsLicensed, MayWork

LEMMA ColumnGrows ==
  ASSUME TInv, NEW q, NEW v,
         \/ row' = [row EXCEPT ![q].started = v]
         \/ row' = [row EXCEPT ![q].required = v]
         \/ row' = [row EXCEPT ![q].bad = v]
         \/ row' = [row EXCEPT ![q].status = v] /\ v # "none"
         \/ row' = [row EXCEPT ![q].answered = v] /\ (row[q].answered => v)
  PROVE  RowsGrow
<1>1. \A r \in Run : /\ row'[r].need = row[r].need /\ row'[r].decision = row[r].decision
                     /\ row'[r].status = row[r].status \/ row'[r].status # "none"
                     /\ row'[r].answered = row[r].answered \/ (row[r].answered => row'[r].answered)
  BY DEF TInv, RowTyped, Row
<1> QED BY <1>1 DEF RowsGrow

LEMMA WorkTools ==
  ASSUME Sound, NEW i, \/ TooEarly(i) \/ Refused(i) \/ Works(i) \/ Execute(i) \/ RunCommand(i)
                       \/ Finish(i) \/ Ask(i) \/ Told(i)
  PROVE  WInv'
<1>1. /\ stage = "tools" /\ i \in DOMAIN graph[current].state /\ current \in Run
  BY DEF TooEarly, Refused, Works, Execute, RunCommand, Finish, Ask, Told, AtCall, Sound, TInv,
         PlaceTyped
<1>2. CASE TooEarly(i)
  <2>1. RowsGrow
    <3>1. \E v : row' = [row EXCEPT ![current].required = v]
      BY <1>2 DEF TooEarly
    <3> QED BY <3>1, ColumnGrows DEF Sound
  <2> QED BY <1>1, <1>2, <2>1, WorkGoesOn DEF TooEarly, AtCall, wait
<1>3. CASE Refused(i)
  <2>1. PICK bad : /\ bad = row \/ \E v : bad = [row EXCEPT ![current].bad = v]
                   /\ \/ /\ row' = [bad EXCEPT ![current].status = "failed",
                                               ![current].attempt = "failed"]
                         /\ Leave /\ UNCHANGED graph
                      \/ row' = bad /\ UNCHANGED <<stage, current, wait>> /\ Advance(i, "done")
    BY <1>3, Zenon DEF Refused
  <2>2. UNCHANGED <<ref, resumed, gate, verdict>> /\ graph[current].state[i] = "todo"
    BY <1>3 DEF Refused, AtCall
  <2>3. CASE /\ row' = [bad EXCEPT ![current].status = "failed", ![current].attempt = "failed"]
             /\ Leave /\ UNCHANGED graph
    <3>1. \A r \in Run : /\ row'[r].need = row[r].need /\ row'[r].answered = row[r].answered
                         /\ row'[r].decision = row[r].decision
                         /\ row'[r].status = row[r].status \/ row'[r].status = "failed"
      BY <2>1, <2>3 DEF Sound, TInv, RowTyped, Row
    <3>2. RowsGrow
      BY <3>1 DEF RowsGrow
    <3> QED BY <1>1, <2>2, <2>3, <3>2, WorkEnds DEF Leave, Forgotten
  <2>4. CASE row' = bad /\ UNCHANGED <<stage, current, wait>> /\ Advance(i, "done")
    <3>1. RowsGrow
      BY <2>1, <2>4, SameGrows, ColumnGrows DEF Sound
    <3> QED BY <1>1, <2>2, <2>4, <3>1, WorkGoesOn DEF wait
  <2> QED BY <2>1, <2>3, <2>4
<1>4. CASE Works(i)
  BY <1>1, <1>4, SameGrows, WorkGoesOn DEF Works, AtCall, rows, wait
<1>5. CASE Execute(i)
  <2>1. KindAt(current, i) # "ask" /\ Licensed(current)
    BY <1>1, <1>5, CallLicensed DEF Execute, AtCall, Commands
  <2> QED BY <1>1, <1>5, <2>1, SameGrows, WorkGoesOn DEF Execute, AtCall, rows, wait
<1>6. CASE RunCommand(i)
  <2>1. Licensed(current)
    BY <1>1, <1>6, CallLicensed DEF RunCommand, AtCall
  <2> QED BY <1>1, <1>6, <2>1, SameGrows, WorkGoesOn DEF RunCommand, AtCall, rows, wait, agent
<1>7. CASE Finish(i)
  <2>1. row' = [row EXCEPT ![current].answered = row[current].answered \/ KindAt(current, i) = "ask"]
    BY <1>7 DEF Finish
  <2>2. RowsGrow
    BY <2>1, ColumnGrows DEF Sound
  <2>3. KindAt(current, i) = "ask" => row'[current].answered
    BY <1>1, <2>1 DEF Sound, TInv, RowTyped, Row
  <2> QED BY <1>1, <1>7, <2>2, <2>3, WorkGoesOn DEF Finish, AtCall
<1>8. CASE Ask(i) \/ Told(i)
  BY <1>1, <1>8, SameGrows, WorkGoesOn DEF Ask, Told, AtCall, rows, wait
<1> QED BY <1>2, <1>3, <1>4, <1>5, <1>6, <1>7, <1>8


\* What is said of a run that is left alone.
LEMMA LeftAlone ==
  ASSUME Sound, NEW r \in Run, graph'[r] = graph[r], AtReference(r)' => AtReference(r),
         ~(current = r)', DecidedRuns' /\ (Decided => Decided'),
         row'[r].answered = row[r].answered, row'[r].need = row[r].need
  PROVE  /\ \A i \in DOMAIN graph'[r].state :
              (KindAt(r, i) # "ask" \/ graph[r].state[i] = "granted")' /\ MayWork(r, i)'
              => Licensed(r)'
         /\ AtReference(r)' =>
              /\ \A i \in DOMAIN graph'[r].state : graph'[r].state[i] # "todo"
              /\ ref.shown.kind = "question" => Put(r)'
              /\ (AnswerGiven(r) \/ AskOpen(graph[r]))'
<1>1. (Put(r) => Put(r)') /\ (AnswerGiven(r) => AnswerGiven(r)') /\ (Licensed(r) => Licensed(r)')
  BY DEF Put, AnswerGiven, Licensed
<1>2. \A i : MayWork(r, i)' /\ (KindAt(r, i) # "ask" \/ graph[r].state[i] = "granted")'
             => MayWork(r, i) /\ (KindAt(r, i) # "ask" \/ graph[r].state[i] = "granted")
  BY DEF MayWork, KindAt
<1> QED BY <1>1, <1>2 DEF Sound, WInv, CallsLicensed, NoneUnseen, QuestionsPut, HeardOrAsks

\* The model is called, and answers.
LEMMA WorkCalls == ASSUME Sound, BeginCall PROVE WInv'
<1>1. /\ stage = "loop" /\ stage' = "calling" /\ current \in Run
      /\ UNCHANGED <<graph, ref, current, resumed, gate, verdict, wait>>
  BY DEF BeginCall, saved, Sound, TInv, PlaceTyped
<1>2. RowsGrow
  <2>1. row' = [row EXCEPT ![current].started = row[current].started + 1]
    BY DEF BeginCall
  <2> QED BY <2>1, ColumnGrows DEF Sound
<1>3. DecidedRuns' /\ (Decided => Decided')
  BY <1>2, Grown DEF Sound, WInv
<1>4. \A r \in Run : /\ AnswerGiven(r) => AnswerGiven(r)'
                     /\ Licensed(r) => Licensed(r)'
  BY <1>2, Grown DEF Sound, WInv
<1>5. \A r \in Run : /\ AtReference(r)' = AtReference(r) /\ (Put(r) => Put(r)')
                     /\ row[r].answered => row'[r].answered
                     /\ ~Waits(r)' /\ ~Resumes(r)' /\ ~Faces(r)'
  BY <1>1, <1>2, NoRunIsNone DEF AtReference, Put, RowsGrow, Waits, Resumes, Faces
<1>6. GateFollows' /\ JudgedFit'
  BY <1>1, <1>3, <1>5 DEF Sound, WInv, GateFollows, JudgedFit, wait
<1>7. CallsLicensed' /\ NoneUnseen'
  BY <1>1, <1>4, <1>5 DEF Sound, WInv, CallsLicensed, MayWork, KindAt, NoneUnseen
<1>8. WaitsAtRef' /\ QuestionsPut' /\ HeardOrAsks'
  BY <1>1, <1>4, <1>5 DEF Sound, WInv, WaitsAtRef, QuestionsPut, HeardOrAsks
<1> QED BY <1>3, <1>6, <1>7, <1>8 DEF WInv

LEMMA WorkIsJudged == ASSUME Sound, NEW resp \in Responses, Respond(resp) PROVE WInv'
<1> DEFINE base == [decision |-> gate.decision, repairs |-> gate.repairs,
                    answered |-> gate.answered, codes |-> <<>>]
           g == Judge(current, resp)
<1>1. /\ stage = "calling" /\ stage' = "judged" /\ current \in Run /\ current' = current
      /\ UNCHANGED <<row, ref, resumed, wait>> /\ verdict' = g.codes
      /\ gate'.decision = g.decision /\ gate'.answered = g.answered
      /\ \A r \in Run : r # current => graph'[r] = graph[r]
      /\ graph'[current].at = graph[current].at + 1 /\ graph'[current].resp = resp
      /\ graph'[current].state = [i \in DOMAIN resp |-> "todo"]
  BY DEF Respond, rows, Sound, TInv, PlaceTyped, AInv, AnswerTyped, GraphShape
<1>2. LetThrough(g, base, Need(current), resp, Len(resp))
  <2>1. base \in Judgement /\ base.codes = <<>>
    BY DEF Sound, TInv, GateTyped, Judgement
  <2>2. g = Judged(base, Need(current), Mode(current), resp)
    BY DEF Judge, Judged
  <2> HIDE DEF base, g
  <2> QED BY <2>1, <2>2, JudgedAllows
<1>3. DOMAIN resp = 1..Len(resp) /\ DOMAIN graph'[current].state = DOMAIN resp
  BY <1>1, LeadAssumption
<1>4. base.decision = gate.decision /\ base.answered = gate.answered
  OBVIOUS
<1> HIDE DEF base, g
<1>5. /\ resumed => AnswerGiven(current)
      /\ gate.answered => row[current].answered
      /\ ~resumed => kept
  <2>1. ~AskOpen(graph[current])
    BY <1>1 DEF AskOpen, Sound, AInv, Turns
  <2> QED BY <1>1, <2>1 DEF Sound, WInv, HeardOrAsks, GateFollows
<1>6. AnswerGiven(current)' = AnswerGiven(current) /\ Decided' = Decided /\ DecidedRuns'
  BY <1>1 DEF AnswerGiven, Decided, Sound, WInv, DecidedRuns
<1>7. ~AtReference(current)'
  BY <1>1 DEF AtReference, Sound, AInv, RefStands, AnswerTyped
<1>8. \A r \in Run : r # current => (AtReference(r)' => AtReference(r))
  BY <1>1 DEF AtReference
<1>9. (Need(current) => gate.answered) => AnswerGiven(current)
  BY <1>5 DEF Need, AnswerGiven
<1>10. \A r \in Run : ~Waits(r)' /\ ~Resumes(r)' /\ ~Faces(r)'
  BY <1>1, NoRunIsNone DEF Waits, Resumes, Faces
<1>11. GateFollows'
  BY <1>1, <1>2, <1>4, <1>5, <1>6 DEF LetThrough, Sound, WInv, GateFollows, wait
<1>12. JudgedFit'
  <2>1. ASSUME NEW i \in DOMAIN verdict', verdict'[i] = "ok", KindAt(current, i)' # "ask"
        PROVE  gate'.decision # "none" /\ AnswerGiven(current)'
    BY <1>1, <1>2, <1>4, <1>6, <1>9, <2>1 DEF LetThrough, KindAt
  <2>2. ASSUME gate'.decision # "none"
        PROVE  Decided' \/ \E i \in DOMAIN verdict' :
                             verdict'[i] = "ok" /\ KindAt(current, i)' \in Decisions
    <3>1. CASE gate.decision # "none"
      BY <1>1, <1>6, <3>1 DEF Sound, WInv, GateFollows
    <3>2. CASE gate.decision = "none"
      BY <1>1, <1>2, <1>4, <2>2, <3>2 DEF LetThrough, KindAt
    <3> QED BY <3>1, <3>2
  <2>3. DOMAIN verdict' = DOMAIN graph'[current].resp
    BY <1>1, <1>2, <1>3 DEF LetThrough
  <2>4. \A i \in DOMAIN graph'[current].state : graph'[current].state[i] = "todo"
    BY <1>1
  <2> QED BY <1>1, <2>1, <2>2, <2>3, <2>4 DEF JudgedFit
<1>13. ASSUME NEW r \in Run, r # current
       PROVE  /\ \A i \in DOMAIN graph'[r].state :
                   (KindAt(r, i) # "ask" \/ graph[r].state[i] = "granted")' /\ MayWork(r, i)'
                   => Licensed(r)'
              /\ AtReference(r)' =>
                   /\ \A i \in DOMAIN graph'[r].state : graph'[r].state[i] # "todo"
                   /\ ref.shown.kind = "question" => Put(r)'
                   /\ (AnswerGiven(r) \/ AskOpen(graph[r]))'
  BY <1>1, <1>6, <1>8, <1>13, LeftAlone
<1>14. CallsLicensed'
  <2>1. ~ \E i \in DOMAIN graph'[current].state : MayWork(current, i)'
    BY <1>1 DEF MayWork
  <2> QED BY <1>1, <1>13, <2>1 DEF CallsLicensed
<1>15. NoneUnseen' /\ WaitsAtRef' /\ QuestionsPut'
  BY <1>1, <1>7, <1>10, <1>13 DEF NoneUnseen, WaitsAtRef, QuestionsPut
<1>16. HeardOrAsks'
  BY <1>1, <1>5, <1>6, <1>7, <1>13 DEF HeardOrAsks
<1> QED BY <1>6, <1>11, <1>12, <1>14, <1>15, <1>16 DEF WInv

\* The decision is journaled, and the calls go to their tools.
LEMMA WorkPersists == ASSUME Sound, Persist PROVE WInv'
<1> DEFINE admitted == \E i \in DOMAIN verdict : verdict[i] = "ok" /\ KindAt(current, i) \in Decisions
<1>1. /\ stage = "judged" /\ stage' \in {"tools", "record", "pump"} /\ current \in Run
      /\ stage' = "pump" => ~resumed
      /\ UNCHANGED <<graph, ref, current, resumed, gate, verdict, wait>>
      /\ row' = IF admitted THEN [row EXCEPT ![current].decision = gate.decision] ELSE row
  BY DEF Persist, saved, agent, Sound, TInv, PlaceTyped
<1>2. admitted => gate.decision # "none" /\ AnswerGiven(current)
  BY <1>1 DEF Sound, WInv, JudgedFit, Decisions
<1>3. /\ \A r \in Run : /\ row'[r].need = row[r].need /\ row'[r].answered = row[r].answered
                        /\ row'[r].status = row[r].status
                        /\ row'[r].decision = IF admitted /\ r = current THEN gate.decision
                                              ELSE row[r].decision
  BY <1>1 DEF Sound, TInv, RowTyped, Row
<1>4. row[current].status # "none"
  BY <1>1 DEF Sound, LInv, AttemptsRun
<1>5. RowsGrow /\ (admitted => Decided')
  BY <1>1, <1>2, <1>3, <1>4 DEF RowsGrow, Decided
<1>6. gate.decision # "none" => Decided \/ admitted
  BY <1>1 DEF Sound, WInv, JudgedFit
<1>7. \A i \in DOMAIN verdict : verdict[i] = "ok" /\ KindAt(current, i) # "ask" =>
        gate.decision # "none" /\ AnswerGiven(current)
  BY <1>1 DEF Sound, WInv, JudgedFit
<1> HIDE DEF admitted
<1>8. DecidedRuns' /\ (Decided => Decided')
  BY <1>5, Grown DEF Sound, WInv
<1>9. \A r \in Run : /\ AnswerGiven(r) => AnswerGiven(r)'
                     /\ Licensed(r) => Licensed(r)'
  BY <1>5, Grown DEF Sound, WInv
<1>10. \A r \in Run : /\ AtReference(r)' = AtReference(r) /\ (Put(r) => Put(r)')
                      /\ row[r].answered => row'[r].answered
                      /\ ~Waits(r)' /\ ~Resumes(r)' /\ ~Faces(r)'
  BY <1>1, <1>3, NoRunIsNone DEF AtReference, Put, Waits, Resumes, Faces
<1>11. GateFollows' /\ JudgedFit'
  BY <1>1, <1>5, <1>6, <1>8, <1>10 DEF Sound, WInv, GateFollows, JudgedFit, wait
<1>12. CallsLicensed'
  <2>1. DOMAIN verdict = DOMAIN graph[current].resp
    BY <1>1 DEF Sound, WInv, JudgedFit
  <2>2. ASSUME NEW i \in DOMAIN graph[current].state,
               (KindAt(current, i) # "ask" \/ graph[current].state[i] = "granted")',
               MayWork(current, i)'
        PROVE  Licensed(current)'
    <3>1. graph[current].state[i] = "todo"
      BY <1>1 DEF Sound, WInv, JudgedFit
    <3>2. verdict[i] = "ok" /\ KindAt(current, i) # "ask"
      BY <1>1, <2>2, <3>1 DEF MayWork, KindAt
    <3>3. i \in DOMAIN verdict
      BY <1>1, <2>1 DEF Sound, AInv, AnswerTyped
    <3>4. gate.decision # "none" /\ AnswerGiven(current)
      BY <1>7, <3>2, <3>3
    <3>5. Decided'
      BY <1>5, <1>6, <1>8, <3>4
    <3>6. AnswerGiven(current)'
      BY <1>1, <1>9, <3>4
    <3> QED BY <3>5, <3>6 DEF Licensed
  <2>3. ASSUME NEW r \in Run, r # current, NEW i \in DOMAIN graph[r].state,
               (KindAt(r, i) # "ask" \/ graph[r].state[i] = "granted")', MayWork(r, i)'
        PROVE  Licensed(r)'
    BY <1>1, <1>9, <1>10, <2>3 DEF Sound, WInv, CallsLicensed, MayWork, KindAt
  <2> QED BY <1>1, <2>1, <2>2, <2>3 DEF CallsLicensed
<1>13. NoneUnseen' /\ WaitsAtRef' /\ QuestionsPut'
  BY <1>1, <1>10 DEF Sound, WInv, NoneUnseen, WaitsAtRef, QuestionsPut
<1>14. HeardOrAsks'
  BY <1>1, <1>9, <1>10 DEF Sound, WInv, HeardOrAsks
<1> QED BY <1>8, <1>11, <1>12, <1>13, <1>14 DEF WInv


\* The tools have ended: the lead is called again, or the run waits.
LEMMA WorkTurns == ASSUME Sound, NextTurn PROVE WInv'
<1>1. /\ stage = "tools" /\ stage' = "loop" /\ current \in Run /\ current' = current
      /\ UNCHANGED <<row, ref, resumed, gate, wait>>
      /\ \A r \in Run : r # current => graph'[r] = graph[r]
      /\ graph'[current].at = graph[current].at + 1 /\ graph'[current].state = <<>>
  BY DEF NextTurn, rows, Sound, TInv, PlaceTyped, AInv, AnswerTyped, GraphShape
<1>2. ~AskOpen(graph[current])
  BY DEF NextTurn, Settled, Waiting, AskOpen
<1>3. DOMAIN graph'[current].state = {}
  BY <1>1
<1>4. AnswerGiven(current)' = AnswerGiven(current) /\ Decided' = Decided /\ DecidedRuns'
  BY <1>1 DEF AnswerGiven, Decided, Sound, WInv, DecidedRuns
<1>5. ~AtReference(current)'
  BY <1>1 DEF AtReference, Sound, AInv, RefStands, AnswerTyped
<1>6. \A r \in Run : r # current => (AtReference(r)' => AtReference(r))
  BY <1>1 DEF AtReference
<1>7. \A r \in Run : ~Waits(r)' /\ ~Resumes(r)' /\ ~Faces(r)'
  BY <1>1, NoRunIsNone DEF Waits, Resumes, Faces
<1>8. GateFollows' /\ JudgedFit'
  BY <1>1, <1>2, <1>4 DEF Sound, WInv, GateFollows, JudgedFit, wait
<1>9. ASSUME NEW r \in Run, r # current
      PROVE  /\ \A i \in DOMAIN graph'[r].state :
                  (KindAt(r, i) # "ask" \/ graph[r].state[i] = "granted")' /\ MayWork(r, i)'
                  => Licensed(r)'
             /\ AtReference(r)' =>
                  /\ \A i \in DOMAIN graph'[r].state : graph'[r].state[i] # "todo"
                  /\ ref.shown.kind = "question" => Put(r)'
                  /\ (AnswerGiven(r) \/ AskOpen(graph[r]))'
  BY <1>1, <1>4, <1>6, <1>9, LeftAlone
<1>10. CallsLicensed'
  BY <1>1, <1>3, <1>9 DEF CallsLicensed
<1>11. NoneUnseen' /\ WaitsAtRef' /\ QuestionsPut'
  BY <1>1, <1>5, <1>7, <1>9 DEF NoneUnseen, WaitsAtRef, QuestionsPut
<1>12. HeardOrAsks'
  <2>1. resumed => AnswerGiven(current)
    BY <1>1, <1>2 DEF Sound, WInv, HeardOrAsks
  <2> QED BY <1>1, <1>4, <1>5, <1>9, <2>1 DEF HeardOrAsks
<1> QED BY <1>4, <1>8, <1>10, <1>11, <1>12 DEF WInv

LEMMA WorkStops == ASSUME Sound, Interrupted PROVE WInv'
<1>1. /\ stage = "tools" /\ stage' \in {"record", "park"} /\ (stage' = "record" => resumed)
      /\ current \in Run /\ UNCHANGED <<row, graph, ref, current, resumed, gate, verdict, wait>>
  BY DEF Interrupted, rows, saved, agent, Sound, TInv, PlaceTyped
<1>2. /\ \A r \in Run : /\ AnswerGiven(r)' = AnswerGiven(r) /\ Licensed(r)' = Licensed(r)
                        /\ AtReference(r)' = AtReference(r) /\ Put(r)' = Put(r)
                        /\ ~Waits(r)' /\ ~Resumes(r)' /\ ~Faces(r)'
      /\ Decided' = Decided /\ DecidedRuns'
  BY <1>1, NoRunIsNone DEF AnswerGiven, Licensed, Decided, AtReference, Put, Waits, Resumes, Faces,
     Sound, WInv, DecidedRuns
<1>3. GateFollows' /\ JudgedFit' /\ WaitsAtRef'
  BY <1>1, <1>2 DEF Sound, WInv, GateFollows, JudgedFit, WaitsAtRef, wait
<1>4. CallsLicensed' /\ NoneUnseen'
  BY <1>1, <1>2 DEF Sound, WInv, CallsLicensed, MayWork, KindAt, NoneUnseen
<1>5. QuestionsPut' /\ HeardOrAsks'
  BY <1>1, <1>2 DEF Sound, WInv, QuestionsPut, HeardOrAsks
<1> QED BY <1>2, <1>3, <1>4, <1>5 DEF WInv

\* What is shown of calls that wait is a question of one of them, if it is a question.
LEMMA FirstIsPut ==
  ASSUME AnswerTyped, NEW r \in Run, Waiting(r) # {}
  PROVE  FirstInterrupt(r).kind = "question" => AskOpen(graph[r])
<1>1. Waiting(r) \subseteq Nat
  <2>1. graph[r].resp \in Responses /\ DOMAIN graph[r].state = DOMAIN graph[r].resp
    BY DEF AnswerTyped
  <2>2. DOMAIN graph[r].resp = 1..Len(graph[r].resp)
    BY <2>1, LeadAssumption
  <2> QED BY <2>1, <2>2 DEF Waiting
<1>2. Min(Waiting(r)) \in Waiting(r)
  BY <1>1, SmallestExists
<1> QED BY <1>2 DEF FirstInterrupt, Waiting, AskOpen, KindAt

LEMMA WorkParks == ASSUME Sound, Park \/ PumpWaits PROVE WInv'
<1>1. /\ stage \in {"park", "pump"} /\ stage' = "refer" /\ current \in Run /\ ~resumed
      /\ pending' = current
      /\ UNCHANGED <<graph, ref, current, resumed, gate, verdict, card, kept, restored>>
  BY DEF Park, PumpWaits, saved, agent, Sound, TInv, PlaceTyped, LInv, OneRun
<1>2. \A r \in Run : /\ row'[r].need = row[r].need /\ row'[r].answered = row[r].answered
                     /\ row'[r].decision = row[r].decision
                     /\ row'[r].status = row[r].status \/ row'[r].status = "blocked"
  BY DEF Park, PumpWaits, Sound, TInv, RowTyped, Row
<1>3. RowsGrow
  BY <1>2 DEF RowsGrow
<1>4. DecidedRuns' /\ (Decided => Decided')
  BY <1>3, Grown DEF Sound, WInv
<1>5. \A r \in Run : /\ AnswerGiven(r)' = AnswerGiven(r) /\ (Licensed(r) => Licensed(r)')
                     /\ AtReference(r)' = AtReference(r) /\ Put(r)' = Put(r)
                     /\ ~Waits(r)' /\ ~Resumes(r)' /\ ~Faces(r)'
  BY <1>1, <1>2, <1>4, NoRunIsNone DEF AnswerGiven, Licensed, AtReference, Put, Waits, Resumes,
     Faces
<1>6. CASE Park
  <2>1. stage = "park" /\ Waiting(current) # {}
    <3>1. OpenOf(graph[current]) # {} /\ Rests(graph[current])
      BY <1>1, <1>6 DEF Park, Sound, AInv, FirstExecution, CallsRest, LInv, AttemptsRun
    <3> QED BY <1>6, <3>1 DEF Park, Rests, OpenOf, Waiting
  <2>2. shown'.kind = "question" => Put(current)
    BY <1>1, <1>6, <2>1, FirstIsPut DEF Park, Put, Sound, AInv
  <2>3. AnswerGiven(current) \/ AskOpen(graph[current])
    <3>1. PICK i : i \in Waiting(current)
      BY <2>1
    <3>2. KindAt(current, i) # "ask" => Licensed(current)
      BY <1>1, <2>1, <3>1 DEF Waiting, MayWork, Sound, WInv, CallsLicensed
    <3>3. KindAt(current, i) = "ask" => AskOpen(graph[current])
      BY <3>1 DEF Waiting, AskOpen, KindAt
    <3> QED BY <3>2, <3>3 DEF Licensed
  <2>4. GateFollows' /\ JudgedFit' /\ WaitsAtRef'
    BY <1>1, <1>4, <1>5 DEF Sound, WInv, GateFollows, JudgedFit, WaitsAtRef
  <2>5. CallsLicensed' /\ NoneUnseen'
    BY <1>1, <1>5, <2>1 DEF Sound, WInv, CallsLicensed, MayWork, KindAt, NoneUnseen
  <2>6. QuestionsPut' /\ HeardOrAsks'
    BY <1>1, <1>5, <2>2, <2>3 DEF Sound, WInv, QuestionsPut, HeardOrAsks
  <2> QED BY <1>4, <2>4, <2>5, <2>6 DEF WInv
<1>7. CASE PumpWaits
  <2>1. /\ stage = "pump" /\ shown'.kind = "tool" /\ row[current].decision = "planned"
    BY <1>7 DEF PumpWaits
  <2>2. DOMAIN graph[current].state = {}
    BY <1>1, <2>1 DEF Sound, AInv, Turns
  <2>3. AnswerGiven(current)
    BY <1>1, <2>1 DEF Sound, WInv, DecidedRuns
  <2>4. GateFollows' /\ JudgedFit' /\ WaitsAtRef'
    BY <1>1, <1>4, <1>5 DEF Sound, WInv, GateFollows, JudgedFit, WaitsAtRef
  <2>5. CallsLicensed' /\ NoneUnseen'
    BY <1>1, <1>5, <2>2 DEF Sound, WInv, CallsLicensed, MayWork, KindAt, NoneUnseen
  <2>6. QuestionsPut' /\ HeardOrAsks'
    BY <1>1, <1>5, <2>1, <2>3 DEF Sound, WInv, QuestionsPut, HeardOrAsks
  <2> QED BY <1>4, <2>4, <2>5, <2>6 DEF WInv
<1> QED BY <1>6, <1>7

\* The reference is saved, by a first execution or by a resumption.
LEMMA RestsHere ==
  ASSUME Sound, stage \in {"refer", "record"}
  PROVE  /\ current \in Run /\ pending = current
         /\ \A i \in DOMAIN graph[current].state : graph[current].state[i] \in {"waiting", "done"}
<1>1. current \in Run
  BY DEF Sound, TInv, PlaceTyped
<1>2. Rests(graph[current])
  BY <1>1 DEF Sound, AInv, CallsRest, LInv, AttemptsRun
<1> QED BY <1>1, <1>2 DEF Rests, OpenOf, Sound, AInv, Resumption, Working

LEMMA WorkRefers == ASSUME Sound, Refer PROVE WInv'
<1>1. /\ stage \in {"refer", "terminal"} /\ stage' = "idle" /\ current' = NoRun /\ current \in Run
      /\ UNCHANGED <<row, graph, pending, shown, restored>>
      /\ ref'.run = current /\ ref'.at = graph[current].at /\ ref'.live = (stage = "refer")
      /\ stage = "refer" => ref'.shown = shown
  BY DEF Refer, rows, Sound, TInv, PlaceTyped
<1>2. /\ \A r \in Run : /\ AnswerGiven(r)' = AnswerGiven(r) /\ Licensed(r)' = Licensed(r)
                        /\ Put(r)' = Put(r)
                        /\ AtReference(r)' = (r = current /\ stage = "refer")
      /\ Decided' = Decided /\ DecidedRuns'
  BY <1>1 DEF AnswerGiven, Licensed, Decided, Put, AtReference, Sound, WInv, DecidedRuns
<1>3. \A r \in Run : ~Resumes(r)' /\ (Waits(r)' \/ Faces(r)' => r = current /\ stage = "refer")
  <2>1. stage = "terminal" => pending = NoRun
    BY DEF Sound, LInv, OneRun, Working
  <2> QED BY <1>1, <2>1, NoRunIsNone, RestsHere DEF Waits, Resumes, Faces
<1>4. GateFollows' /\ JudgedFit' /\ WaitsAtRef'
  BY <1>1, <1>2, <1>3, NoRunIsNone DEF Sound, WInv, GateFollows, JudgedFit, WaitsAtRef
<1>5. CallsLicensed'
  BY <1>1, <1>2, NoRunIsNone DEF Sound, WInv, CallsLicensed, MayWork, KindAt
<1>6. NoneUnseen'
  BY <1>1, <1>2, RestsHere DEF NoneUnseen
<1>7. QuestionsPut'
  BY <1>1, <1>2, <1>3, NoRunIsNone DEF Sound, WInv, QuestionsPut
<1>8. HeardOrAsks'
  BY <1>1, <1>2, NoRunIsNone DEF Sound, WInv, HeardOrAsks
<1> QED BY <1>2, <1>4, <1>5, <1>6, <1>7, <1>8 DEF WInv

LEMMA WorkRecords == ASSUME Sound, Record PROVE WInv'
<1>1. /\ stage = "record" /\ resumed /\ current \in Run /\ pending = current
      /\ UNCHANGED <<row, graph, resumed, pending, restored>>
      /\ ref'.run = current /\ ref'.at = graph[current].at /\ ref'.live /\ ref'.shown = None
  BY RestsHere DEF Record, LiveAttempt, Sound, AInv, Resumption
<1>2. \/ Waiting(current) = {} /\ stage' = "pump" /\ current' = current /\ UNCHANGED card
      \/ /\ Waiting(current) # {} /\ stage' = "idle" /\ current' = NoRun
         /\ shown' = FirstInterrupt(current)
  BY DEF Record
<1>3. card = None
  BY <1>1 DEF Sound, AInv, CardFits, AtWorkOnTurn
<1>4. /\ \A r \in Run : /\ AnswerGiven(r)' = AnswerGiven(r) /\ Licensed(r)' = Licensed(r)
                        /\ Put(r)' = Put(r) /\ AtReference(r)' = (r = current)
      /\ Decided' = Decided /\ DecidedRuns'
  BY <1>1 DEF AnswerGiven, Licensed, Decided, Put, AtReference, Sound, WInv, DecidedRuns
<1>5. \A r \in Run : /\ Waits(r)' \/ Resumes(r)' => r = current
                     /\ Faces(r)' => r = current /\ Waiting(current) # {}
  BY <1>1, <1>2, <1>3, NoRunIsNone DEF Waits, Resumes, Faces
<1>6. GateFollows' /\ JudgedFit' /\ WaitsAtRef'
  BY <1>1, <1>2, <1>4, <1>5 DEF Sound, WInv, GateFollows, JudgedFit, WaitsAtRef
<1>7. CallsLicensed'
  BY <1>1, <1>2, <1>4 DEF Sound, WInv, CallsLicensed, MayWork, KindAt
<1>8. NoneUnseen'
  BY <1>1, <1>4, RestsHere DEF NoneUnseen
<1>9. QuestionsPut'
  <2>1. Waiting(current) # {} /\ FirstInterrupt(current).kind = "question" => Put(current)
    BY <1>1, FirstIsPut DEF Put, Sound, AInv
  <2> QED BY <1>1, <1>2, <1>4, <1>5, <2>1 DEF QuestionsPut, None
<1>10. HeardOrAsks'
  BY <1>1, <1>2, <1>4 DEF Sound, WInv, HeardOrAsks
<1> QED BY <1>4, <1>6, <1>7, <1>8, <1>9, <1>10 DEF WInv


\* The lead is built anew: what waited is woken where its reference says.
LEMMA WorkResumes == ASSUME Sound, Resume PROVE WInv'
<1>1. /\ stage = "resume" /\ current \in Run /\ pending = current /\ Prepared
      /\ resumed' /\ UNCHANGED <<row, ref, current, pending, kept, card>>
      /\ restored' # "none" => Decided
      /\ shown'.kind = "question" => shown.kind = "question"
  BY PreparedFits DEF Resume, rows
<1>2. Resumes(current) /\ Faces(current) /\ AtReference(current)
  BY <1>1 DEF Resumes, Faces, Sound, WInv, WaitsAtRef
<1>3. shown.kind = "question" => Put(current)
  BY <1>1, <1>2 DEF Sound, WInv, QuestionsPut
<1>4. CASE ~Onward
  <2>1. graph' = graph /\ stage' = "pump"
    BY <1>4 DEF Resume
  <2>2. \A r \in Run : (Waits(r) \/ Resumes(r))' \/ Faces(r)' => r = current
    BY <1>1, NoRunIsNone DEF Waits, Resumes, Faces
  <2>3. \A r \in Run : (Waits(r) \/ Resumes(r))' => AtReference(r)
    BY <1>2, <2>2
  <2>4. \A r \in Run : Faces(r)' /\ shown'.kind = "question" => Put(r)
    BY <1>1, <1>3, <2>2
  <2> QED BY <1>1, <2>1, <2>3, <2>4, SameGrows, NobodyWorks
<1>5. CASE Onward
  <2>1. /\ stage' \in {"tools", "record"}
        /\ gate'.decision = restored'
        /\ gate'.answered = (row[current].answered \/ shown.kind = "question")
        /\ verdict' = [i \in DOMAIN graph[current].resp |-> "ok"]
    BY <1>5 DEF Resume, BuildLead, NewGate
  <2>2. /\ \A r \in Run : /\ graph'[r].at = graph[r].at /\ graph'[r].resp = graph[r].resp
                          /\ DOMAIN graph'[r].state = DOMAIN graph[r].state
        /\ \A r \in Run : r # current => graph'[r] = graph[r]
        /\ \A i \in DOMAIN graph[current].state :
             graph'[current].state[i] = IF graph[current].state[i] = "waiting" THEN "woken"
                                        ELSE graph[current].state[i]
    BY <1>1, <1>5 DEF Resume, Sound, AInv, AnswerTyped, GraphShape
  <2>3. /\ \A r \in Run : /\ AnswerGiven(r)' = AnswerGiven(r) /\ Licensed(r)' = Licensed(r)
                          /\ AtReference(r)' = AtReference(r)
        /\ Decided' = Decided /\ DecidedRuns'
    BY <1>1, <2>2 DEF AnswerGiven, Licensed, Decided, AtReference, Sound, WInv, DecidedRuns
  <2>4. \A r \in Run : /\ AskOpen(graph[r]) => AskOpen(graph'[r])
                       /\ Put(r) => Put(r)'
                       /\ ~Waits(r)' /\ ~Resumes(r)' /\ ~Faces(r)'
    <3>1. \A r \in Run : AskOpen(graph[r]) => AskOpen(graph'[r])
      BY <2>2 DEF AskOpen
    <3> QED BY <1>1, <2>1, <3>1, NoRunIsNone DEF Put, Waits, Resumes, Faces
  <2>5. GateFollows' /\ JudgedFit'
    BY <1>1, <1>3, <2>1, <2>3, <2>4 DEF GateFollows, JudgedFit, Put
  <2>6. NoneUnseen'
    BY <1>1, <2>2, <2>3 DEF Sound, WInv, NoneUnseen
  <2>7. CallsLicensed'
    <3>1. ASSUME NEW i \in DOMAIN graph[current].state,
                 (KindAt(current, i) # "ask" \/ graph[current].state[i] = "granted")',
                 MayWork(current, i)'
          PROVE  Licensed(current)
      <4>1. graph[current].state[i] # "todo"
        BY <1>1, <1>2 DEF Sound, WInv, NoneUnseen
      <4>2. /\ KindAt(current, i) # "ask" \/ graph[current].state[i] = "granted"
            /\ MayWork(current, i)
        BY <1>1, <1>2, <2>2, <3>1, <4>1 DEF MayWork, KindAt
      <4> QED BY <1>1, <4>2 DEF Sound, WInv, CallsLicensed
    <3>2. ASSUME NEW r \in Run, r # current, NEW i \in DOMAIN graph[r].state,
                 (KindAt(r, i) # "ask" \/ graph[r].state[i] = "granted")', MayWork(r, i)'
          PROVE  Licensed(r)
      BY <1>1, <2>2, <2>3, <3>2 DEF Sound, WInv, CallsLicensed, MayWork, KindAt
    <3> QED BY <1>1, <2>1, <2>2, <2>3, <3>1, <3>2 DEF CallsLicensed
  <2>8. WaitsAtRef' /\ QuestionsPut'
    BY <1>1, <2>1, <2>3, <2>4 DEF Sound, WInv, WaitsAtRef, QuestionsPut
  <2>9. HeardOrAsks'
    BY <1>1, <1>2, <2>1, <2>3, <2>4 DEF Sound, WInv, HeardOrAsks
  <2> QED BY <2>3, <2>5, <2>6, <2>7, <2>8, <2>9 DEF WInv
<1> QED BY <1>4, <1>5

\* The process stops: what was not done waits, as far as anything can tell.
LEMMA WorkDown == ASSUME Sound, NEW quit, Stop(quit) PROVE WInv'
<1>1. /\ stage' = "down" /\ current' = NoRun /\ pending' = NoRun /\ card' = None
      /\ restored' = "none" /\ UNCHANGED <<row, ref>>
  BY DEF Stop
<1>2. \A r \in Run : /\ graph'[r].at = graph[r].at /\ graph'[r].resp = graph[r].resp
                     /\ DOMAIN graph'[r].state = DOMAIN graph[r].state
                     /\ \A i \in DOMAIN graph[r].state :
                          graph'[r].state[i] = IF graph[r].state[i] = "done" THEN "done"
                                               ELSE "waiting"
  BY DEF Stop, Sound, AInv, AnswerTyped, GraphShape
<1>3. /\ \A r \in Run : /\ AnswerGiven(r)' = AnswerGiven(r) /\ Licensed(r)' = Licensed(r)
                        /\ AtReference(r)' = AtReference(r)
      /\ Decided' = Decided /\ DecidedRuns'
  BY <1>1, <1>2 DEF AnswerGiven, Licensed, Decided, AtReference, Sound, WInv, DecidedRuns
<1>4. \A r \in Run : AskOpen(graph[r]) => AskOpen(graph'[r])
  BY <1>2 DEF AskOpen
<1>5. \A r \in Run : /\ Put(r) => Put(r)'
                     /\ current' # r /\ ~Waits(r)' /\ ~Resumes(r)' /\ ~Faces(r)'
  BY <1>1, <1>4, NoRunIsNone DEF Put, Waits, Resumes, Faces
<1>6. GateFollows' /\ JudgedFit' /\ NoneUnseen' /\ WaitsAtRef'
  BY <1>1, <1>2, <1>5 DEF GateFollows, JudgedFit, NoneUnseen, WaitsAtRef
<1>7. CallsLicensed'
  <2>1. ASSUME NEW r \in Run, NEW i \in DOMAIN graph[r].state,
               (KindAt(r, i) # "ask" \/ graph[r].state[i] = "granted")', MayWork(r, i)'
        PROVE  Licensed(r)
    <3>1. /\ graph'[r].state[i] = "waiting" /\ graph[r].state[i] # "done" /\ AtReference(r)
          /\ KindAt(r, i) # "ask"
      BY <1>2, <1>3, <1>5, <2>1 DEF MayWork, KindAt
    <3>2. graph[r].state[i] \in States /\ graph[r].state[i] # "todo"
      BY <3>1 DEF Sound, TInv, TurnTyped, WInv, NoneUnseen
    <3>3. MayWork(r, i)
      BY <3>1, <3>2 DEF MayWork, States
    <3> QED BY <3>1, <3>3 DEF Sound, WInv, CallsLicensed
  <2> QED BY <1>2, <1>3, <1>5, <2>1 DEF CallsLicensed
<1>8. QuestionsPut' /\ HeardOrAsks'
  BY <1>1, <1>3, <1>4, <1>5 DEF Sound, WInv, QuestionsPut, HeardOrAsks
<1> QED BY <1>3, <1>6, <1>7, <1>8 DEF WInv

\* A run that begins has neither calls nor a reference.
LEMMA WorkBegins ==
  ASSUME Sound, NEW r \in Run, NEW said, NEW given, Instruct(r, said, given)
  PROVE  WInv'
<1>1. /\ row[r].status = "none" /\ pending = NoRun /\ stage' = "loop" /\ current' = r
      /\ resumed' = FALSE /\ kept' = TRUE /\ current = NoRun
      /\ UNCHANGED <<ref, restored, pending, shown, card>>
      /\ gate'.decision = "none" /\ gate'.answered = FALSE
      /\ \A q \in Run : q # r => graph'[q] = graph[q]
      /\ graph'[r].state = graph[r].state
  BY DEF Instruct, Accepts, Invoke, BuildLead, NewGate, Sound, LInv, OneRun, AInv, AnswerTyped,
         GraphShape
<1>2. DOMAIN graph'[r].state = {} /\ ref.run # r /\ row[r].decision = "none"
  BY <1>1 DEF Sound, AInv, Turns, LInv, AttemptsRun, WInv, DecidedRuns
<1>3. /\ \A q \in Run : q # r => row'[q] = row[q]
      /\ \A q \in Run : row'[q].decision = row[q].decision
  BY DEF Instruct, Started, Sound, TInv, RowTyped, Row
<1>4. Decided' = Decided /\ DecidedRuns'
  BY <1>2, <1>3 DEF Decided, DecidedRuns, AnswerGiven, Sound, WInv
<1>5. ~AtReference(r)' /\ \A q \in Run : q # r => AtReference(q)' = AtReference(q)
  BY <1>1, <1>2 DEF AtReference
<1>6. \A q \in Run : ~Waits(q)' /\ ~Resumes(q)' /\ ~Faces(q)'
  BY <1>1, NoRunIsNone DEF Waits, Resumes, Faces
<1>7. ASSUME NEW q \in Run, q # r
      PROVE  /\ \A i \in DOMAIN graph'[q].state :
                  (KindAt(q, i) # "ask" \/ graph[q].state[i] = "granted")' /\ MayWork(q, i)'
                  => Licensed(q)'
             /\ AtReference(q)' =>
                  /\ \A i \in DOMAIN graph'[q].state : graph'[q].state[i] # "todo"
                  /\ ref.shown.kind = "question" => Put(q)'
                  /\ (AnswerGiven(q) \/ AskOpen(graph[q]))'
  BY <1>1, <1>3, <1>4, <1>5, <1>7, LeftAlone
<1>8. GateFollows' /\ JudgedFit'
  BY <1>1, <1>4 DEF Sound, WInv, GateFollows, JudgedFit
<1>9. CallsLicensed'
  BY <1>1, <1>2, <1>7 DEF CallsLicensed
<1>10. NoneUnseen' /\ WaitsAtRef' /\ QuestionsPut' /\ HeardOrAsks'
  BY <1>1, <1>2, <1>5, <1>6, <1>7 DEF NoneUnseen, WaitsAtRef, QuestionsPut, HeardOrAsks
<1> QED BY <1>4, <1>8, <1>9, <1>10 DEF WInv

LEMMA WorkInit == Init => WInv
<1> SUFFICES ASSUME Init PROVE WInv
  OBVIOUS
<1>1. /\ \A r \in Run : /\ row[r].decision = "none" /\ graph[r].state = <<>>
                        /\ ref.run # r /\ current # r /\ pending # r
      /\ restored = "none" /\ stage = "idle"
  BY NoRunIsNone DEF Init
<1>2. \A r \in Run : DOMAIN graph[r].state = {}
  BY <1>1
<1>3. DecidedRuns /\ GateFollows /\ JudgedFit
  BY <1>1 DEF DecidedRuns, GateFollows, JudgedFit
<1>4. CallsLicensed /\ NoneUnseen
  BY <1>1, <1>2 DEF CallsLicensed, NoneUnseen
<1>5. \A r \in Run : ~AtReference(r) /\ ~Waits(r) /\ ~Resumes(r) /\ ~Faces(r)
  BY <1>1 DEF AtReference, Waits, Resumes, Faces
<1>6. WaitsAtRef /\ QuestionsPut /\ HeardOrAsks
  BY <1>1, <1>5 DEF WaitsAtRef, QuestionsPut, HeardOrAsks
<1> QED BY <1>3, <1>4, <1>6 DEF WInv

LEMMA WorkSteps == ASSUME Sound, [Next]_vars PROVE WInv'
<1>1. CASE UNCHANGED vars
  <2>1. UNCHANGED <<row, graph, ref, stage, current, resumed, gate, verdict, pending, shown, card,
                    kept, restored>>
    BY <1>1 DEF vars, rows, saved, agent, wait
  <2>2. DecidedRuns' /\ GateFollows' /\ JudgedFit' /\ CallsLicensed'
    BY <2>1 DEF Sound, WInv, DecidedRuns, GateFollows, JudgedFit, CallsLicensed, MayWork, KindAt,
       AnswerGiven, Decided, Licensed, AtReference, AskOpen
  <2>3. NoneUnseen' /\ WaitsAtRef' /\ QuestionsPut' /\ HeardOrAsks'
    BY <2>1 DEF Sound, WInv, NoneUnseen, WaitsAtRef, QuestionsPut, HeardOrAsks, AtReference, Waits,
       Resumes, Faces, Put, AskOpen, AnswerGiven
  <2> QED BY <2>2, <2>3 DEF WInv
<1>2. CASE ToolStep
  BY <1>2, WorkTools, WorkEnding DEF ToolStep
<1>3. CASE LeadStep /\ ~ToolStep
  BY <1>3, WorkCalls, WorkEnding, WorkPersists, WorkTurns, WorkStops, WorkIsJudged, WorkParks,
     WorkRefers, WorkRecords, WorkRaises, WorkResumes DEF LeadStep
<1>4. CASE Person
  BY <1>4, WorkBegins, WorkEnding, WorkAnswers, WorkRestores, WorkRaises DEF Person
<1>5. CASE Process
  BY <1>5, WorkDown, WorkReopens, WorkRestores DEF Process
<1> QED BY <1>1, <1>2, <1>3, <1>4, <1>5 DEF Next

\* What a lead may work on holds in every session, whatever process works on it.
THEOREM WorkInvariance == Spec => []WInv
<1>1. AInv /\ LInv /\ TInv /\ WInv /\ [Next]_vars => WInv'
  BY WorkSteps DEF Sound
<1>2. QED
  BY <1>1, WorkInit, AnswerInvariance, LiveAttempts, TypeInvariance, PTL DEF Spec

\* The work of one step is that of a call the gate let through.
LEMMA WorkNeedsLicense ==
  ASSUME Sound, [Next]_vars, NEW r \in Run, worked'[r] # worked[r]
  PROVE  Licensed(r)
<1>1. ASSUME NEW i, Works(i) \/ RunCommand(i) PROVE Licensed(r)
  <2>1. r = current /\ stage = "tools" /\ i \in DOMAIN graph[current].state
    <3>1. worked' = worked \/ worked' = [worked EXCEPT ![current] = @ \cup {CallAt(current, i)}]
      BY <1>1 DEF Works, RunCommand
    <3> QED BY <1>1, <3>1 DEF Works, RunCommand, AtCall, Sound, TInv, RestTyped
  <2>2. CASE Works(i)
    <3>1. KindAt(current, i) = "work" /\ graph[current].state[i] = "todo" /\ verdict[i] = "ok"
      BY <2>2, <2>1 DEF Works, AtCall
    <3> QED BY <2>1, <3>1, CallLicensed
  <2>3. CASE RunCommand(i)
    BY <2>1, <2>3, CallLicensed DEF RunCommand, AtCall
  <2> QED BY <1>1, <2>2, <2>3
<1>2. CASE ToolStep
  BY <1>1, <1>2 DEF ToolStep, RepeatedCall, TooEarly, Refused, Execute, Finish, Ask, Told, ghosts
<1>3. CASE LeadStep /\ ~ToolStep
  BY <1>3 DEF LeadStep, BeginCall, CallFails, Persist, NextTurn, Interrupted, Respond, Park,
     Refer, Record, ResumeRaises, PumpEnds, PumpWaits, PumpBlocked, PumpRaises, Close, Resume,
     ResumeAmbiguous, ghosts
<1>4. CASE Person \/ Process
  BY <1>4 DEF Person, Process, Instruct, Unassigned, Answer, PromptRefused, Reject, Cancel,
     PumpRaises, Stop, Reopen, Recover, NothingToRestore, Restore, ghosts
<1> QED BY <1>2, <1>3, <1>4 DEF Next, vars, ghosts

\* No tool works before a decision is journaled, nor before an answer that is required
\* (ExecutionDecisionGate, over RunController's resumptions, restorations and restarts).  With
\* several runs the decision may be that of another run of the process, for
\* _restored_decision is not cleared; the answer is always the run's own.
THEOREM WorkFollowsSomeDecision == Spec => WorkIsLicensed
<1>1. AInv /\ LInv /\ TInv /\ WInv /\ [Next]_vars
        => [\A r \in Run : worked'[r] # worked[r] => Licensed(r)]_vars
  BY WorkNeedsLicense DEF Sound
<1>2. QED
  BY <1>1, WorkInvariance, AnswerInvariance, LiveAttempts, TypeInvariance, PTL
     DEF Spec, WorkIsLicensed

\* In a session of one run the decision is the run's own: the gate lets no tool work, for any
\* responses, instructions and stops, that the journal has no decision of the run for.
THEOREM WorkFollowsOwnDecision == ASSUME LastRun = 1 PROVE Spec => WorkFollowsDecision
<1>1. ASSUME NEW r \in Run, Licensed(r)
      PROVE  row[r].decision # "none" /\ (row[r].need => row[r].answered)
  <2>1. \A q \in Run : q = r
    BY DEF Run
  <2> QED BY <1>1, <2>1 DEF Licensed, Decided, AnswerGiven
<1>2. [\A r \in Run : worked'[r] # worked[r] => Licensed(r)]_vars
        => [\A r \in Run : worked'[r] # worked[r] =>
              row[r].decision # "none" /\ (row[r].need => row[r].answered)]_vars
  BY <1>1
<1>3. QED
  BY <1>2, WorkFollowsSomeDecision, PTL DEF WorkIsLicensed, WorkFollowsDecision

=============================================================================
