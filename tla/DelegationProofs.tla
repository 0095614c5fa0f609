--------------------------- MODULE DelegationProofs ---------------------------
(***************************************************************************)
(* What the lead is told of a delegated task is what the journal keeps,    *)
(* no money stays held for a task that is over, and what has failed twice  *)
(* is not tried a third time: proofs about Delegation, for any calls,      *)
(* catalog, budget and number of runs, cancellations and stops.            *)
(***************************************************************************)
EXTENDS Delegation, FiniteSetTheorems, TLAPS

-----------------------------------------------------------------------------
(* The inductive invariant. *)

\* The phases of a call: on the event loop or on a thread, with a row of its task.
Threads == {"settle", "node", "finalize", "route"}
Active == {"queued", "start", "waiting", "work", "retry", "raised"} \cup Threads
Places == Active \cup {"none", "refused", "stopped", "done"}
Resting == {"none", "stopped", "done"}

Typed ==
  /\ row \in [Task -> TaskStates] /\ registry \in [Task -> TaskStates]
  /\ attempt \in [Task -> [Attempts -> AttemptStates]] /\ node \in [Task -> NodeStates]
  /\ money \in [Task -> [Attempts -> {"none", "held", "settled", "released"}]]
  /\ usage \in [Task -> [Attempts -> {"none", "open", "measured", "uncertain"}]]
  /\ exhausted \in [Fingerprint -> Nat] /\ nodeOf \subseteq Task /\ DOMAIN planned = Task
  /\ stage \in {"idle", "lead", "assigning", "tools", "down"} /\ ended \in BOOLEAN
  /\ runs \in Nat /\ runOf \in [Task -> Nat] /\ stops \in Nat
  /\ pc \in [Task -> Places] /\ number \in [Task -> Attempts]
  /\ out \in [Task -> Statuses \cup {"none"}] /\ driven \in [Task -> BOOLEAN]
  /\ told \in [Task -> Statuses \cup {"none", "refused"}]

\* Only a batch that is being answered is driven, by the run that it belongs to, and
\* nothing is on the event loop without being driven, or anywhere without a process.
Driving ==
  /\ stage \notin {"assigning", "tools"} => \A t \in Task : ~ driven[t]
  /\ \A t \in Task : driven[t] => runOf[t] = runs
  /\ \A t \in Task : pc[t] \in OnLoop => driven[t]
  /\ stage = "down" => \A t \in Task : pc[t] \in Resting

\* The attempts of a task, by the place of its call: the first has failed before
\* there is a second.
Failure == {"failed", "interrupted"}

Attempted(t) ==
  /\ pc[t] \in Active => row[t] # "none" /\ registry[t] # "none"
  /\ pc[t] \in {"none", "refused"} => row[t] = "none" /\ node[t] = "none" /\ number[t] = 1
  /\ pc[t] = "queued" => number[t] = 1
  /\ pc[t] \in {"retry", "route"} => number[t] = 2
  /\ pc[t] \in Active \ {"raised"} /\ number[t] = 2 => attempt[t][1] = "failed"
  /\ pc[t] = "route" => attempt[t][2] = "running"
  /\ pc[t] \in {"settle", "node", "finalize"} => out[t] \in Statuses
  /\ pc[t] \in {"node", "finalize"} =>
       row[t] = out[t] /\ attempt[t][number[t]] = AttemptOf(out[t])
  /\ node[t] # "none" => row[t] # "none"

\* The plan node of a call that is driven is live until the task has its outcome.
NodeFits(t) ==
  driven[t] =>
    /\ pc[t] \in Active \ {"raised"} => t \in nodeOf
    /\ pc[t] \in Active \ {"raised", "finalize"} => node[t] \in {"launching", "running"}
    /\ pc[t] = "finalize" =>
         IF Retried(t) THEN node[t] \in {"launching", "running"} ELSE node[t] = AttemptOf(out[t])

\* The lead is told when a call is done, and nothing changes after that.
Told(t) ==
  /\ told[t] # "none" => pc[t] = "done"
  /\ told[t] = "refused" => row[t] = "none" /\ node[t] = "none"
  /\ told[t] \in Statuses =>
       /\ row[t] = told[t] \/ (told[t] = "returned_to_lead" /\ row[t] = "failed")
       /\ node[t] = AttemptOf(told[t])
  /\ told[t] = "succeeded" => attempt[t][number[t]] = "succeeded"

\* Money is held for one attempt at a time, and for one that was planned.
Held(t, n) == money[t][n] = "held"

MoneyFits(t) ==
  /\ number[t] = 1 => ~ Held(t, 2)
  /\ number[t] = 2 => ~ Held(t, 1)
  /\ pc[t] \in {"none", "refused"} => ~ Held(t, 1)
  /\ pc[t] \in {"retry", "route"} => ~ Held(t, 2)
  /\ stage = "assigning" /\ pc[t] = "queued" => ~ Held(t, 1)
  /\ stage = "tools" /\ pc[t] = "queued" /\ ~ planned[t].found => ~ Held(t, 1)

Rested(t) ==
  stops = 0 /\ pc[t] \in Resting =>
    \A n \in Attempts : Held(t, n) =>
      usage[t][n] = "uncertain" \/ (n = 2 /\ attempt[t][n] = "running")

Fits(t) == Attempted(t) /\ NodeFits(t) /\ Told(t) /\ MoneyFits(t) /\ Rested(t)

\* A fingerprint is spent by a task with two failed attempts that is over.
SpentBy(f, t) ==
  /\ Packet[t].fp = f /\ number[t] = 2
  /\ pc[t] \in {"node", "finalize", "raised", "stopped", "done"}
  /\ attempt[t][1] \in Failure /\ attempt[t][2] \in Failure

SpentTwice == \A f \in spent : f \in Fingerprint /\ \E t \in Task : SpentBy(f, t)

\* A running process knows it: from the journal, or from its own registry.
SpentKnown ==
  stage \in {"lead", "assigning", "tools"} =>
    \A f \in spent :
      exhausted[f] >= 2 \/ \E t \in Task : Packet[t].fp = f /\ registry[t] # "none"

NotDownYet == stops = 0 => stage # "down"

IInv ==
  /\ Typed /\ Driving /\ (\A t \in Task : Fits(t)) /\ SpentTwice /\ SpentKnown /\ NotDownYet

-----------------------------------------------------------------------------
(* Steps of one call. *)

\* Only the call of t moves, within its run.
Alone(t) ==
  /\ \A u \in Task \ {t} :
       UNCHANGED <<row[u], attempt[u], node[u], money[u], usage[u], registry[u], pc[u], number[u],
                   out[u], told[u], planned[u]>>
  /\ UNCHANGED <<nodeOf, driven, process, ended>>

\* What is spent stays spent, and known.
Remembers(t) ==
  /\ \A f \in spent : SpentBy(f, t) => SpentBy(f, t)'
  /\ \A f \in spent' \ spent : f \in Fingerprint /\ SpentBy(f, t)' /\ registry'[t] # "none"
  /\ registry[t] # "none" => registry'[t] # "none"
  /\ \A f \in Fingerprint : exhausted[f] >= 2 => exhausted'[f] >= 2

\* The calls beside the one that moves are as they were.
LEMMA OthersFit ==
  ASSUME IInv, NEW t \in Task, Alone(t), NEW u \in Task, u # t
  PROVE  Fits(u)'
<1>1. /\ UNCHANGED <<row[u], attempt[u], node[u], money[u], usage[u], registry[u], pc[u], number[u],
                     out[u], told[u], planned[u]>>
      /\ UNCHANGED <<nodeOf, driven, stage, stops>>
  BY DEF Alone, process
<1>2. Attempted(u) /\ NodeFits(u) /\ Told(u) /\ MoneyFits(u) /\ Rested(u)
  BY DEF IInv, Fits
<1>3. Attempted(u)' /\ Told(u)'
  BY <1>1, <1>2 DEF Attempted, Told
<1>4. NodeFits(u)'
  BY <1>1, <1>2 DEF NodeFits, Retried
<1>5. MoneyFits(u)' /\ Rested(u)'
  BY <1>1, <1>2 DEF MoneyFits, Rested, Held
<1> QED BY <1>3, <1>4, <1>5 DEF Fits

\* A step of one call keeps the invariant if it keeps what concerns the call.
LEMMA AloneKeeps ==
  ASSUME IInv, NEW t \in Task, Alone(t), Typed', Fits(t)', Remembers(t),
         pc'[t] \in OnLoop => driven[t], pc[t] \notin Resting
  PROVE  IInv'
<1>1. \A u \in Task : Fits(u)'
  BY OthersFit
<1>2. Driving'
  BY DEF IInv, Driving, Alone, process
<1>3. SpentTwice'
  <2>1. ASSUME NEW f \in spent PROVE f \in Fingerprint /\ \E u \in Task : SpentBy(f, u)'
    <3>1. PICK u \in Task : SpentBy(f, u)
      BY DEF IInv, SpentTwice
    <3>2. SpentBy(f, u)'
      BY <3>1 DEF SpentBy, Alone, Remembers
    <3> QED BY <3>2 DEF IInv, SpentTwice
  <2> QED BY <2>1 DEF SpentTwice, Remembers
<1>4. SpentKnown'
  <2>1. SUFFICES ASSUME stage \in {"lead", "assigning", "tools"}, NEW f \in spent
                 PROVE  exhausted'[f] >= 2 \/ \E u \in Task : Packet[u].fp = f /\ registry'[u] # "none"
    BY DEF SpentKnown, Alone, process, Remembers, SpentBy
  <2>2. f \in Fingerprint
    BY <2>1 DEF IInv, SpentTwice
  <2>3. CASE exhausted[f] >= 2
    BY <2>2, <2>3 DEF Remembers
  <2>4. CASE \E u \in Task : Packet[u].fp = f /\ registry[u] # "none"
    BY <2>4 DEF Alone, Remembers
  <2> QED BY <2>1, <2>3, <2>4 DEF IInv, SpentKnown
<1>5. NotDownYet'
  BY DEF IInv, NotDownYet, Alone, process
<1> QED BY <1>1, <1>2, <1>3, <1>4, <1>5 DEF IInv

\* What the invariant says of one call.
LEMMA OneCall ==
  ASSUME IInv, NEW t \in Task
  PROVE  /\ Typed /\ Attempted(t) /\ NodeFits(t) /\ Told(t) /\ MoneyFits(t) /\ Rested(t)
         /\ attempt[t] \in [Attempts -> AttemptStates] /\ number[t] \in {1, 2}
         /\ money[t] \in [Attempts -> {"none", "held", "settled", "released"}]
         /\ usage[t] \in [Attempts -> {"none", "open", "measured", "uncertain"}]
         /\ Attempts = {1, 2}
BY DEF IInv, Fits, Typed, Attempts

LEMMA AnswerRefusedKeeps ==
  ASSUME IInv, NEW t \in Task, AnswerRefused(t)
  PROVE  IInv'
<1> USE OneCall
<1>1. /\ pc[t] = "refused" /\ pc' = [pc EXCEPT ![t] = "done"]
      /\ told' = [told EXCEPT ![t] = "refused"]
      /\ UNCHANGED <<journal, memory, number, out, driven, process, spent>>
  BY DEF AnswerRefused, Goto
<1>2. Alone(t) /\ Remembers(t)
  BY <1>1 DEF Alone, Remembers, SpentBy, journal, memory, process, Typed
<1>3. Typed'
  BY <1>1 DEF Typed, journal, memory, process, Places
<1>4. pc'[t] = "done" /\ told'[t] = "refused"
  BY <1>1 DEF Typed
<1>5. Fits(t)'
  BY <1>1, <1>4 DEF Fits, Attempted, NodeFits, Told, MoneyFits, Rested, Held, journal, memory,
                    process, Active, Threads, Statuses
<1> QED BY <1>1, <1>2, <1>3, <1>4, <1>5, AloneKeeps DEF OnLoop, Resting

LEMMA StartKeeps ==
  ASSUME IInv, NEW t \in Task, Start(t)
  PROVE  IInv'
<1> USE OneCall
<1>1. /\ pc[t] = "start" /\ driven[t] /\ pc' = [pc EXCEPT ![t] = "waiting"]
      /\ registry' = [registry EXCEPT ![t] = "running"]
      /\ node' = [node EXCEPT ![t] = "running"]
      /\ attempt' = [attempt EXCEPT ![t][number[t]] = "running"]
      /\ row' = [row EXCEPT ![t] = "running"]
      /\ UNCHANGED <<money, usage, ended, exhausted, planned, nodeOf, number, out, driven, told,
                     process, spent>>
  BY DEF Start, Goto
<1>2. /\ pc'[t] = "waiting" /\ registry'[t] = "running" /\ node'[t] = "running" /\ row'[t] = "running"
      /\ attempt'[t] = [attempt[t] EXCEPT ![number[t]] = "running"]
  BY <1>1 DEF Typed
<1>3. Alone(t) /\ Remembers(t)
  BY <1>1, <1>2 DEF Alone, Remembers, SpentBy, process, Typed
<1>4. Typed'
  BY <1>1 DEF Typed, process, Places, Active, AttemptStates, NodeStates, TaskStates
<1>5. Attempted(t)' /\ NodeFits(t)' /\ Told(t)'
  BY <1>1, <1>2 DEF Attempted, NodeFits, Told, Active, Threads, Statuses
<1>6. MoneyFits(t)' /\ Rested(t)'
  BY <1>1, <1>2 DEF MoneyFits, Rested, Held, Resting
<1> QED BY <1>1, <1>3, <1>4, <1>5, <1>6, AloneKeeps DEF Fits, Resting

LEMMA GrantedKeeps ==
  ASSUME IInv, NEW t \in Task, Granted(t)
  PROVE  IInv'
<1> USE OneCall
<1>1. /\ pc[t] = "waiting" /\ driven[t] /\ pc' = [pc EXCEPT ![t] = "work"]
      /\ usage' = [usage EXCEPT ![t][number[t]] = "open"]
      /\ UNCHANGED <<row, attempt, node, money, ended, memory, number, out, driven, told, process,
                     spent>>
  BY DEF Granted, Goto
<1>2. pc'[t] = "work"
  BY <1>1 DEF Typed
<1>3. Alone(t) /\ Remembers(t)
  BY <1>1, <1>2 DEF Alone, Remembers, SpentBy, memory, process, Typed
<1>4. Typed'
  BY <1>1 DEF Typed, memory, process, Places, Active
<1>5. Attempted(t)' /\ NodeFits(t)' /\ Told(t)'
  BY <1>1, <1>2 DEF Attempted, NodeFits, Told, Active, Threads, Statuses, memory
<1>6. MoneyFits(t)' /\ Rested(t)'
  BY <1>1, <1>2 DEF MoneyFits, Rested, Held, Resting, memory, process
<1> QED BY <1>1, <1>3, <1>4, <1>5, <1>6, AloneKeeps DEF Fits, Resting

LEMMA ReturnsKeeps ==
  ASSUME IInv, NEW t \in Task, NEW status \in Outcomes, NEW calling \in Accounts,
         Returns(t, status, calling)
  PROVE  IInv'
<1> USE OneCall
<1>1. /\ pc[t] = "work" /\ driven[t] /\ pc' = [pc EXCEPT ![t] = "settle"]
      /\ out' = [out EXCEPT ![t] = status]
      /\ usage' = [usage EXCEPT ![t][number[t]] = calling]
      /\ UNCHANGED <<row, attempt, node, money, ended, memory, number, driven, told, process,
                     spent>>
  BY DEF Returns, Goto
<1>2. status \in Statuses /\ calling \in {"none", "measured", "uncertain"}
  BY DelegationAssumption DEF Statuses
<1>3. pc'[t] = "settle" /\ out'[t] = status
  BY <1>1 DEF Typed
<1>4. Alone(t) /\ Remembers(t)
  BY <1>1, <1>3 DEF Alone, Remembers, SpentBy, memory, process, Typed
<1>5. Typed'
  BY <1>1, <1>2 DEF Typed, memory, process, Places, Active, Threads
<1>6. Attempted(t)' /\ NodeFits(t)' /\ Told(t)'
  BY <1>1, <1>2, <1>3 DEF Attempted, NodeFits, Told, Active, Threads, Statuses, memory
<1>7. MoneyFits(t)' /\ Rested(t)'
  BY <1>1, <1>3 DEF MoneyFits, Rested, Held, Resting, memory, process
<1> QED BY <1>1, <1>3, <1>4, <1>5, <1>6, <1>7, AloneKeeps DEF Fits, Resting

LEMMA SettleRowsKeeps ==
  ASSUME IInv, NEW t \in Task, SettleRows(t)
  PROVE  IInv'
<1> USE OneCall
<1>1. /\ pc[t] = "settle" /\ pc' = [pc EXCEPT ![t] = "node"]
      /\ attempt' = [attempt EXCEPT ![t][number[t]] = AttemptOf(out[t])]
      /\ row' = [row EXCEPT ![t] = out[t]]
      /\ spent' = IF out[t] = "failed" /\ number[t] = 2 THEN spent \cup {Packet[t].fp} ELSE spent
      /\ UNCHANGED <<node, money, usage, ended, memory, number, out, driven, told, process>>
  BY DEF SettleRows, Goto
<1>2. out[t] \in Statuses /\ AttemptOf(out[t]) \in AttemptStates
  BY <1>1 DEF Attempted, AttemptOf, AttemptStates
<1>3. /\ pc'[t] = "node" /\ row'[t] = out[t]
      /\ attempt'[t] = [attempt[t] EXCEPT ![number[t]] = AttemptOf(out[t])]
  BY <1>1 DEF Typed
<1>4. Alone(t)
  BY <1>1 DEF Alone, memory, process, Typed
<1>5. Remembers(t)
  <2>1. \A f \in spent : ~ SpentBy(f, t)
    BY <1>1 DEF SpentBy
  <2>2. registry[t] # "none" /\ UNCHANGED <<registry, exhausted>>
    BY <1>1 DEF Attempted, Active, Threads, memory
  <2>3. CASE out[t] = "failed" /\ number[t] = 2
    <3>1. spent' \ spent \subseteq {Packet[t].fp} /\ Packet[t].fp \in Fingerprint
      BY <1>1, <2>3, DelegationAssumption
    <3>2. attempt[t][1] = "failed" /\ AttemptOf(out[t]) = "failed"
      BY <1>1, <2>3 DEF Attempted, Active, Threads, AttemptOf
    <3>3. SpentBy(Packet[t].fp, t)'
      BY <1>1, <1>3, <2>3, <3>2 DEF SpentBy, Failure
    <3> QED BY <2>1, <2>2, <3>1, <3>3 DEF Remembers
  <2>4. CASE ~ (out[t] = "failed" /\ number[t] = 2)
    BY <1>1, <2>1, <2>2, <2>4 DEF Remembers
  <2> QED BY <2>3, <2>4
<1>6. Typed'
  BY <1>1, <1>2 DEF Typed, memory, process, Places, Active, Threads, Statuses, TaskStates
<1>7. Attempted(t)' /\ NodeFits(t)' /\ Told(t)'
  BY <1>1, <1>2, <1>3 DEF Attempted, NodeFits, Told, Active, Threads, Statuses, memory
<1>8. MoneyFits(t)' /\ Rested(t)'
  BY <1>1, <1>3 DEF MoneyFits, Rested, Held, Resting, memory, process
<1> QED BY <1>1, <1>3, <1>4, <1>5, <1>6, <1>7, <1>8, AloneKeeps DEF Fits, OnLoop, Resting

LEMMA SettleNodeKeeps ==
  ASSUME IInv, NEW t \in Task, SettleNode(t)
  PROVE  IInv'
<1> USE OneCall
<1>1. /\ pc[t] = "node" /\ pc' = [pc EXCEPT ![t] = "finalize"]
      /\ node' = IF Live(t) /\ (out[t] # "failed" \/ number[t] = 2)
                 THEN [node EXCEPT ![t] = AttemptOf(out[t])] ELSE node
      /\ UNCHANGED <<row, attempt, money, usage, ended, memory, number, out, driven, told, process,
                     spent>>
  BY DEF SettleNode, Goto
<1>2. out[t] \in Statuses /\ AttemptOf(out[t]) \in NodeStates \ {"none"} /\ row[t] = out[t]
  BY <1>1 DEF Attempted, AttemptOf, NodeStates
<1>3. pc'[t] = "finalize" /\ (\A u \in Task \ {t} : node'[u] = node[u])
      /\ node' \in [Task -> NodeStates]
      /\ node'[t] = IF Live(t) /\ (out[t] # "failed" \/ number[t] = 2)
                    THEN AttemptOf(out[t]) ELSE node[t]
  BY <1>1, <1>2 DEF Typed
<1>4. Alone(t) /\ Remembers(t)
  BY <1>1, <1>3 DEF Alone, Remembers, SpentBy, memory, process, Typed
<1>5. Typed'
  BY <1>1, <1>3 DEF Typed, memory, process, Places, Active, Threads
<1>6. Attempted(t)' /\ Told(t)'
  BY <1>1, <1>2, <1>3 DEF Attempted, Told, Active, Threads, Statuses, memory
<1>7. NodeFits(t)'
  BY <1>1, <1>3 DEF NodeFits, Live, Retried, Active, Threads, memory
<1>8. MoneyFits(t)' /\ Rested(t)'
  BY <1>1, <1>3 DEF MoneyFits, Rested, Held, Resting, memory, process
<1> QED BY <1>1, <1>3, <1>4, <1>5, <1>6, <1>7, <1>8, AloneKeeps DEF Fits, OnLoop, Resting

\* What becomes of the money of an attempt that is finalized.
LEMMA Finalizing ==
  ASSUME IInv, NEW t \in Task, FinalizesMoney(t)
  PROVE  /\ pc[t] = "finalize" /\ UNCHANGED <<row, attempt, node, ended, planned, nodeOf, out,
                                              driven, process, spent>>
         /\ usage' \in [Task -> [Attempts -> {"none", "open", "measured", "uncertain"}]]
         /\ money' \in [Task -> [Attempts -> {"none", "held", "settled", "released"}]]
         /\ \A u \in Task \ {t} : UNCHANGED <<usage[u], money[u]>>
         /\ \A n \in Attempts \ {number[t]} : UNCHANGED <<usage[t][n], money[t][n]>>
         /\ money'[t][number[t]] = "held" =>
              usage'[t][number[t]] = "uncertain" /\ usage[t][number[t]] \in {"open", "uncertain"}
<1> USE OneCall
<1> DEFINE n == number[t]
           m == Finalized(money[t][n], usage[t][n])
           c == IF usage[t][n] = "open" THEN "uncertain" ELSE usage[t][n]
<1>1. /\ pc[t] = "finalize" /\ UNCHANGED <<row, attempt, node, ended, planned, nodeOf, out,
                                           driven, process, spent>>
      /\ usage' = [usage EXCEPT ![t][n] = c] /\ money' = [money EXCEPT ![t][n] = m]
  BY DEF FinalizesMoney, Typed
<1>2. m \in {"none", "held", "settled", "released"}
  BY DEF Finalized
<1>3. m = "held" => usage[t][n] \in {"open", "uncertain"}
  BY DEF Finalized
<1>4. /\ c \in {"none", "open", "measured", "uncertain"}
      /\ usage[t][n] \in {"open", "uncertain"} => c = "uncertain"
  OBVIOUS
<1> HIDE DEF m, c
<1>5. /\ usage' \in [Task -> [Attempts -> {"none", "open", "measured", "uncertain"}]]
      /\ money' \in [Task -> [Attempts -> {"none", "held", "settled", "released"}]]
  BY <1>1, <1>2, <1>4 DEF Typed
<1>6. /\ \A u \in Task \ {t} : UNCHANGED <<usage[u], money[u]>>
      /\ \A k \in Attempts \ {n} : UNCHANGED <<usage[t][k], money[t][k]>>
      /\ usage'[t][n] = c /\ money'[t][n] = m
  BY <1>1 DEF Typed
<1> QED BY <1>1, <1>3, <1>4, <1>5, <1>6

LEMMA RaisesKeeps ==
  ASSUME IInv, NEW t \in Task, Raises(t)
  PROVE  IInv'
<1> USE OneCall, Finalizing
<1>1. /\ FinalizesMoney(t) /\ ~ Settled(t) /\ UNCHANGED <<registry, exhausted, number, told>>
      /\ pc' = [pc EXCEPT ![t] = IF driven[t] THEN "raised" ELSE "stopped"]
  BY DEF Raises, Goto
<1>2. pc'[t] = IF driven[t] THEN "raised" ELSE "stopped"
  BY <1>1 DEF Typed
<1>3. Alone(t) /\ Remembers(t)
  BY <1>1, <1>2 DEF Alone, Remembers, SpentBy, process, Typed
<1>4. Typed'
  BY <1>1 DEF Typed, process, Places, Active
<1>5. Attempted(t)' /\ NodeFits(t)' /\ Told(t)'
  BY <1>1, <1>2 DEF Attempted, NodeFits, Told, Active, Threads, Statuses, process
<1>6. MoneyFits(t)' /\ Rested(t)'
  BY <1>1, <1>2 DEF MoneyFits, Rested, Held, Resting, process
<1> QED BY <1>1, <1>2, <1>3, <1>4, <1>5, <1>6, AloneKeeps DEF Fits, OnLoop, Resting

LEMMA CloseTaskKeeps ==
  ASSUME IInv, NEW t \in Task, CloseTask(t)
  PROVE  IInv'
<1> USE OneCall, Finalizing
<1> DEFINE verdict == IF out[t] = "failed" THEN "returned_to_lead" ELSE out[t]
<1>1. /\ FinalizesMoney(t) /\ Settled(t) /\ ~ Retried(t) /\ UNCHANGED number
      /\ pc' = [pc EXCEPT ![t] = "done"]
      /\ registry' = [registry EXCEPT ![t] = verdict]
      /\ exhausted' = IF verdict = "returned_to_lead"
                      THEN [exhausted EXCEPT ![Packet[t].fp] = 2] ELSE exhausted
      /\ told' = IF driven[t] THEN [told EXCEPT ![t] = verdict] ELSE told
  BY DEF CloseTask, Goto, Tell
<1>2. pc[t] = "finalize" /\ out[t] \in Statuses /\ row[t] = out[t]
      /\ attempt[t][number[t]] = AttemptOf(out[t])
  BY <1>1 DEF Attempted
<1>3. verdict \in Statuses
  BY <1>2 DEF Statuses
<1>4. AttemptOf(verdict) = AttemptOf(out[t]) /\ (verdict = "succeeded" => AttemptOf(out[t]) = "succeeded")
      /\ (row[t] = verdict \/ (verdict = "returned_to_lead" /\ row[t] = "failed"))
  BY <1>2 DEF AttemptOf
<1> HIDE DEF verdict
<1>5. /\ pc'[t] = "done" /\ registry'[t] = verdict
      /\ \A u \in Task \ {t} : UNCHANGED <<pc[u], registry[u], told[u]>>
      /\ told'[t] = IF driven[t] THEN verdict ELSE told[t]
      /\ told' \in [Task -> Statuses \cup {"none", "refused"}]
  BY <1>1, <1>3 DEF Typed
<1>6. told[t] = "none"
  BY <1>2 DEF Told
<1>7. /\ exhausted' \in [Fingerprint -> Nat]
      /\ \A f \in Fingerprint : exhausted[f] >= 2 => exhausted'[f] >= 2
  <2>1. exhausted \in [Fingerprint -> Nat] /\ Packet[t].fp \in Fingerprint
    BY DelegationAssumption DEF Typed
  <2>2. exhausted' = exhausted \/ exhausted' = [exhausted EXCEPT ![Packet[t].fp] = 2]
    BY <1>1
  <2> QED BY <2>1, <2>2
<1>8. Alone(t) /\ Remembers(t)
  <2>1. Alone(t)
    BY <1>1, <1>5 DEF Alone, Typed
  <2>2. \A f \in spent : SpentBy(f, t) => SpentBy(f, t)'
    BY <1>1, <1>5 DEF SpentBy
  <2>3. registry'[t] # "none" /\ spent' = spent
    BY <1>1, <1>3, <1>5 DEF Statuses
  <2> QED BY <1>7, <2>1, <2>2, <2>3 DEF Remembers
<1>9. Typed'
  BY <1>1, <1>3, <1>5, <1>7 DEF Typed, process, Places, TaskStates
<1>10. Attempted(t)' /\ NodeFits(t)'
  BY <1>1, <1>5 DEF Attempted, NodeFits, Active, Threads, process
<1>11. Told(t)'
  BY <1>1, <1>2, <1>3, <1>4, <1>5, <1>6 DEF Told, NodeFits, Statuses, process
<1>12. MoneyFits(t)' /\ Rested(t)'
  <2>1. \A n \in {1, 2} : Held(t, n)' => usage'[t][n] = "uncertain"
    BY <1>1 DEF MoneyFits, Held
  <2>2. (number[t] = 1 => ~ Held(t, 2)') /\ (number[t] = 2 => ~ Held(t, 1)')
    BY <1>1 DEF MoneyFits, Held
  <2> QED BY <1>1, <1>5, <2>1, <2>2 DEF MoneyFits, Rested, Resting
<1> QED BY <1>2, <1>5, <1>8, <1>9, <1>10, <1>11, <1>12, AloneKeeps DEF Fits, OnLoop, Resting

LEMMA RequeueKeeps ==
  ASSUME IInv, NEW t \in Task, Requeue(t)
  PROVE  IInv'
<1> USE OneCall, Finalizing
<1>1. /\ FinalizesMoney(t) /\ Settled(t) /\ Retried(t) /\ UNCHANGED <<exhausted, told>>
      /\ registry' = [registry EXCEPT ![t] = "queued"] /\ number' = [number EXCEPT ![t] = 2]
      /\ pc' = [pc EXCEPT ![t] = IF driven[t] THEN "retry" ELSE "stopped"]
  BY DEF Requeue, Goto
<1>2. /\ pc[t] = "finalize" /\ out[t] = "failed" /\ number[t] = 1 /\ row[t] = "failed"
      /\ attempt[t][1] = "failed"
  BY <1>1 DEF Attempted, Retried, AttemptOf
<1>3. pc'[t] = (IF driven[t] THEN "retry" ELSE "stopped") /\ registry'[t] = "queued" /\ number'[t] = 2
  BY <1>1 DEF Typed
<1>4. ~ Held(t, 1)' /\ ~ Held(t, 2)'
  BY <1>1, <1>2 DEF Settled, MoneyFits, Held
<1>5. Alone(t) /\ Remembers(t)
  BY <1>1, <1>2, <1>3 DEF Alone, Remembers, SpentBy, process, Typed
<1>6. Typed'
  BY <1>1 DEF Typed, process, Places, Active, TaskStates, Attempts
<1>7. Attempted(t)' /\ NodeFits(t)' /\ Told(t)'
  BY <1>1, <1>2, <1>3 DEF Attempted, NodeFits, Told, Active, Threads, Statuses, process, Retried
<1>8. MoneyFits(t)' /\ Rested(t)'
  BY <1>1, <1>3, <1>4 DEF MoneyFits, Rested, Resting, process
<1> QED BY <1>1, <1>3, <1>5, <1>6, <1>7, <1>8, AloneKeeps DEF Fits, OnLoop, Resting

\* A task for which no model is found is over, and holds nothing.
LEMMA BlocksKeeps ==
  ASSUME IInv, NEW t \in Task, NEW binding, NEW attempted \in [Attempts -> AttemptStates],
         Blocks(t, binding, attempted), pc[t] \in {"queued", "retry", "route"},
         ~ Held(t, 1), ~ Held(t, 2), DOMAIN planned' = Task,
         \A u \in Task \ {t} : planned'[u] = planned[u],
         UNCHANGED <<money, usage, ended, exhausted, nodeOf, number, out, driven, process, spent>>
  PROVE  IInv'
<1> USE OneCall
<1> DEFINE status == IF binding = "budget_unaffordable" THEN "budget_blocked" ELSE "blocked"
           left == IF t \in nodeOf THEN [attempted EXCEPT ![1] = "blocked"] ELSE attempted
<1>1. /\ registry' = [registry EXCEPT ![t] = "blocked"] /\ pc' = [pc EXCEPT ![t] = "done"]
      /\ node' = IF Live(t) THEN [node EXCEPT ![t] = "blocked"] ELSE node
      /\ attempt' = [attempt EXCEPT ![t] = left]
      /\ row' = IF t \in nodeOf THEN [row EXCEPT ![t] = status] ELSE row
      /\ told' = IF driven[t] THEN [told EXCEPT ![t] = status] ELSE told
  BY DEF Blocks, Goto, Tell
<1>2. status \in {"blocked", "budget_blocked"} /\ left \in [Attempts -> AttemptStates]
  BY DEF AttemptStates
<1> HIDE DEF status, left
<1>3. /\ registry' \in [Task -> TaskStates] /\ pc' \in [Task -> Places]
      /\ node' \in [Task -> NodeStates] /\ attempt' \in [Task -> [Attempts -> AttemptStates]]
      /\ row' \in [Task -> TaskStates] /\ told' \in [Task -> Statuses \cup {"none", "refused"}]
  BY <1>1, <1>2 DEF Typed, TaskStates, Statuses, NodeStates, Places
<1>4. /\ registry'[t] = "blocked" /\ pc'[t] = "done"
      /\ node'[t] = IF Live(t) THEN "blocked" ELSE node[t]
      /\ row'[t] = IF t \in nodeOf THEN status ELSE row[t]
      /\ told'[t] = IF driven[t] THEN status ELSE told[t]
      /\ \A u \in Task \ {t} : UNCHANGED <<registry[u], pc[u], node[u], attempt[u], row[u], told[u]>>
  BY <1>1 DEF Typed
<1>5. told[t] = "none" /\ row[t] # "none"
  BY DEF Told, Attempted, Active, Threads
<1>6. driven[t] => t \in nodeOf /\ Live(t)
  BY DEF NodeFits, Active, Threads, Live
<1>7. Alone(t) /\ Remembers(t)
  BY <1>4 DEF Alone, Remembers, SpentBy, process
<1>8. Typed'
  BY <1>3 DEF Typed, process
<1>9. Attempted(t)' /\ NodeFits(t)'
  BY <1>2, <1>4, <1>5 DEF Attempted, NodeFits, Active, Threads
<1>10. Told(t)'
  BY <1>2, <1>4, <1>5, <1>6 DEF Told, AttemptOf, Statuses
<1>11. MoneyFits(t)' /\ Rested(t)'
  BY <1>4 DEF MoneyFits, Rested, Held
<1> QED BY <1>1, <1>4, <1>7, <1>8, <1>9, <1>10, <1>11, AloneKeeps DEF Fits, OnLoop, Resting

LEMMA AssignFirstKeeps ==
  ASSUME IInv, NEW t \in Task, AssignFirst(t)
  PROVE  IInv'
<1> USE OneCall
<1>1. /\ stage = "tools" /\ pc[t] = "queued" /\ driven[t]
      /\ planned' = [planned EXCEPT ![t] = NoPlan]
      /\ UNCHANGED <<money, usage, ended, exhausted, nodeOf, number, out, driven, process, spent>>
  BY DEF AssignFirst
<1>2. DOMAIN planned' = Task /\ \A u \in Task \ {t} : planned'[u] = planned[u]
  BY <1>1 DEF Typed
<1>3. CASE planned[t].found /\ Goto(t, "start") /\ UNCHANGED <<registry, node, attempt, row, told>>
  <2>1. pc' = [pc EXCEPT ![t] = "start"] /\ pc'[t] = "start"
    BY <1>3 DEF Goto, Typed
  <2>2. Alone(t) /\ Remembers(t)
    BY <1>1, <1>2, <1>3, <2>1 DEF Alone, Remembers, SpentBy, process, Typed
  <2>3. Typed'
    BY <1>1, <1>2, <1>3, <2>1 DEF Typed, process, Places, Active
  <2>4. Attempted(t)' /\ NodeFits(t)' /\ Told(t)'
    BY <1>1, <1>3, <2>1 DEF Attempted, NodeFits, Told, Active, Threads
  <2>5. MoneyFits(t)' /\ Rested(t)'
    BY <1>1, <2>1 DEF MoneyFits, Rested, Resting, Held
  <2> QED BY <1>1, <2>1, <2>2, <2>3, <2>4, <2>5, AloneKeeps DEF Fits, Resting
<1>4. CASE ~ planned[t].found /\ Blocks(t, planned[t].binding, attempt[t])
  <2>1. ~ Held(t, 1) /\ ~ Held(t, 2)
    BY <1>1, <1>4 DEF MoneyFits, Attempted
  <2> QED BY <1>1, <1>2, <1>4, <2>1, BlocksKeeps
<1> QED BY <1>3, <1>4 DEF AssignFirst

LEMMA CreateSecondKeeps ==
  ASSUME IInv, NEW t \in Task, CreateSecond(t)
  PROVE  IInv'
<1> USE OneCall
<1> DEFINE running == [attempt[t] EXCEPT ![2] = "running"]
<1>1. /\ pc[t] = "retry" /\ driven[t] /\ number[t] = 2
      /\ UNCHANGED <<money, usage, ended, exhausted, planned, nodeOf, number, out, driven, process,
                     spent>>
  BY DEF CreateSecond, Attempted
<1>2. running \in [Attempts -> AttemptStates]
  BY DEF AttemptStates
<1>3. CASE Blocks(t, "model_excluded", running)
  <2>1. ~ Held(t, 1) /\ ~ Held(t, 2) /\ DOMAIN planned' = Task
    BY <1>1 DEF MoneyFits, Typed
  <2> QED BY <1>1, <1>2, <1>3, <2>1, BlocksKeeps
<1>4. CASE /\ attempt' = [attempt EXCEPT ![t] = running] /\ Goto(t, "route")
           /\ UNCHANGED <<registry, node, row, told>>
  <2>1. /\ pc' = [pc EXCEPT ![t] = "route"] /\ pc'[t] = "route"
        /\ attempt'[t] = running /\ \A u \in Task \ {t} : attempt'[u] = attempt[u]
        /\ attempt' \in [Task -> [Attempts -> AttemptStates]]
    BY <1>2, <1>4 DEF Goto, Typed
  <2>2. attempt'[t][2] = "running" /\ attempt'[t][1] = attempt[t][1]
    BY <2>1
  <2>3. Alone(t) /\ Remembers(t)
    BY <1>1, <1>4, <2>1 DEF Alone, Remembers, SpentBy, process, Typed
  <2>4. Typed'
    BY <1>1, <1>4, <2>1 DEF Typed, process, Places, Active, Threads
  <2>5. Attempted(t)' /\ NodeFits(t)' /\ Told(t)'
    BY <1>1, <1>4, <2>1, <2>2 DEF Attempted, NodeFits, Told, Active, Threads
  <2>6. MoneyFits(t)' /\ Rested(t)'
    BY <1>1, <2>1 DEF MoneyFits, Rested, Resting, Held
  <2> QED BY <1>1, <2>1, <2>3, <2>4, <2>5, <2>6, AloneKeeps DEF Fits, Resting
<1> QED BY <1>3, <1>4 DEF CreateSecond

LEMMA RouteSecondKeeps ==
  ASSUME IInv, NEW t \in Task, RouteSecond(t)
  PROVE  IInv'
<1> USE OneCall
<1>1. /\ pc[t] = "route" /\ number[t] = 2 /\ attempt[t][1] = "failed" /\ attempt[t][2] = "running"
      /\ UNCHANGED <<usage, ended, exhausted, planned, nodeOf, number, out, driven, process, spent>>
  BY DEF RouteSecond, Attempted, Active, Threads
<1>2. ~ Held(t, 1) /\ ~ Held(t, 2)
  BY <1>1 DEF MoneyFits
<1>3. PICK r : \/ /\ ~ r.found
                  /\ Blocks(t, r.binding, [attempt[t] EXCEPT ![2] = "failed"])
                  /\ UNCHANGED <<bound, money>>
               \/ /\ r.found
                  /\ money' = [money EXCEPT ![t][2] = "held"]
                  /\ Goto(t, IF ~ driven[t] THEN "stopped"
                             ELSE IF FloorRaised(t, r) THEN "start" ELSE "raised")
                  /\ UNCHANGED <<registry, node, attempt, row, told>>
  BY DEF RouteSecond
<1>4. CASE Blocks(t, r.binding, [attempt[t] EXCEPT ![2] = "failed"]) /\ UNCHANGED money
  <2>1. [attempt[t] EXCEPT ![2] = "failed"] \in [Attempts -> AttemptStates] /\ DOMAIN planned' = Task
    BY <1>1 DEF AttemptStates, Typed
  <2> QED BY <1>1, <1>2, <1>4, <2>1, BlocksKeeps
<1>5. CASE /\ money' = [money EXCEPT ![t][2] = "held"]
           /\ Goto(t, IF ~ driven[t] THEN "stopped"
                      ELSE IF FloorRaised(t, r) THEN "start" ELSE "raised")
           /\ UNCHANGED <<registry, node, attempt, row, told>>
  <2> DEFINE place == IF ~ driven[t] THEN "stopped"
                      ELSE IF FloorRaised(t, r) THEN "start" ELSE "raised"
  <2>1. place \in {"stopped", "start", "raised"} /\ (place = "stopped" <=> ~ driven[t])
    OBVIOUS
  <2>2. pc' = [pc EXCEPT ![t] = place]
    BY <1>5 DEF Goto
  <2> HIDE DEF place
  <2>3. /\ pc'[t] = place /\ \A u \in Task \ {t} : pc'[u] = pc[u] /\ money'[u] = money[u]
        /\ money' \in [Task -> [Attempts -> {"none", "held", "settled", "released"}]]
        /\ money'[t][1] = money[t][1]
    BY <1>5, <2>2 DEF Typed
  <2>4. Alone(t) /\ Remembers(t)
    BY <1>1, <1>5, <2>3 DEF Alone, Remembers, SpentBy, process
  <2>5. Typed'
    BY <1>1, <1>5, <2>1, <2>2, <2>3 DEF Typed, process, Places, Active
  <2>6. Attempted(t)' /\ NodeFits(t)' /\ Told(t)'
    BY <1>1, <1>5, <2>1, <2>3 DEF Attempted, NodeFits, Told, Active, Threads
  <2>7. MoneyFits(t)' /\ Rested(t)'
    BY <1>1, <1>2, <1>5, <2>1, <2>3 DEF MoneyFits, Rested, Resting, Held
  <2> QED BY <1>1, <2>1, <2>3, <2>4, <2>5, <2>6, <2>7, AloneKeeps DEF Fits, OnLoop, Resting
<1> QED BY <1>3, <1>4, <1>5

-----------------------------------------------------------------------------
(* Steps of a run, and of the process. *)

\* The largest of three numbers.
LEMMA LargestOfThree ==
  ASSUME NEW a \in Nat, NEW b \in Nat, NEW c \in Nat
  PROVE  Max({a, b, c}) \in Nat /\ Max({a, b, c}) >= a /\ Max({a, b, c}) >= b
<1>1. \E x \in {a, b, c} : \A y \in {a, b, c} : x >= y
  OBVIOUS
<1>2. Max({a, b, c}) \in {a, b, c} /\ \A y \in {a, b, c} : Max({a, b, c}) >= y
  BY <1>1, Zenon DEF Max
<1> QED BY <1>2

\* What a task has spent, the journal counts as two failures.
LEMMA BothCounted ==
  ASSUME NEW f
  PROVE  /\ FailedAttempts(f) \in Nat
         /\ (\E t \in Task : SpentBy(f, t)) => FailedAttempts(f) >= 2
<1> DEFINE S == {a \in Task \X Attempts :
                   Packet[a[1]].fp = f /\ attempt[a[1]][a[2]] \in {"failed", "interrupted"}}
<1>1. IsFiniteSet(Task \X Attempts)
  <2>1. IsFiniteSet(1..2)
    BY 1 \in Int, 2 \in Int, FS_Interval, Zenon
  <2>2. IsFiniteSet(Task) /\ IsFiniteSet(Attempts)
    BY <2>1, DelegationAssumption DEF Attempts
  <2> QED BY <2>2, FS_Product, Zenon
<1>2. IsFiniteSet(S) /\ Cardinality(S) \in Nat
  BY <1>1, FS_Subset, FS_CardinalityType
<1>3. ASSUME NEW t \in Task, SpentBy(f, t) PROVE Cardinality(S) >= 2
  <2>1. <<t, 1>> \in S /\ <<t, 2>> \in S
    BY <1>3 DEF SpentBy, Failure, Attempts
  <2>2. PICK x \in S, y \in S : x # y
    BY <2>1
  <2>3. IsFiniteSet({x}) /\ Cardinality({x}) = 1
    BY FS_Singleton, Zenon
  <2>4. Cardinality({x} \cup {y}) = Cardinality({x}) + 1
    BY <2>2, <2>3, FS_AddElement, Zenon
  <2> HIDE DEF S
  <2>5. Cardinality({x} \cup {y}) <= Cardinality(S)
    BY <1>2, <2>2, FS_Subset
  <2> QED BY <1>2, <2>3, <2>4, <2>5
<1> QED BY <1>2, <1>3 DEF FailedAttempts

\* A run that starts knows from the journal what is spent.
LEMMA LoadedKnows ==
  ASSUME IInv, NEW f \in Fingerprint
  PROVE  Loaded(f) \in Nat /\ (f \in spent => Loaded(f) >= 2)
<1>1. exhausted[f] \in Nat /\ FailedAttempts(f) \in Nat /\ (IF Returned(f) THEN 2 ELSE 0) \in Nat
  BY BothCounted DEF IInv, Typed
<1>2. Loaded(f) \in Nat /\ Loaded(f) >= FailedAttempts(f)
  BY <1>1, LargestOfThree DEF Loaded
<1>3. f \in spent => FailedAttempts(f) >= 2
  BY BothCounted DEF IInv, SpentTwice
<1> QED BY <1>1, <1>2, <1>3

LEMMA StartRunKeeps ==
  ASSUME IInv, StartRun
  PROVE  IInv'
<1>1. /\ stage = "idle" /\ stage' = "lead" /\ runs' = runs + 1 /\ nodeOf' = {}
      /\ exhausted' = [f \in Fingerprint |-> Loaded(f)] /\ DOMAIN planned' = Task
      /\ UNCHANGED <<row, attempt, node, money, usage, ended, registry, pc, number, out, driven,
                     told, runOf, stops, spent>>
  BY DEF StartRun, journal, calls
<1>2. Typed'
  <2>1. exhausted' \in [Fingerprint -> Nat]
    BY <1>1, LoadedKnows
  <2> QED BY <1>1, <2>1 DEF IInv, Typed
<1>3. Driving'
  BY <1>1 DEF IInv, Driving
<1>4. ASSUME NEW t \in Task PROVE Fits(t)'
  <2>1. ~ driven[t]
    BY <1>1 DEF IInv, Driving
  <2>2. Attempted(t)' /\ NodeFits(t)' /\ Told(t)'
    BY <1>1, <2>1, OneCall DEF Attempted, NodeFits, Told
  <2>3. MoneyFits(t)' /\ Rested(t)'
    BY <1>1, OneCall DEF MoneyFits, Rested, Held
  <2> QED BY <2>2, <2>3 DEF Fits
<1>5. SpentTwice' /\ SpentKnown'
  <2>1. SpentTwice'
    BY <1>1 DEF IInv, SpentTwice, SpentBy
  <2>2. \A f \in spent' : exhausted'[f] >= 2
    BY <1>1, LoadedKnows DEF IInv, SpentTwice
  <2> QED BY <2>1, <2>2 DEF SpentKnown
<1>6. NotDownYet'
  BY <1>1 DEF NotDownYet
<1> QED BY <1>2, <1>3, <1>4, <1>5, <1>6 DEF IInv

\* A call whose task has not moved in the journal, and that is driven no more than
\* before, fits as it did; money is freed only.
LEMMA StillFits ==
  ASSUME IInv, NEW t \in Task,
         UNCHANGED <<row[t], attempt[t], node[t], registry[t], pc[t], number[t], out[t], told[t]>>,
         driven'[t] => driven[t] /\ (t \in nodeOf => t \in nodeOf'),
         \A n \in Attempts : Held(t, n)' => Held(t, n) /\ usage'[t][n] = usage[t][n],
         stage' \notin {"assigning", "tools"}, stops' = 0 => stops = 0
  PROVE  Fits(t)'
<1> USE OneCall
<1>1. Attempted(t)' /\ Told(t)'
  BY DEF Attempted, Told
<1>2. NodeFits(t)'
  BY DEF NodeFits, Retried
<1>3. MoneyFits(t)' /\ Rested(t)'
  BY DEF MoneyFits, Rested
<1> QED BY <1>1, <1>2, <1>3 DEF Fits

LEMMA CompletesKeeps ==
  ASSUME IInv, Completes
  PROVE  IInv'
<1>1. /\ stage = "lead" /\ stage' = "idle" /\ ended' = TRUE
      /\ UNCHANGED <<row, attempt, node, money, usage, registry, exhausted, planned, nodeOf, pc,
                     number, out, driven, told, runs, runOf, stops, spent>>
  BY DEF Completes, memory, calls
<1>2. \A t \in Task : Fits(t)'
  BY <1>1, StillFits DEF Held
<1>3. Typed' /\ Driving' /\ NotDownYet'
  BY <1>1 DEF IInv, Typed, Driving, NotDownYet
<1>4. SpentTwice' /\ SpentKnown'
  BY <1>1 DEF IInv, SpentTwice, SpentKnown, SpentBy
<1> QED BY <1>2, <1>3, <1>4 DEF IInv

LEMMA ContinueKeeps ==
  ASSUME IInv, Continue
  PROVE  IInv'
<1>1. /\ stage = "down" /\ stage' = "idle"
      /\ UNCHANGED <<row, attempt, node, money, usage, ended, registry, exhausted, planned, nodeOf,
                     pc, number, out, driven, told, runs, runOf, stops, spent>>
  BY DEF Continue, journal, memory, calls
<1>2. \A t \in Task : Fits(t)'
  BY <1>1, StillFits DEF Held
<1>3. Typed' /\ Driving' /\ NotDownYet'
  BY <1>1 DEF IInv, Typed, Driving, NotDownYet
<1>4. SpentTwice' /\ SpentKnown'
  BY <1>1 DEF IInv, SpentTwice, SpentKnown, SpentBy
<1> QED BY <1>2, <1>3, <1>4 DEF IInv

LEMMA LeadContinuesKeeps ==
  ASSUME IInv, LeadContinues
  PROVE  IInv'
<1>1. /\ stage = "tools" /\ stage' = "lead" /\ driven' = [t \in Task |-> FALSE]
      /\ \A t \in Task : driven[t] => pc[t] = "done"
      /\ UNCHANGED <<row, attempt, node, money, usage, ended, registry, exhausted, planned, nodeOf,
                     pc, number, out, told, runs, runOf, stops, spent>>
  BY DEF LeadContinues, journal, memory
<1>2. \A t \in Task : Fits(t)'
  BY <1>1, StillFits DEF Held
<1>3. Typed' /\ Driving' /\ NotDownYet'
  BY <1>1 DEF IInv, Typed, Driving, NotDownYet, OnLoop
<1>4. SpentTwice' /\ SpentKnown'
  BY <1>1 DEF IInv, SpentTwice, SpentKnown, SpentBy
<1> QED BY <1>2, <1>3, <1>4 DEF IInv

LEMMA AssignBatchKeeps ==
  ASSUME IInv, AssignBatch
  PROVE  IInv'
<1>1. PICK pick :
        LET chosen == {t \in Task : pc[t] = "queued" /\ pick[t].found} IN
          /\ planned' = [t \in Task |-> IF pc[t] = "queued" THEN pick[t] ELSE planned[t]]
          /\ money' = [t \in Task |-> IF t \in chosen THEN <<"held", "none">> ELSE money[t]]
  BY DEF AssignBatch
<1>2. /\ stage = "assigning" /\ stage' = "tools"
      /\ UNCHANGED <<row, attempt, node, usage, ended, registry, exhausted, nodeOf, pc, number, out,
                     driven, told, runs, runOf, stops, spent>>
  BY DEF AssignBatch, calls
<1>3. ASSUME NEW t \in Task
      PROVE  /\ money'[t] = <<"held", "none">> \/ money'[t] = money[t]
             /\ pc[t] # "queued" => money'[t] = money[t] /\ planned'[t] = planned[t]
             /\ pc[t] = "queued" /\ ~ planned'[t].found => money'[t] = money[t]
  BY <1>1
<1>4. Typed'
  <2>1. <<"held", "none">> \in [Attempts -> {"none", "held", "settled", "released"}]
    BY DEF Attempts
  <2>2. money' \in [Task -> [Attempts -> {"none", "held", "settled", "released"}]]
    BY <1>1, <2>1 DEF IInv, Typed
  <2> QED BY <1>1, <1>2, <2>2 DEF IInv, Typed
<1>5. Driving'
  BY <1>2 DEF IInv, Driving
<1>6. ASSUME NEW t \in Task PROVE Fits(t)'
  <2> USE OneCall
  <2>1. Attempted(t)' /\ NodeFits(t)' /\ Told(t)'
    BY <1>2 DEF Attempted, NodeFits, Told, Retried
  <2>2. MoneyFits(t)'
    <3>1. CASE pc[t] = "queued"
      BY <1>2, <1>3, <3>1 DEF MoneyFits, Held, Attempted
    <3>2. CASE pc[t] # "queued"
      BY <1>2, <1>3, <3>2 DEF MoneyFits, Held
    <3> QED BY <3>1, <3>2
  <2>3. Rested(t)'
    BY <1>2, <1>3 DEF Rested, Held, Resting
  <2> QED BY <2>1, <2>2, <2>3 DEF Fits
<1>7. SpentTwice' /\ SpentKnown' /\ NotDownYet'
  BY <1>2 DEF IInv, SpentTwice, SpentKnown, SpentBy, NotDownYet
<1> QED BY <1>4, <1>5, <1>6, <1>7 DEF IInv

\* The sweep at the end of a run leaves money only where a call is of unknown outcome.
LEMMA EndRunKeeps ==
  ASSUME IInv, EndRun, stage \in {"lead", "tools"}
  PROVE  IInv'
<1>1. /\ stage' = "idle" /\ ended' = TRUE /\ driven' = [t \in Task |-> FALSE]
      /\ pc' = [t \in Task |-> IF pc[t] \in OnLoop THEN "stopped" ELSE pc[t]]
      /\ usage' = [t \in Task |-> [n \in Attempts |->
           IF t \in Ours /\ usage[t][n] = "open" THEN "uncertain" ELSE usage[t][n]]]
      /\ money' = [t \in Task |-> [n \in Attempts |->
           IF t \in Ours THEN Swept(t, n) ELSE money[t][n]]]
      /\ UNCHANGED <<row, attempt, node, registry, exhausted, planned, nodeOf, number, out, told,
                     runs, runOf, stops, spent>>
  BY DEF EndRun, memory
<1>2. ASSUME NEW t \in Task, NEW n \in Attempts
      PROVE  /\ money'[t][n] \in {"none", "held", "settled", "released"}
             /\ usage'[t][n] \in {"none", "open", "measured", "uncertain"}
             /\ Held(t, n)' => Held(t, n) /\ (usage'[t][n] = usage[t][n] \/ usage'[t][n] = "uncertain")
             /\ t \in Ours /\ Held(t, n)' => usage'[t][n] = "uncertain"
  <2>1. /\ money[t][n] \in {"none", "held", "settled", "released"}
        /\ usage[t][n] \in {"none", "open", "measured", "uncertain"}
    BY OneCall
  <2>2. CASE t \in Ours
    BY <1>1, <2>1, <2>2 DEF Held, Swept, Finalized
  <2>3. CASE t \notin Ours
    BY <1>1, <2>1, <2>3 DEF Held
  <2> QED BY <2>2, <2>3
<1>3. Typed'
  <2>1. /\ money' \in [Task -> [Attempts -> {"none", "held", "settled", "released"}]]
        /\ usage' \in [Task -> [Attempts -> {"none", "open", "measured", "uncertain"}]]
    <3> DEFINE M(t, n) == IF t \in Ours THEN Swept(t, n) ELSE money[t][n]
               U(t, n) == IF t \in Ours /\ usage[t][n] = "open" THEN "uncertain" ELSE usage[t][n]
    <3>1. money' = [t \in Task |-> [n \in Attempts |-> M(t, n)]]
          /\ usage' = [t \in Task |-> [n \in Attempts |-> U(t, n)]]
      BY <1>1
    <3> HIDE DEF M, U
    <3>2. \A t \in Task, n \in Attempts : money'[t][n] = M(t, n) /\ usage'[t][n] = U(t, n)
      BY <3>1
    <3> QED BY <1>2, <3>1, <3>2
  <2>2. pc' \in [Task -> Places]
    BY <1>1 DEF IInv, Typed, Places
  <2> QED BY <1>1, <2>1, <2>2 DEF IInv, Typed
<1>4. Driving'
  BY <1>1 DEF Driving, OnLoop
<1>5. ASSUME NEW t \in Task PROVE Fits(t)'
  <2> USE OneCall
  <2>1. pc'[t] = (IF pc[t] \in OnLoop THEN "stopped" ELSE pc[t]) /\ ~ driven'[t]
    BY <1>1
  <2>2. Attempted(t)' /\ NodeFits(t)' /\ Told(t)'
    BY <1>1, <2>1 DEF Attempted, NodeFits, Told, OnLoop, Active, Threads
  <2>3. MoneyFits(t)'
    BY <1>1, <1>2, <2>1 DEF MoneyFits, OnLoop
  <2>4. Rested(t)'
    <3>1. CASE pc[t] \in {"refused"}
      BY <1>1, <1>2, <3>1 DEF Rested, MoneyFits, Attempted
    <3>2. CASE pc[t] \in OnLoop \ {"refused"}
      <4>1. t \in Ours
        BY <3>2 DEF Ours, IInv, Driving, Attempted, Active, OnLoop
      <4> QED BY <1>2, <4>1 DEF Rested
    <3>3. CASE pc[t] \notin OnLoop
      BY <1>1, <1>2, <2>1, <3>3 DEF Rested
    <3> QED BY <3>1, <3>2, <3>3
  <2> QED BY <2>2, <2>3, <2>4 DEF Fits
<1>6. SpentTwice'
  <2>1. ASSUME NEW f, NEW t \in Task, SpentBy(f, t) PROVE SpentBy(f, t)'
    BY <1>1, <2>1 DEF SpentBy
  <2> QED BY <1>1, <2>1 DEF IInv, SpentTwice
<1>7. SpentKnown' /\ NotDownYet'
  BY <1>1 DEF SpentKnown, NotDownYet
<1> QED BY <1>3, <1>4, <1>5, <1>6, <1>7 DEF IInv

LEMMA StopKeeps ==
  ASSUME IInv, Stop
  PROVE  IInv'
<1>1. /\ stage' = "down" /\ stops' = stops + 1 /\ registry' = [t \in Task |-> "none"]
      /\ exhausted' = [f \in Fingerprint |-> 0] /\ DOMAIN planned' = Task /\ nodeOf' = {}
      /\ driven' = [t \in Task |-> FALSE]
      /\ pc' = [t \in Task |-> IF pc[t] \in {"none", "done"} THEN pc[t] ELSE "stopped"]
      /\ UNCHANGED <<row, attempt, node, money, usage, ended, number, out, told, runs, runOf, spent>>
  BY DEF Stop, journal
<1>2. Typed'
  BY <1>1 DEF IInv, Typed, Places, TaskStates
<1>3. Driving'
  BY <1>1 DEF Driving, OnLoop, Resting
<1>4. stops' # 0
  BY <1>1 DEF IInv, Typed
<1>5. ASSUME NEW t \in Task PROVE Fits(t)'
  <2> USE OneCall
  <2>1. pc'[t] = (IF pc[t] \in {"none", "done"} THEN pc[t] ELSE "stopped") /\ ~ driven'[t]
    BY <1>1
  <2>2. Attempted(t)' /\ NodeFits(t)' /\ Told(t)'
    BY <1>1, <2>1 DEF Attempted, NodeFits, Told, Active, Threads
  <2>3. MoneyFits(t)' /\ Rested(t)'
    BY <1>1, <1>4, <2>1 DEF MoneyFits, Rested, Held
  <2> QED BY <2>2, <2>3 DEF Fits
<1>6. SpentTwice'
  <2>1. ASSUME NEW f, NEW t \in Task, SpentBy(f, t) PROVE SpentBy(f, t)'
    BY <1>1, <2>1 DEF SpentBy
  <2> QED BY <1>1, <2>1 DEF IInv, SpentTwice
<1>7. SpentKnown' /\ NotDownYet'
  BY <1>1, <1>4 DEF SpentKnown, NotDownYet
<1> QED BY <1>2, <1>3, <1>5, <1>6, <1>7 DEF IInv

LEMMA AdmitFailsKeeps ==
  ASSUME IInv, NEW batch \in SUBSET Task, AdmitFails(batch)
  PROVE  IInv'
<1>1. /\ stage = "lead" /\ stage' = "idle" /\ ended' = TRUE /\ stops' = stops + 1
      /\ \A t \in batch : pc[t] = "none"
      /\ registry' = [t \in Task |-> IF t \in batch THEN "proposed" ELSE registry[t]]
      /\ pc' = [t \in Task |-> IF t \in batch THEN "stopped" ELSE pc[t]]
      /\ UNCHANGED <<row, attempt, node, money, usage, exhausted, planned, nodeOf, number, out,
                     driven, told, runs, runOf, spent>>
  BY DEF AdmitFails, Called
<1>2. Typed' /\ stops' # 0
  BY <1>1 DEF IInv, Typed, Places, TaskStates
<1>3. Driving'
  BY <1>1 DEF IInv, Driving, OnLoop
<1>4. ASSUME NEW t \in Task PROVE Fits(t)'
  <2> USE OneCall
  <2>1. /\ pc'[t] = (IF t \in batch THEN "stopped" ELSE pc[t])
        /\ registry'[t] = (IF t \in batch THEN "proposed" ELSE registry[t])
        /\ t \in batch => pc[t] = "none"
    BY <1>1
  <2>2. Attempted(t)' /\ NodeFits(t)' /\ Told(t)'
    BY <1>1, <2>1 DEF Attempted, NodeFits, Told, Retried, Active, Threads
  <2>3. MoneyFits(t)' /\ Rested(t)'
    BY <1>1, <1>2, <2>1 DEF MoneyFits, Rested, Held
  <2> QED BY <2>2, <2>3 DEF Fits
<1>5. SpentTwice'
  <2>1. ASSUME NEW f, NEW t \in Task, SpentBy(f, t) PROVE SpentBy(f, t)'
    BY <1>1, <2>1 DEF SpentBy
  <2> QED BY <1>1, <2>1 DEF IInv, SpentTwice
<1>6. SpentKnown' /\ NotDownYet'
  BY <1>1 DEF SpentKnown, NotDownYet
<1> QED BY <1>2, <1>3, <1>4, <1>5, <1>6 DEF IInv

LEMMA AdmitKeeps ==
  ASSUME IInv, NEW batch \in SUBSET Task, Admit(batch)
  PROVE  IInv'
<1>1. PICK new \in SUBSET batch :
        /\ registry' = [t \in Task |-> IF t \in new THEN "queued" ELSE registry[t]]
        /\ row' = [t \in Task |-> IF t \in new THEN "queued" ELSE row[t]]
        /\ attempt' = [t \in Task |-> IF t \in new THEN <<"assigned", "none">> ELSE attempt[t]]
        /\ node' = [t \in Task |-> IF t \in new THEN "launching" ELSE node[t]]
        /\ nodeOf' = nodeOf \cup new
        /\ pc' = [t \in Task |-> IF t \in new THEN "queued"
                                 ELSE IF t \in batch THEN "refused" ELSE pc[t]]
        /\ stage' \in {"tools", "assigning"} /\ (new # {} => stage' = "assigning")
  <2> DEFINE new == IF Registrable(Decoded(batch)) THEN Decoded(batch) ELSE {}
  <2>1. new \in SUBSET batch
    BY DEF Decoded
  <2>2. Admit(batch)!2!1
    BY DEF Admit
  <2> QED BY <2>1, <2>2
<1>2. /\ stage = "lead" /\ \A t \in batch : pc[t] = "none"
      /\ runOf' = [t \in Task |-> IF t \in batch THEN runs ELSE runOf[t]]
      /\ driven' = [t \in Task |-> t \in batch]
      /\ UNCHANGED <<money, usage, ended, exhausted, planned, number, out, told, runs, stops, spent>>
  BY DEF Admit, Called
<1>3. ASSUME NEW t \in Task
      PROVE  /\ t \in new => /\ registry'[t] = "queued" /\ row'[t] = "queued" /\ pc'[t] = "queued"
                             /\ node'[t] = "launching" /\ t \in nodeOf' /\ stage' = "assigning"
             /\ t \notin new => UNCHANGED <<registry[t], row[t], attempt[t], node[t]>>
             /\ t \in batch \ new => pc'[t] = "refused"
             /\ t \notin batch => UNCHANGED <<pc[t], runOf[t]>> /\ ~ driven'[t]
             /\ t \in batch => pc[t] = "none" /\ runOf'[t] = runs /\ driven'[t]
  BY <1>1, <1>2
<1>4. Typed'
  <2>1. <<"assigned", "none">> \in [Attempts -> AttemptStates]
    BY DEF Attempts, AttemptStates
  <2>2. attempt' \in [Task -> [Attempts -> AttemptStates]]
    BY <1>1, <2>1 DEF IInv, Typed
  <2>3. row' \in [Task -> TaskStates] /\ registry' \in [Task -> TaskStates]
        /\ node' \in [Task -> NodeStates] /\ nodeOf' \subseteq Task
    BY <1>1 DEF IInv, Typed, TaskStates, NodeStates
  <2>4. pc' \in [Task -> Places] /\ runOf' \in [Task -> Nat] /\ driven' \in [Task -> BOOLEAN]
    BY <1>1, <1>2 DEF IInv, Typed, Places, Active
  <2> QED BY <1>1, <1>2, <2>2, <2>3, <2>4 DEF IInv, Typed
<1>5. Driving'
  <2>1. \A t \in Task : pc[t] \notin OnLoop
    BY <1>2 DEF IInv, Driving
  <2> QED BY <1>1, <1>2, <1>3, <2>1 DEF Driving
<1>6. ASSUME NEW t \in Task PROVE Fits(t)'
  <2> USE OneCall
  <2>1. CASE t \in new
    <3>1. t \in batch /\ number'[t] = 1 /\ told'[t] = "none" /\ ~ Held(t, 1)' /\ ~ Held(t, 2)'
      BY <1>2, <2>1 DEF Attempted, Told, MoneyFits, Held
    <3>2. Attempted(t)' /\ NodeFits(t)' /\ Told(t)'
      BY <1>3, <2>1, <3>1 DEF Attempted, NodeFits, Told, Active, Threads, Statuses
    <3>3. MoneyFits(t)' /\ Rested(t)'
      BY <1>3, <2>1, <3>1 DEF MoneyFits, Rested, Resting
    <3> QED BY <3>2, <3>3 DEF Fits
  <2>2. CASE t \in batch \ new
    <3>1. number'[t] = 1 /\ told'[t] = "none" /\ ~ Held(t, 1)' /\ ~ Held(t, 2)' /\ row[t] = "none"
          /\ node[t] = "none"
      BY <1>2, <2>2 DEF Attempted, Told, MoneyFits, Held
    <3>2. Attempted(t)' /\ NodeFits(t)' /\ Told(t)'
      BY <1>3, <2>2, <3>1 DEF Attempted, NodeFits, Told, Active, Threads, Statuses
    <3>3. MoneyFits(t)' /\ Rested(t)'
      BY <1>3, <2>2, <3>1 DEF MoneyFits, Rested, Resting
    <3> QED BY <3>2, <3>3 DEF Fits
  <2>3. CASE t \notin batch
    <3>1. UNCHANGED <<row[t], attempt[t], node[t], registry[t], pc[t], number[t], out[t], told[t]>>
          /\ pc[t] # "queued"
      BY <1>2, <1>3, <2>3 DEF IInv, Driving, OnLoop
    <3>2. Attempted(t)' /\ NodeFits(t)' /\ Told(t)'
      BY <1>3, <2>3, <3>1 DEF Attempted, NodeFits, Told
    <3>3. MoneyFits(t)' /\ Rested(t)'
      BY <1>2, <3>1 DEF MoneyFits, Rested, Held
    <3> QED BY <3>2, <3>3 DEF Fits
  <2> QED BY <2>1, <2>2, <2>3
<1>7. SpentTwice'
  <2>1. ASSUME NEW f, NEW t \in Task, SpentBy(f, t) PROVE SpentBy(f, t)'
    BY <1>2, <1>3, <2>1 DEF SpentBy
  <2> QED BY <1>2, <2>1 DEF IInv, SpentTwice
<1>8. SpentKnown' /\ NotDownYet'
  BY <1>1, <1>2, <1>3 DEF IInv, SpentKnown, NotDownYet
<1> QED BY <1>4, <1>5, <1>6, <1>7, <1>8 DEF IInv

\* Recovery rewrites what was launched, which nobody was told of.
LEMMA ResumeKeeps ==
  ASSUME IInv, Resume
  PROVE  IInv'
<1>1. /\ stage = "down" /\ stage' = "idle"
      /\ attempt' = [t \in Task |-> [n \in Attempts |->
           IF InFlight(t, n) \/ (n = 1 /\ Launched(t)) THEN "interrupted" ELSE attempt[t][n]]]
      /\ row' = [t \in Task |-> IF Launched(t) THEN "blocked"
                                ELSE IF row[t] = "running" THEN "returned_to_lead" ELSE row[t]]
      /\ node' = [t \in Task |-> IF Launched(t) THEN "blocked" ELSE node[t]]
      /\ money' = [t \in Task |-> [n \in Attempts |->
           IF money[t][n] = "held" /\ Orphan(t) /\ ~ Ambiguous(t) THEN "released" ELSE money[t][n]]]
      /\ UNCHANGED <<usage, ended, registry, exhausted, planned, nodeOf, pc, number, out, driven,
                     told, runs, runOf, stops, spent>>
  BY DEF Resume, memory, calls
<1>2. stops # 0
  BY <1>1 DEF IInv, NotDownYet
<1>3. ASSUME NEW t \in Task, NEW n \in Attempts
      PROVE  /\ attempt'[t][n] = IF InFlight(t, n) \/ (n = 1 /\ Launched(t)) THEN "interrupted"
                                 ELSE attempt[t][n]
             /\ money'[t][n] \in {"none", "held", "settled", "released"}
             /\ attempt'[t][n] \in AttemptStates
             /\ Held(t, n)' => Held(t, n)
  BY <1>1, OneCall DEF Held, AttemptStates
<1>4. Typed'
  <2> DEFINE A(t, n) == IF InFlight(t, n) \/ (n = 1 /\ Launched(t)) THEN "interrupted"
                        ELSE attempt[t][n]
             M(t, n) == IF money[t][n] = "held" /\ Orphan(t) /\ ~ Ambiguous(t) THEN "released"
                        ELSE money[t][n]
  <2>1. /\ attempt' = [t \in Task |-> [n \in Attempts |-> A(t, n)]]
        /\ money' = [t \in Task |-> [n \in Attempts |-> M(t, n)]]
    BY <1>1
  <2> HIDE DEF A, M
  <2>2. \A t \in Task, n \in Attempts : attempt'[t][n] = A(t, n) /\ money'[t][n] = M(t, n)
    BY <2>1
  <2>3. /\ attempt' \in [Task -> [Attempts -> AttemptStates]]
        /\ money' \in [Task -> [Attempts -> {"none", "held", "settled", "released"}]]
    BY <1>3, <2>1, <2>2
  <2>4. row' \in [Task -> TaskStates] /\ node' \in [Task -> NodeStates]
    BY <1>1 DEF IInv, Typed, TaskStates, Statuses, NodeStates
  <2> QED BY <1>1, <2>3, <2>4 DEF IInv, Typed
<1>5. Driving'
  BY <1>1 DEF IInv, Driving
<1>6. ASSUME NEW t \in Task PROVE Fits(t)'
  <2> USE OneCall
  <2>1. pc[t] \in Resting /\ ~ driven[t]
    BY <1>1 DEF IInv, Driving
  <2>2. /\ row'[t] = IF Launched(t) THEN "blocked"
                     ELSE IF row[t] = "running" THEN "returned_to_lead" ELSE row[t]
        /\ node'[t] = IF Launched(t) THEN "blocked" ELSE node[t]
    BY <1>1
  <2>3. Attempted(t)'
    BY <1>1, <2>1, <2>2 DEF Attempted, Resting, Active, Threads, Launched
  <2>4. NodeFits(t)'
    BY <1>1, <2>1 DEF NodeFits
  <2>5. Told(t)'
    <3>1. told[t] # "none" => ~ Launched(t) /\ row[t] # "running"
      BY DEF Told, Launched, Statuses, AttemptOf, Typed
    <3>2. told[t] = "succeeded" => attempt'[t][number[t]] = "succeeded"
      BY <1>3, <3>1 DEF Told, InFlight
    <3> QED BY <1>1, <2>2, <3>1, <3>2 DEF Told, Statuses
  <2>6. MoneyFits(t)' /\ Rested(t)'
    BY <1>1, <1>2, <1>3 DEF MoneyFits, Rested
  <2> QED BY <2>3, <2>4, <2>5, <2>6 DEF Fits
<1>7. SpentTwice'
  <2>1. ASSUME NEW f, NEW t \in Task, SpentBy(f, t) PROVE SpentBy(f, t)'
    <3>1. attempt'[t][1] \in Failure /\ attempt'[t][2] \in Failure
      BY <1>3, <2>1, OneCall DEF SpentBy, Failure
    <3> QED BY <1>1, <2>1, <3>1 DEF SpentBy
  <2> QED BY <1>1, <2>1 DEF IInv, SpentTwice
<1>8. SpentKnown' /\ NotDownYet'
  BY <1>1 DEF SpentKnown, NotDownYet
<1> QED BY <1>4, <1>5, <1>6, <1>7, <1>8 DEF IInv

-----------------------------------------------------------------------------
(* The theorems. *)

LEMMA InitFits == Init => IInv
<1> SUFFICES ASSUME Init PROVE IInv
  OBVIOUS
<1>1. /\ row = [t \in Task |-> "none"] /\ attempt = [t \in Task |-> <<"none", "none">>]
      /\ node = [t \in Task |-> "none"] /\ money = [t \in Task |-> <<"none", "none">>]
      /\ usage = [t \in Task |-> <<"none", "none">>] /\ ended = FALSE
      /\ registry = [t \in Task |-> "none"] /\ exhausted = [f \in Fingerprint |-> 0]
      /\ planned = [t \in Task |-> NoPlan] /\ nodeOf = {} /\ stage = "idle" /\ runs = 0
      /\ runOf = [t \in Task |-> 0] /\ pc = [t \in Task |-> "none"]
      /\ number = [t \in Task |-> 1] /\ out = [t \in Task |-> "none"]
      /\ driven = [t \in Task |-> FALSE] /\ told = [t \in Task |-> "none"]
      /\ stops = 0 /\ spent = {}
  BY DEF Init
<1>2. Typed
  <2>1. /\ attempt \in [Task -> [Attempts -> AttemptStates]]
        /\ money \in [Task -> [Attempts -> {"none", "held", "settled", "released"}]]
        /\ usage \in [Task -> [Attempts -> {"none", "open", "measured", "uncertain"}]]
    BY <1>1 DEF Attempts, AttemptStates
  <2>2. /\ number \in [Task -> Attempts] /\ DOMAIN planned = Task /\ nodeOf \subseteq Task
        /\ pc \in [Task -> Places] /\ exhausted \in [Fingerprint -> Nat] /\ runOf \in [Task -> Nat]
    BY <1>1 DEF Attempts, Places
  <2>3. /\ row \in [Task -> TaskStates] /\ registry \in [Task -> TaskStates]
        /\ node \in [Task -> NodeStates] /\ out \in [Task -> Statuses \cup {"none"}]
        /\ driven \in [Task -> BOOLEAN] /\ told \in [Task -> Statuses \cup {"none", "refused"}]
    BY <1>1 DEF TaskStates, NodeStates
  <2> QED BY <1>1, <2>1, <2>2, <2>3 DEF Typed
<1>3. Driving /\ SpentTwice /\ SpentKnown /\ NotDownYet
  BY <1>1 DEF Driving, OnLoop, SpentTwice, SpentKnown, NotDownYet
<1>4. ASSUME NEW t \in Task PROVE Fits(t)
  BY <1>1 DEF Fits, Attempted, NodeFits, Told, MoneyFits, Rested, Held, Active, Threads, Statuses,
              Attempts
<1> QED BY <1>2, <1>3, <1>4 DEF IInv

LEMMA NextKeeps == IInv /\ [Next]_vars => IInv'
<1> SUFFICES ASSUME IInv, [Next]_vars PROVE IInv'
  OBVIOUS
<1>1. CASE StartRun \/ AssignBatch \/ LeadContinues \/ Completes
  BY <1>1, StartRunKeeps, AssignBatchKeeps, LeadContinuesKeeps, CompletesKeeps
<1>2. CASE Cancel \/ Fails
  <2>1. EndRun
    BY <1>2 DEF Cancel, Fails
  <2>2. stage \in {"lead", "tools"}
    <3>1. \A t \in Task : pc[t] = "raised" => stage \in {"assigning", "tools"}
      BY DEF IInv, Driving, OnLoop
    <3> QED BY <1>2, <3>1 DEF Cancel, Fails
  <2> QED BY <2>1, <2>2, EndRunKeeps
<1>3. CASE Stop \/ Continue \/ Resume
  BY <1>3, StopKeeps, ContinueKeeps, ResumeKeeps
<1>4. CASE \E batch \in SUBSET Task : Admit(batch) \/ AdmitFails(batch)
  BY <1>4, AdmitKeeps, AdmitFailsKeeps
<1>5. ASSUME NEW t \in Task,
             \/ AnswerRefused(t) \/ AssignFirst(t) \/ Start(t) \/ Granted(t)
             \/ \E status \in Outcomes, calling \in Accounts : Returns(t, status, calling)
             \/ SettleRows(t) \/ SettleNode(t) \/ Raises(t) \/ CloseTask(t) \/ Requeue(t)
             \/ CreateSecond(t) \/ RouteSecond(t)
      PROVE  IInv'
  BY <1>5, AnswerRefusedKeeps, AssignFirstKeeps, StartKeeps, GrantedKeeps, ReturnsKeeps, SettleRowsKeeps,
     SettleNodeKeeps, RaisesKeeps, CloseTaskKeeps, RequeueKeeps, CreateSecondKeeps, RouteSecondKeeps
<1>6. CASE UNCHANGED vars
  <2> USE <1>6 DEF vars, journal, memory, calls, process
  <2>1. \A t \in Task : Fits(t)'
    BY DEF IInv, Fits, Attempted, NodeFits, Told, MoneyFits, Rested, Held, Retried
  <2>2. Typed' /\ Driving' /\ SpentTwice' /\ SpentKnown' /\ NotDownYet'
    BY DEF IInv, Typed, Driving, SpentTwice, SpentKnown, NotDownYet, SpentBy
  <2> QED BY <2>1, <2>2 DEF IInv
<1> QED BY <1>1, <1>2, <1>3, <1>4, <1>5, <1>6 DEF Next

\* The invariant holds throughout: rows, attempts, plan node, money, registry and the
\* place of each call agree (assign_attempt, run_attempt, evaluate, the end of a run,
\* load_from_journal, recover_session).
THEOREM DelegationInvariance == Spec => []IInv
<1>1. Spec => Init /\ [][Next]_vars
  BY DEF Spec
<1> QED BY <1>1, InitFits, NextKeeps, PTL

\* What the lead was told of a task is what the journal says of it, in every later run,
\* after cancellations, stops and recoveries (evaluate, record_settle, emit_task,
\* _settle_plan_node, reconcile_plan_node_executions).
THEOREM LeadHearsTheJournal == Spec => []VerdictAgrees
<1>1. IInv => VerdictAgrees
  BY DEF IInv, Fits, Told, VerdictAgrees
<1> QED BY <1>1, DelegationInvariance, PTL

\* Between runs money is held only for a call of unknown outcome, or for a second
\* attempt that a thread was routing while its run ended
\* (_finalize_assignment_budget, _finalize_child_budgets).
THEOREM RestHoldsNothing == Spec => []EndedHoldsNothing
<1>1. IInv => EndedHoldsNothing
  BY DEF IInv, Fits, Rested, Resting, Held, AtRest, EndedHoldsNothing
<1> QED BY <1>1, DelegationInvariance, PTL

\* A task gets its row when its batch is admitted, and in no other way.
LEMMA RowsAreAdmitted ==
  ASSUME IInv, [Next]_vars, NEW t \in Task, row[t] = "none", row'[t] # "none"
  PROVE  stage = "lead" /\ \E new \in SUBSET Task : t \in new /\ Registrable(new)
<1> USE OneCall
<1>1. ASSUME NEW u \in Task,
             \/ AnswerRefused(u) \/ AssignFirst(u) \/ Start(u) \/ Granted(u)
             \/ \E status \in Outcomes, calling \in Accounts : Returns(u, status, calling)
             \/ SettleRows(u) \/ SettleNode(u) \/ Raises(u) \/ CloseTask(u) \/ Requeue(u)
             \/ CreateSecond(u) \/ RouteSecond(u)
      PROVE  row'[t] = "none"
  <2>1. CASE UNCHANGED row
    BY <2>1
  <2>2. CASE pc[u] \in Active /\ \E value : row' = [row EXCEPT ![u] = value]
    <3>1. u # t
      BY <2>2 DEF Attempted
    <3> QED BY <2>2, <3>1 DEF Typed
  <2>3. CASE Granted(u) \/ AnswerRefused(u) \/ Raises(u) \/ CloseTask(u) \/ Requeue(u) \/ SettleNode(u)
             \/ \E status \in Outcomes, calling \in Accounts : Returns(u, status, calling)
    BY <2>1, <2>3 DEF Granted, AnswerRefused, Raises, CloseTask, Requeue, FinalizesMoney, SettleNode,
                      Returns, journal
  <2>4. CASE Start(u) \/ SettleRows(u)
    BY <2>2, <2>4 DEF Start, SettleRows, Active, Threads
  <2>5. CASE AssignFirst(u) \/ CreateSecond(u) \/ RouteSecond(u)
    <3>1. pc[u] \in Active
      BY <2>5 DEF AssignFirst, CreateSecond, RouteSecond, Active, Threads
    <3>2. UNCHANGED row \/ \E value : row' = [row EXCEPT ![u] = value]
      BY <2>5 DEF AssignFirst, CreateSecond, RouteSecond, Blocks
    <3> QED BY <2>1, <2>2, <3>1, <3>2
  <2> QED BY <1>1, <2>3, <2>4, <2>5
<1>2. CASE Resume
  BY <1>2 DEF Resume, Launched, Attempted
<1>3. CASE \/ StartRun \/ AssignBatch \/ LeadContinues \/ Completes \/ Cancel \/ Fails \/ Stop
           \/ Continue \/ UNCHANGED vars \/ \E batch \in SUBSET Task : AdmitFails(batch)
  BY <1>3 DEF StartRun, AssignBatch, LeadContinues, Completes, Cancel, Fails, EndRun, Stop, Continue,
              AdmitFails, vars, journal
<1>4. ASSUME NEW batch \in SUBSET Task, Admit(batch)
      PROVE  stage = "lead" /\ \E new \in SUBSET Task : t \in new /\ Registrable(new)
  <2> DEFINE new == IF Registrable(Decoded(batch)) THEN Decoded(batch) ELSE {}
  <2>1. stage = "lead" /\ row' = [u \in Task |-> IF u \in new THEN "queued" ELSE row[u]]
    BY <1>4 DEF Admit
  <2>2. t \in new
    BY <2>1
  <2>3. t \in Decoded(batch) /\ Registrable(Decoded(batch)) /\ Decoded(batch) \in SUBSET Task
    BY <2>2 DEF Decoded
  <2> QED BY <2>1, <2>3
<1> QED BY <1>1, <1>2, <1>3, <1>4 DEF Next

\* A fingerprint whose second attempt has failed is not attempted again in the session,
\* in any later run, with recovery or without (register_many, load_from_journal).
THEOREM NoThirdAttempt == Spec => ExhaustedStaysExhausted
<1>1. ASSUME IInv, [Next]_vars, NEW t \in Task, row[t] = "none", row'[t] # "none",
             Packet[t].fp \in spent
      PROVE  FALSE
  <2>1. stage = "lead" /\ \E new \in SUBSET Task : t \in new /\ Registrable(new)
    BY <1>1, RowsAreAdmitted
  <2>2. exhausted[Packet[t].fp] \in Nat
    BY <1>1, DelegationAssumption DEF IInv, Typed
  <2>3. \/ exhausted[Packet[t].fp] >= 2
        \/ \E u \in Task : Packet[u].fp = Packet[t].fp /\ registry[u] # "none"
    BY <1>1, <2>1 DEF IInv, SpentKnown
  <2> QED BY <2>1, <2>2, <2>3 DEF Registrable
<1>2. IInv /\ [Next]_vars =>
        [\A t \in Task : row[t] = "none" /\ row'[t] # "none" => Packet[t].fp \notin spent]_vars
  BY <1>1
<1>3. Spec => [][Next]_vars
  BY DEF Spec
<1> QED BY <1>2, <1>3, DelegationInvariance, PTL DEF ExhaustedStaysExhausted

=============================================================================
