------------------------------- MODULE TuiProofs -------------------------------
(***************************************************************************)
(* Theorems about the terminal, for any number of prompts, interrupts,     *)
(* answers and commands: every prompt is in exactly one place until the    *)
(* application quits, and one worker at a time is inside the controller;   *)
(* and about the view it shows, for any writers, tasks, nodes, tools,      *)
(* transactions, snapshots and restarts: it is what the journal describes, *)
(* but for a plan node whose events reach it out of order.                 *)
(***************************************************************************)
EXTENDS Terminal, Projection, FiniteSetTheorems, WellFoundedInduction, TLAPS

-----------------------------------------------------------------------------
(***************************************************************************)
(* Sequences of prompts.  What enters the invariants is the set of prompts *)
(* a sequence holds and that it holds none of them twice.                  *)
(***************************************************************************)
Once(s) == \A i, j \in DOMAIN s : s[i] = s[j] => i = j

\* The prompts that posted messages carry; a command carries none.
Carried(s) == {s[i].prompt : i \in DOMAIN s} \ {0}
CarriedOnce(s) == \A i, j \in DOMAIN s : s[i].prompt = s[j].prompt => i = j \/ s[i].prompt = 0

\* The empty sequence holds nothing.
LEMMA NothingHeld == ToSet(<<>>) = {} /\ Once(<<>>) /\ Carried(<<>>) = {} /\ CarriedOnce(<<>>)
BY DEF ToSet, Once, Carried, CarriedOnce

\* A prompt that is appended is held as well.
LEMMA AppendHolds ==
  ASSUME NEW S, NEW s \in Seq(S), NEW p \in S
  PROVE  /\ Append(s, p) \in Seq(S)
         /\ ToSet(Append(s, p)) = ToSet(s) \cup {p}
         /\ Once(s) /\ p \notin ToSet(s) => Once(Append(s, p))
<1>1. /\ Append(s, p) \in Seq(S) /\ DOMAIN Append(s, p) = 1..(Len(s) + 1)
      /\ DOMAIN s = 1..Len(s) /\ Len(s) \in Nat
      /\ Append(s, p)[Len(s) + 1] = p
      /\ \A i \in 1..Len(s) : Append(s, p)[i] = s[i]
  OBVIOUS
<1>2. ToSet(Append(s, p)) = ToSet(s) \cup {p}
  <2>1. \A x : x \in ToSet(Append(s, p)) => x \in ToSet(s) \cup {p}
    BY <1>1 DEF ToSet
  <2>2. \A x : x \in ToSet(s) \cup {p} => x \in ToSet(Append(s, p))
    BY <1>1 DEF ToSet
  <2> QED BY <2>1, <2>2
<1>3. ASSUME Once(s), p \notin ToSet(s) PROVE Once(Append(s, p))
  BY <1>1, <1>3 DEF Once, ToSet
<1> QED BY <1>1, <1>2, <1>3

\* Taking the head of a sequence takes one prompt out of it.
LEMMA TailHolds ==
  ASSUME NEW S, NEW s \in Seq(S), s # <<>>
  PROVE  /\ Head(s) \in S /\ Tail(s) \in Seq(S)
         /\ ToSet(s) = {Head(s)} \cup ToSet(Tail(s))
         /\ Once(s) => Once(Tail(s)) /\ Head(s) \notin ToSet(Tail(s))
<1>1. /\ Head(s) \in S /\ Tail(s) \in Seq(S) /\ Head(s) = s[1]
      /\ DOMAIN Tail(s) = 1..(Len(s) - 1) /\ DOMAIN s = 1..Len(s) /\ Len(s) \in Nat \ {0}
      /\ \A i \in 1..(Len(s) - 1) : Tail(s)[i] = s[i + 1]
  OBVIOUS
<1>2. ToSet(s) = {Head(s)} \cup ToSet(Tail(s))
  <2>1. ASSUME NEW i \in DOMAIN s PROVE s[i] \in {Head(s)} \cup ToSet(Tail(s))
    <3>1. CASE i = 1
      BY <1>1, <3>1
    <3>2. CASE i # 1
      <4>1. i - 1 \in DOMAIN Tail(s) /\ Tail(s)[i - 1] = s[i]
        BY <1>1, <3>2
      <4> QED BY <4>1 DEF ToSet
    <3> QED BY <3>1, <3>2
  <2>2. ASSUME NEW i \in DOMAIN Tail(s) PROVE Tail(s)[i] \in ToSet(s)
    <3>1. i + 1 \in DOMAIN s /\ Tail(s)[i] = s[i + 1]
      BY <1>1
    <3> QED BY <3>1 DEF ToSet
  <2>3. Head(s) \in ToSet(s)
    <3>1. 1 \in DOMAIN s
      BY <1>1
    <3> QED BY <1>1, <3>1 DEF ToSet
  <2> QED BY <2>1, <2>2, <2>3 DEF ToSet
<1>3. ASSUME Once(s) PROVE Once(Tail(s)) /\ Head(s) \notin ToSet(Tail(s))
  <2>1. \A i \in DOMAIN Tail(s) : i + 1 \in DOMAIN s /\ Tail(s)[i] = s[i + 1]
    BY <1>1
  <2>2. 1 \in DOMAIN s /\ \A i \in DOMAIN Tail(s) : i + 1 # 1 /\ i \in Nat
    BY <1>1
  <2>3. Once(Tail(s))
    BY <1>3, <2>1, <2>2 DEF Once
  <2>4. Head(s) \notin ToSet(Tail(s))
    BY <1>1, <1>3, <2>1, <2>2 DEF Once, ToSet
  <2> QED BY <2>3, <2>4
<1> QED BY <1>1, <1>2, <1>3

\* Two sequences one after the other hold what each of them holds.
LEMMA JoinHolds ==
  ASSUME NEW S, NEW s \in Seq(S), NEW t \in Seq(S)
  PROVE  /\ s \o t \in Seq(S)
         /\ ToSet(s \o t) = ToSet(s) \cup ToSet(t)
         /\ Once(s) /\ Once(t) /\ ToSet(s) \cap ToSet(t) = {} => Once(s \o t)
<1>1. /\ s \o t \in Seq(S) /\ DOMAIN (s \o t) = 1..(Len(s) + Len(t))
      /\ DOMAIN s = 1..Len(s) /\ DOMAIN t = 1..Len(t) /\ Len(s) \in Nat /\ Len(t) \in Nat
      /\ \A i \in 1..Len(s) : (s \o t)[i] = s[i]
      /\ \A i \in 1..Len(t) : (s \o t)[Len(s) + i] = t[i]
  OBVIOUS
<1>2. ASSUME NEW i \in DOMAIN (s \o t)
      PROVE  \/ i \in DOMAIN s /\ (s \o t)[i] = s[i]
             \/ i - Len(s) \in DOMAIN t /\ (s \o t)[i] = t[i - Len(s)]
  <2>1. CASE i <= Len(s)
    BY <1>1, <2>1
  <2>2. CASE i > Len(s)
    <3>1. i - Len(s) \in 1..Len(t) /\ Len(s) + (i - Len(s)) = i
      BY <1>1, <2>2
    <3> QED BY <1>1, <3>1
  <2> QED BY <1>1, <2>1, <2>2
<1>3. ToSet(s \o t) = ToSet(s) \cup ToSet(t)
  <2>1. \A x : x \in ToSet(s \o t) => x \in ToSet(s) \cup ToSet(t)
    BY <1>2 DEF ToSet
  <2>2. \A x : x \in ToSet(s) => x \in ToSet(s \o t)
    BY <1>1 DEF ToSet
  <2>3. ASSUME NEW i \in DOMAIN t PROVE t[i] \in ToSet(s \o t)
    <3>1. Len(s) + i \in DOMAIN (s \o t) /\ (s \o t)[Len(s) + i] = t[i]
      BY <1>1
    <3> QED BY <3>1 DEF ToSet
  <2> QED BY <2>1, <2>2, <2>3 DEF ToSet
<1>4. ASSUME Once(s), Once(t), ToSet(s) \cap ToSet(t) = {} PROVE Once(s \o t)
  <2> SUFFICES ASSUME NEW i \in DOMAIN (s \o t), NEW j \in DOMAIN (s \o t),
                      (s \o t)[i] = (s \o t)[j]
               PROVE  i = j
    BY DEF Once
  <2>1. i \in Nat /\ j \in Nat /\ Len(s) \in Nat
    BY <1>1
  <2>2. CASE i \in DOMAIN s /\ (s \o t)[i] = s[i] /\ j \in DOMAIN s /\ (s \o t)[j] = s[j]
    BY <1>4, <2>2 DEF Once
  <2>3. CASE /\ i - Len(s) \in DOMAIN t /\ (s \o t)[i] = t[i - Len(s)]
             /\ j - Len(s) \in DOMAIN t /\ (s \o t)[j] = t[j - Len(s)]
    <3>1. i - Len(s) = j - Len(s)
      BY <1>4, <2>3 DEF Once
    <3> QED BY <2>1, <3>1
  <2>4. \A m \in DOMAIN s, n \in DOMAIN t : s[m] # t[n]
    BY <1>4 DEF ToSet
  <2> QED BY <1>2, <2>2, <2>3, <2>4
<1> QED BY <1>1, <1>3, <1>4

\* A message that is posted carries its prompt, a command nothing.
LEMMA PostCarries ==
  ASSUME NEW s \in Seq(Message), NEW m \in Message
  PROVE  /\ Append(s, m) \in Seq(Message)
         /\ Carried(Append(s, m)) = Carried(s) \cup ({m.prompt} \ {0})
         /\ CarriedOnce(s) /\ m.prompt \notin Carried(s) => CarriedOnce(Append(s, m))
<1>1. /\ Append(s, m) \in Seq(Message) /\ DOMAIN Append(s, m) = 1..(Len(s) + 1)
      /\ DOMAIN s = 1..Len(s) /\ Len(s) \in Nat
      /\ Append(s, m)[Len(s) + 1] = m
      /\ \A i \in 1..Len(s) : Append(s, m)[i] = s[i]
  OBVIOUS
<1> HIDE DEF Message
<1>2. Carried(Append(s, m)) = Carried(s) \cup ({m.prompt} \ {0})
  <2>1. \A x : x \in Carried(Append(s, m)) => x \in Carried(s) \cup ({m.prompt} \ {0})
    BY <1>1 DEF Carried
  <2>2. \A x : x \in Carried(s) \cup ({m.prompt} \ {0}) => x \in Carried(Append(s, m))
    BY <1>1 DEF Carried
  <2> QED BY <2>1, <2>2
<1>3. ASSUME CarriedOnce(s), m.prompt \notin Carried(s) PROVE CarriedOnce(Append(s, m))
  BY <1>1, <1>3 DEF CarriedOnce, Carried
<1> QED BY <1>1, <1>2, <1>3

\* Handling a message takes its prompt out of what is posted.
LEMMA HandlingCarries ==
  ASSUME NEW s \in Seq(Message), s # <<>>
  PROVE  /\ Head(s) \in Message /\ Tail(s) \in Seq(Message)
         /\ Carried(s) = ({Head(s).prompt} \ {0}) \cup Carried(Tail(s))
         /\ CarriedOnce(s) => CarriedOnce(Tail(s)) /\ Head(s).prompt \notin Carried(Tail(s))
<1>1. /\ Head(s) \in Message /\ Tail(s) \in Seq(Message) /\ Head(s) = s[1]
      /\ DOMAIN Tail(s) = 1..(Len(s) - 1) /\ DOMAIN s = 1..Len(s) /\ Len(s) \in Nat \ {0}
      /\ \A i \in 1..(Len(s) - 1) : Tail(s)[i] = s[i + 1]
  OBVIOUS
<1>2. /\ \A i \in DOMAIN Tail(s) : i + 1 \in DOMAIN s /\ Tail(s)[i] = s[i + 1] /\ i + 1 # 1 /\ i \in Nat
      /\ 1 \in DOMAIN s
  BY <1>1
<1>3. \A i \in DOMAIN s : i = 1 \/ (i - 1 \in DOMAIN Tail(s) /\ Tail(s)[i - 1] = s[i])
  BY <1>1
<1>4. Carried(s) = ({Head(s).prompt} \ {0}) \cup Carried(Tail(s))
  <2>1. \A x : x \in Carried(s) => x \in ({Head(s).prompt} \ {0}) \cup Carried(Tail(s))
    BY <1>1, <1>3 DEF Carried
  <2>2. \A x : x \in ({Head(s).prompt} \ {0}) \cup Carried(Tail(s)) => x \in Carried(s)
    BY <1>1, <1>2 DEF Carried
  <2> QED BY <2>1, <2>2
<1>5. ASSUME CarriedOnce(s) PROVE CarriedOnce(Tail(s)) /\ Head(s).prompt \notin Carried(Tail(s))
  <2>1. CarriedOnce(Tail(s))
    BY <1>2, <1>5 DEF CarriedOnce
  <2>2. Head(s).prompt \notin Carried(Tail(s))
    BY <1>1, <1>2, <1>5 DEF CarriedOnce, Carried
  <2> QED BY <2>1, <2>2
<1> QED BY <1>1, <1>4, <1>5

-----------------------------------------------------------------------------
(***************************************************************************)
(* What is counted.                                                        *)
(***************************************************************************)
\* A set whose elements are all the same has at most one.
LEMMA AtMostOne ==
  ASSUME NEW S, \A x, y \in S : x = y
  PROVE  Cardinality(S) = IF S = {} THEN 0 ELSE 1
<1>1. CASE S = {}
  BY <1>1, FS_EmptySet
<1>2. CASE S # {}
  <2>1. PICK x \in S : S = {x}
    BY <1>2
  <2> QED BY <1>2, <2>1, FS_Singleton
<1> QED BY <1>1, <1>2

\* A sequence without repetitions holds a prompt once or not at all.
LEMMA OccursOnce ==
  ASSUME NEW s, Once(s), NEW p
  PROVE  Occurrences(p, s) = IF p \in ToSet(s) THEN 1 ELSE 0
<1> DEFINE spots == {i \in DOMAIN s : s[i] = p}
<1>1. Cardinality(spots) = IF spots = {} THEN 0 ELSE 1
  <2>1. \A x, y \in spots : x = y
    BY DEF Once
  <2> HIDE DEF spots
  <2> QED BY <2>1, AtMostOne
<1>2. spots = {} <=> p \notin ToSet(s)
  BY DEF ToSet
<1> QED BY <1>1, <1>2 DEF Occurrences

\* So do the messages that are posted.
LEMMA PostedOnce ==
  ASSUME CarriedOnce(inbox), NEW p, p # 0
  PROVE  Posted(p) = IF p \in Carried(inbox) THEN 1 ELSE 0
<1> DEFINE spots == {i \in DOMAIN inbox : inbox[i].prompt = p}
<1>1. Cardinality(spots) = IF spots = {} THEN 0 ELSE 1
  <2>1. \A x, y \in spots : x = y
    BY DEF CarriedOnce
  <2> HIDE DEF spots
  <2> QED BY <2>1, AtMostOne
<1>2. spots = {} <=> p \notin Carried(inbox)
  BY DEF Carried
<1> QED BY <1>1, <1>2 DEF Posted

\* A sequence that repeats no prompt is no longer than there are prompts.
LEMMA OnceIsShort ==
  ASSUME NEW S, NEW s \in Seq(S), NEW n \in Nat, Once(s), ToSet(s) \subseteq 1..n
  PROVE  Len(s) <= n
<1>1. s \in Injection(1..Len(s), 1..n)
  <2>1. s \in [1..Len(s) -> 1..n]
    BY DEF ToSet
  <2>2. \A a, b \in 1..Len(s) : s[a] = s[b] => a = b
    BY DEF Once
  <2> QED BY <2>1, <2>2 DEF Injection, IsInjective
<1>2. Len(s) \in Nat
  OBVIOUS
<1>3. \A m \in Nat : IsFiniteSet(1..m) /\ Cardinality(1..m) = m
  <2> TAKE m \in Nat
  <2>1. 1 \in Int /\ m \in Int
    OBVIOUS
  <2>2. IsFiniteSet(1..m) /\ Cardinality(1..m) = IF 1 > m THEN 0 ELSE m - 1 + 1
    BY <2>1, FS_Interval, Zenon
  <2> QED BY <2>2
<1>4. Cardinality(1..Len(s)) <= Cardinality(1..n)
  BY <1>1, <1>2, <1>3, FS_Injection
<1> QED BY <1>2, <1>3, <1>4


-----------------------------------------------------------------------------
(***************************************************************************)
(* The invariant.                                                          *)
(***************************************************************************)
Held == Carried(inbox) \cup ToSet(pending) \cup ToSet(queue) \cup ToSet(started) \cup shown

\* No prompt is in two places, or twice in one, and until the person quits all
\* that were typed are somewhere.
InOnePlace ==
  /\ CarriedOnce(inbox) /\ Once(pending) /\ Once(queue) /\ Once(started)
  /\ Carried(inbox) \cap (ToSet(pending) \cup ToSet(queue) \cup ToSet(started) \cup shown) = {}
  /\ ToSet(pending) \cap (ToSet(queue) \cup ToSet(started) \cup shown) = {}
  /\ ToSet(queue) \cap (ToSet(started) \cup shown) = {}
  /\ ToSet(started) \cap shown = {}
  /\ Held \subseteq 1..typed
  /\ appState \notin {"quitting", "exited"} => 1..typed \subseteq Held

\* A worker that waits follows the one born before it.  Whoever was not told to
\* stop has only waiting workers after it, the newest of them still there: so
\* there is nothing the application could start beside it.
InLine(W, b) ==
  /\ \A v \in W : v.id <= b
  /\ \A u, v \in W : u.id = v.id => u = v
  /\ \A v \in W : v.at = "following" => v.after = v.id - 1
  /\ \A u, v \in W : ~u.told /\ u.id < v.id => v.at = "following"
  /\ \A u \in W : ~u.told => IsUnfinished(b, W)

\* Nobody works before there is a controller, and who is parked has asked.
WorkersFit ==
  /\ active = born /\ InLine(workers, born)
  /\ appState \in {"initializing", "selection_required", "error"} => workers = {}
  /\ waiting # "none" => asked >= 1
  /\ \A v \in workers : v.at = "parked" => asked >= 1

\* Every worker runs a prompt or an answer.
BornOnce == Len(started) <= born /\ born <= Len(started) + MaxAnswers

IInv == TerminalTypeOK /\ InOnePlace /\ WorkersFit /\ BornOnce

\* The parts of the type that workers and prompts have, one by one.
LEMMA Bounds ==
  /\ MaxPrompts \in Nat /\ MaxInterrupts \in Nat /\ MaxAnswers \in Nat /\ MaxCommands \in Nat
  /\ MaxWorkers \in Nat /\ MaxPrompts <= MaxWorkers
BY TerminalBounds DEF MaxWorkers

\* There are no more workers than prompts and answers.
LEMMA WorkersBounded ==
  ASSUME NEW s \in Seq(Prompts), NEW n \in 0..MaxPrompts, Once(s), ToSet(s) \subseteq 1..n,
         NEW b \in Nat, b <= Len(s) + MaxAnswers
  PROVE  b \in 0..MaxWorkers
<1>1. Len(s) <= n
  BY OnceIsShort, Bounds
<1>2. Len(s) \in Nat
  OBVIOUS
<1> QED BY <1>1, <1>2, Bounds DEF MaxWorkers

\* The terminal starts with nothing anywhere.
LEMMA InitIInv == Init => IInv
<1> SUFFICES ASSUME Init PROVE IInv
  OBVIOUS
<1> USE Bounds DEF Init
<1>1. TerminalTypeOK
  <2>1. /\ <<>> \in Seq(Message) /\ <<>> \in Seq(Prompts)
        /\ composer.items = <<>> /\ composer.active = FALSE
    OBVIOUS
  <2>2. asked \in 0..MaxInterrupts /\ open \subseteq 1..asked /\ logged \in 0..asked
    BY TerminalBounds DEF Kinds
  <2>3. card \in Cards /\ waiting \in {"none"} \cup Kinds
    BY DEF Cards
  <2>4. 0 \in 0..MaxPrompts /\ 0 \in 0..MaxCommands /\ 0 \in 0..MaxWorkers /\ 0 \in 0..0
    OBVIOUS
  <2> QED BY <2>1, <2>2, <2>3, <2>4 DEF TerminalTypeOK
<1>2. InOnePlace
  BY NothingHeld DEF InOnePlace, Held
<1>3. WorkersFit
  BY DEF WorkersFit, InLine, Kinds
<1>4. BornOnce
  BY DEF BornOnce
<1> QED BY <1>1, <1>2, <1>3, <1>4 DEF IInv

-----------------------------------------------------------------------------
\* The two properties follow from the invariant.  What is in one place is
\* counted once.
LEMMA InvariantKeepsPrompts == IInv => NoPromptVanishes
<1> SUFFICES ASSUME IInv, appState \notin {"quitting", "exited"}, NEW p \in (1..typed) \ takenBack
             PROVE  Posted(p) + Occurrences(p, pending) + Occurrences(p, queue)
                      + Occurrences(p, started) + (IF p \in shown THEN 1 ELSE 0) = 1
  BY DEF NoPromptVanishes
<1>1. /\ Posted(p) = IF p \in Carried(inbox) THEN 1 ELSE 0
      /\ Occurrences(p, pending) = IF p \in ToSet(pending) THEN 1 ELSE 0
      /\ Occurrences(p, queue) = IF p \in ToSet(queue) THEN 1 ELSE 0
      /\ Occurrences(p, started) = IF p \in ToSet(started) THEN 1 ELSE 0
  <2>1. p # 0
    BY DEF IInv, TerminalTypeOK
  <2> QED BY <2>1, OccursOnce, PostedOnce DEF IInv, InOnePlace
<1>2. p \in Held
  BY DEF IInv, InOnePlace
<1> QED BY <1>1, <1>2 DEF IInv, InOnePlace, Held

\* Of two workers in the controller the later one would have to wait.
LEMMA InvariantIsExclusive == IInv => OneForegroundRun
<1> SUFFICES ASSUME IInv PROVE Cardinality(InController) <= 1
  BY DEF OneForegroundRun
<1>1. ASSUME NEW u \in InController, NEW v \in InController PROVE u = v
  <2>1. /\ u \in workers /\ ~u.told /\ u.at # "following" /\ u.id \in Nat
        /\ v \in workers /\ ~v.told /\ v.at # "following" /\ v.id \in Nat
    BY Bounds DEF InController, IInv, TerminalTypeOK, Worker
  <2>2. ~(u.id < v.id) /\ ~(v.id < u.id)
    BY <2>1 DEF IInv, WorkersFit, InLine
  <2>3. u.id = v.id
    BY <2>1, <2>2
  <2> QED BY <2>1, <2>3 DEF IInv, WorkersFit, InLine
<1> QED BY <1>1, AtMostOne


-----------------------------------------------------------------------------
(***************************************************************************)
(* The queue between two workers.                                          *)
(***************************************************************************)
Gone == {"quitting", "exited"}

\* The queue rests, is discarded with a message, gives its head to a new worker,
\* or is forgotten by an application that ends.
Rests == UNCHANGED <<queue, shown, started>>
Discards == queue' = <<>> /\ shown' = shown \cup ToSet(queue) /\ started' = started
Follows ==
  /\ queue # <<>> /\ queue' = Tail(queue)
  /\ started' = Append(started, Head(queue)) /\ shown' = shown
Forgets ==
  /\ appState' \in Gone
  /\ \/ queue' \in {queue, <<>>}
     \/ queue # <<>> /\ queue' = Tail(queue)
  /\ UNCHANGED <<shown, started>>

PromptsTyped ==
  /\ queue \in Seq(Prompts) /\ started \in Seq(Prompts) /\ pending \in Seq(Prompts)
  /\ inbox \in Seq(Message) /\ shown \subseteq Prompts /\ typed \in 0..MaxPrompts

\* Whatever becomes of the queue, a prompt stays in one place.
LEMMA QueueKeepsPlaces ==
  ASSUME PromptsTyped, InOnePlace, UNCHANGED <<pending, typed>>,
         inbox' \in Seq(Message), CarriedOnce(inbox'), Carried(inbox') = Carried(inbox),
         appState \in Gone => appState' \in Gone,
         Rests \/ Discards \/ Follows \/ Forgets
  PROVE  PromptsTyped' /\ InOnePlace'
<1> USE DEF Held
<1>1. CASE Rests
  BY <1>1 DEF Rests, PromptsTyped, InOnePlace, Gone
<1>2. CASE Discards
  <2>1. queue' \in Seq(Prompts) /\ ToSet(queue') = {} /\ Once(queue')
    BY <1>2, NothingHeld DEF Discards
  <2>2. ToSet(queue) \subseteq Prompts
    <3>1. 1..typed \subseteq Prompts
      BY Bounds DEF PromptsTyped, Prompts
    <3> QED BY <3>1 DEF InOnePlace
  <2>3. PromptsTyped'
    BY <1>2, <2>1, <2>2 DEF Discards, PromptsTyped
  <2>4. InOnePlace'
    BY <1>2, <2>1 DEF Discards, InOnePlace, Gone
  <2> QED BY <2>3, <2>4
<1>3. queue # <<>> =>
        /\ Head(queue) \in Prompts /\ Tail(queue) \in Seq(Prompts)
        /\ ToSet(queue) = {Head(queue)} \cup ToSet(Tail(queue))
        /\ Once(Tail(queue)) /\ Head(queue) \notin ToSet(Tail(queue))
  BY TailHolds DEF PromptsTyped, InOnePlace
<1>4. CASE Follows
  <2>1. /\ started' \in Seq(Prompts) /\ ToSet(started') = ToSet(started) \cup {Head(queue)}
        /\ Once(started')
    BY <1>3, <1>4, AppendHolds DEF Follows, PromptsTyped, InOnePlace
  <2>2. PromptsTyped'
    BY <1>3, <1>4, <2>1 DEF Follows, PromptsTyped
  <2>3. InOnePlace'
    BY <1>3, <1>4, <2>1 DEF Follows, InOnePlace, Gone
  <2> QED BY <2>2, <2>3
<1>5. CASE Forgets
  <2>1. queue' \in Seq(Prompts) /\ ToSet(queue') \subseteq ToSet(queue) /\ Once(queue')
    <3>1. CASE queue' = queue
      BY <3>1 DEF PromptsTyped, InOnePlace
    <3>2. CASE queue' = <<>>
      BY <3>2, NothingHeld
    <3>3. CASE queue # <<>> /\ queue' = Tail(queue)
      BY <1>3, <3>3
    <3> QED BY <1>5, <3>1, <3>2, <3>3 DEF Forgets
  <2>2. PromptsTyped'
    BY <1>5, <2>1 DEF Forgets, PromptsTyped
  <2>3. InOnePlace'
    BY <1>5, <2>1 DEF Forgets, InOnePlace, Gone
  <2> QED BY <2>2, <2>3
<1> QED BY <1>1, <1>2, <1>4, <1>5

\* In particular when nothing is posted or handled.
LEMMA QueueKeepsPrompts ==
  ASSUME PromptsTyped, InOnePlace, UNCHANGED <<inbox, pending, typed>>,
         appState \in Gone => appState' \in Gone,
         Rests \/ Discards \/ Follows \/ Forgets
  PROVE  PromptsTyped' /\ InOnePlace'
<1>1. inbox' \in Seq(Message) /\ CarriedOnce(inbox') /\ Carried(inbox') = Carried(inbox)
  BY DEF PromptsTyped, InOnePlace
<1> QED BY <1>1, QueueKeepsPlaces

-----------------------------------------------------------------------------
(***************************************************************************)
(* The line of workers.                                                    *)
(***************************************************************************)
\* A follow-up that is woken works.
LEMMA FirstStepWorks == FirstStep \in {"running", "refused"}
BY DEF FirstStep

\* A worker that ends was the first of the line: the one behind it, if any, works.
LEMMA EndsInLine ==
  ASSUME IInv, NEW w \in workers, w.at # "following",
         NEW live, live = {Woken(v, w) : v \in workers \ {w}}
  PROVE  /\ live \subseteq Worker /\ InLine(live, born)
         /\ w.id = born => ~IsUnfinished(born, live)
         /\ \A v \in live : v.at = "parked" => asked >= 1
<1>1. /\ workers \subseteq Worker /\ born \in Nat /\ InLine(workers, born)
      /\ \A v \in workers : v.at = "parked" => asked >= 1
  BY Bounds DEF IInv, TerminalTypeOK, WorkersFit
<1>2. ASSUME NEW v \in workers
      PROVE  /\ Woken(v, w) \in Worker
             /\ Woken(v, w).id = v.id /\ Woken(v, w).told = v.told
             /\ Woken(v, w).at = IF v.after = w.id THEN FirstStep ELSE v.at
             /\ Woken(v, w).after = IF v.after = w.id THEN 0 ELSE v.after
             /\ v.id \in Nat /\ v.after \in Nat
  <2>1. /\ v.id \in Nat /\ v.after \in Nat /\ 0 \in 0..MaxWorkers
        /\ FirstStep \in {"following", "refused", "running", "answering", "parked"}
    BY <1>1, FirstStepWorks, Bounds DEF Worker
  <2>2. CASE v.after = w.id
    <3>1. Woken(v, w) = [v EXCEPT !.after = 0, !.at = FirstStep]
      BY <2>2 DEF Woken
    <3> QED BY <1>1, <2>1, <2>2, <3>1 DEF Worker
  <2>3. CASE v.after # w.id
    BY <1>1, <2>1, <2>3 DEF Woken
  <2> QED BY <2>1, <2>2, <2>3
<1>3. live \subseteq Worker
  BY <1>2
<1>4. ASSUME NEW x \in live PROVE \E v \in workers \ {w} : x = Woken(v, w)
  OBVIOUS
<1>5. \A x \in live : x.id <= born
  BY <1>1, <1>2, <1>4 DEF InLine
<1>6. ASSUME NEW x \in live, NEW y \in live, x.id = y.id PROVE x = y
  <2>1. PICK u \in workers \ {w} : x = Woken(u, w)
    BY <1>4
  <2>2. PICK v \in workers \ {w} : y = Woken(v, w)
    BY <1>4
  <2>3. u = v
    BY <1>1, <1>2, <1>6, <2>1, <2>2 DEF InLine
  <2> QED BY <2>1, <2>2, <2>3
<1>7. ASSUME NEW x \in live, x.at = "following" PROVE x.after = x.id - 1
  <2>1. PICK v \in workers \ {w} : x = Woken(v, w)
    BY <1>4
  <2>2. v.after # w.id /\ x.after = v.after /\ x.id = v.id /\ v.at = "following"
    BY <1>2, <1>7, <2>1, FirstStepWorks
  <2> QED BY <1>1, <2>2 DEF InLine
<1>8. ASSUME NEW x \in live, NEW y \in live, ~x.told, x.id < y.id PROVE y.at = "following"
  <2>1. PICK u \in workers \ {w} : x = Woken(u, w)
    BY <1>4
  <2>2. PICK v \in workers \ {w} : y = Woken(v, w)
    BY <1>4
  <2>3. ~u.told /\ u.id < v.id /\ u.id \in Nat /\ v.id \in Nat /\ w.id \in Nat
    BY <1>2, <1>8, <2>1, <2>2
  <2>4. v.at = "following"
    BY <1>1, <2>3 DEF InLine
  <2>5. v.after = v.id - 1
    BY <1>1, <2>4 DEF InLine
  <2>6. v.after # w.id
    <3>1. SUFFICES ASSUME v.after = w.id PROVE FALSE
      OBVIOUS
    <3>2. u.id <= w.id
      BY <2>3, <2>5, <3>1
    <3>3. u.id # w.id
      BY <1>1 DEF InLine
    <3>4. u.id < w.id
      BY <2>3, <3>2, <3>3
    <3> QED BY <1>1, <2>3, <3>4 DEF InLine
  <2> QED BY <1>2, <2>2, <2>4, <2>6
<1>9. ASSUME NEW x \in live, ~x.told PROVE IsUnfinished(born, live)
  <2>1. PICK u \in workers \ {w} : x = Woken(u, w)
    BY <1>4
  <2>2. ~u.told /\ u.id \in Nat /\ w.id \in Nat
    BY <1>2, <1>9, <2>1
  <2>3. PICK v \in workers : v.id = born
    BY <1>1, <2>2 DEF InLine, IsUnfinished
  <2>4. v # w
    <3>1. SUFFICES ASSUME v = w PROVE FALSE
      OBVIOUS
    <3>2. u.id < w.id
      BY <1>1, <2>2, <2>3, <3>1 DEF InLine
    <3> QED BY <1>1, <2>2, <3>2 DEF InLine
  <2>5. Woken(v, w) \in live /\ Woken(v, w).id = born
    BY <1>2, <2>3, <2>4
  <2> QED BY <2>5 DEF IsUnfinished
<1>10. ASSUME w.id = born, IsUnfinished(born, live) PROVE FALSE
  <2>1. PICK x \in live : x.id = born
    BY <1>10 DEF IsUnfinished
  <2>2. PICK v \in workers \ {w} : x = Woken(v, w)
    BY <1>4
  <2> QED BY <1>1, <1>2, <1>10, <2>1, <2>2 DEF InLine
<1>11. ASSUME NEW x \in live, x.at = "parked" PROVE asked >= 1
  <2>1. PICK v \in workers \ {w} : x = Woken(v, w)
    BY <1>4
  <2> QED BY <1>1, <1>2, <1>11, <2>1, FirstStepWorks
<1>12. InLine(live, born)
  BY <1>5, <1>6, <1>7, <1>8, <1>9 DEF InLine
<1> QED BY <1>3, <1>10, <1>11, <1>12


\* A worker is started when none is left in the line.
LEMMA StartsAlone ==
  ASSUME NEW b \in Nat, NEW W, InLine(W, b), ~IsUnfinished(b, W), W \subseteq Worker,
         NEW n, n.id = b + 1, n.at # "following", ~n.told
  PROVE  InLine(W \cup {n}, b + 1)
<1>1. \A v \in W : v.told /\ v.id <= b /\ v.id \in Nat
  BY Bounds DEF InLine, Worker
<1> QED BY <1>1 DEF InLine, IsUnfinished

\* A follow-up is put behind the newest.
LEMMA StartsBehind ==
  ASSUME NEW b \in Nat, NEW W, InLine(W, b), W \subseteq Worker,
         NEW n, n.id = b + 1, n.at = "following", n.after = b, ~n.told
  PROVE  InLine(W \cup {n}, b + 1)
<1>1. \A v \in W : v.id <= b /\ v.id \in Nat
  BY Bounds DEF InLine, Worker
<1> QED BY <1>1 DEF InLine, IsUnfinished

Stopped(W, c) == {IF v \in c THEN ToldToStop(v) ELSE v : v \in W}

\* A worker that is told to stop leaves the line as it is.
LEMMA StopsInLine ==
  ASSUME NEW b \in Nat, NEW W, InLine(W, b), W \subseteq Worker, NEW c, NEW U,
         U = Stopped(W, c)
  PROVE  U \subseteq Worker /\ InLine(U, b) /\ (\A x \in U : \E v \in W : x.at = v.at)
<1> DEFINE f(v) == IF v \in c THEN ToldToStop(v) ELSE v
<1>1. ASSUME NEW v \in W
      PROVE  /\ f(v) \in Worker /\ f(v).id = v.id /\ f(v).at = v.at /\ f(v).after = v.after
             /\ f(v).told \in BOOLEAN
             /\ ~f(v).told => ~v.told
  BY DEF ToldToStop, Worker
<1>2. U = {f(v) : v \in W}
  BY DEF Stopped
<1> HIDE DEF f
<1>3. U \subseteq Worker /\ \A x \in U : \E v \in W : x.at = v.at
  BY <1>1, <1>2
<1>4. ASSUME NEW u \in W, NEW v \in W PROVE f(u).id = f(v).id => f(u) = f(v)
  <2>1. f(u).id = f(v).id => u = v
    BY <1>1 DEF InLine
  <2> QED BY <2>1
<1>5. IsUnfinished(b, W) => IsUnfinished(b, U)
  BY <1>1, <1>2 DEF IsUnfinished
<1>6. /\ \A v \in W : f(v).id <= b
      /\ \A v \in W : f(v).at = "following" => f(v).after = f(v).id - 1
      /\ \A u, v \in W : ~f(u).told /\ f(u).id < f(v).id => f(v).at = "following"
      /\ \A u \in W : ~f(u).told => IsUnfinished(b, U)
  BY <1>1, <1>5 DEF InLine
<1>7. InLine(U, b)
  <2>1. \A x \in U : \E v \in W : x = f(v)
    BY <1>2
  <2>2. \A x, y \in U : x.id = y.id => x = y
    BY <1>4, <2>1
  <2>3. /\ \A x \in U : x.id <= b /\ (x.at = "following" => x.after = x.id - 1)
        /\ \A x, y \in U : ~x.told /\ x.id < y.id => y.at = "following"
        /\ \A x \in U : ~x.told => IsUnfinished(b, U)
    BY <1>6, <2>1
  <2> QED BY <2>2, <2>3 DEF InLine
<1> QED BY <1>3, <1>7

\* When all are told to stop, a worker may start at once.
LEMMA StartsOverAll ==
  ASSUME NEW b \in Nat, NEW W, InLine(W, b), W \subseteq Worker,
         NEW n, n.id = b + 1, n.at # "following", ~n.told,
         NEW U, U = {ToldToStop(v) : v \in W} \cup {n}
  PROVE  InLine(U, b + 1) /\ \A x \in U \ {n} : x \in Worker /\ \E v \in W : x.at = v.at
<1>1. ASSUME NEW v \in W
      PROVE  /\ ToldToStop(v) \in Worker /\ ToldToStop(v).id = v.id /\ ToldToStop(v).at = v.at
             /\ ToldToStop(v).after = v.after /\ ToldToStop(v).told
             /\ v.id \in Nat /\ v.id <= b
  <2>1. v.id \in Nat /\ v \in Worker
    BY Bounds DEF Worker
  <2>2. /\ ToldToStop(v) \in Worker /\ ToldToStop(v).id = v.id /\ ToldToStop(v).at = v.at
        /\ ToldToStop(v).after = v.after /\ ToldToStop(v).told
    BY <2>1 DEF ToldToStop, Worker
  <2> QED BY <2>1, <2>2 DEF InLine
<1>2. ASSUME NEW u \in W, NEW v \in W PROVE ToldToStop(u).id = ToldToStop(v).id => ToldToStop(u) = ToldToStop(v)
  <2>1. ToldToStop(u).id = ToldToStop(v).id => u = v
    BY <1>1 DEF InLine
  <2> QED BY <2>1
<1> DEFINE T == {ToldToStop(v) : v \in W}
<1>3. \A x \in T : \E v \in W : x = ToldToStop(v)
  OBVIOUS
<1>4. /\ \A x \in T : /\ x \in Worker /\ x.told /\ x.id \in Nat /\ x.id <= b
                      /\ x.at = "following" => x.after = x.id - 1
                      /\ \E v \in W : x.at = v.at
      /\ \A x, y \in T : x.id = y.id => x = y
  BY <1>1, <1>2, <1>3 DEF InLine
<1> HIDE DEF T
<1>5. U = T \cup {n}
  BY DEF T
<1>6. InLine(U, b + 1)
  BY <1>4, <1>5 DEF InLine, IsUnfinished
<1> QED BY <1>4, <1>5, <1>6

\* A worker that moves on inside the controller stays the first of the line.
LEMMA MovesInLine ==
  ASSUME NEW b \in Nat, NEW W, InLine(W, b), W \subseteq Worker, NEW w \in W, w.at # "following",
         NEW at \in {"running", "parked"}, NEW U, U = (W \ {w}) \cup {[w EXCEPT !.at = at]}
  PROVE  U \subseteq Worker /\ InLine(U, b)
<1> DEFINE m == [w EXCEPT !.at = at]
<1>1. /\ m \in Worker /\ m.id = w.id /\ m.told = w.told /\ m.at # "following"
      /\ \A v \in W : v.id \in Nat
  BY Bounds DEF Worker
<1>2. U = (W \ {w}) \cup {m}
  OBVIOUS
<1> HIDE DEF m
<1>3. \A v \in W : v.told \in BOOLEAN
  BY DEF Worker
<1>4. /\ \A v \in U : v.id <= b
      /\ \A u, v \in U : u.id = v.id => u = v
      /\ \A v \in U : v.at = "following" => v.after = v.id - 1
  BY <1>1, <1>2 DEF InLine
<1>5. \A u, v \in U : ~u.told /\ u.id < v.id => v.at = "following"
  BY <1>1, <1>2 DEF InLine
<1>6. IsUnfinished(b, W) => IsUnfinished(b, U)
  BY <1>1, <1>2 DEF IsUnfinished
<1>7. \A u \in U : ~u.told => IsUnfinished(b, U)
  BY <1>1, <1>2, <1>6 DEF InLine
<1> QED BY <1>1, <1>2, <1>4, <1>5, <1>7 DEF InLine


-----------------------------------------------------------------------------
(***************************************************************************)
(* A worker that ends, and the prompt that follows it.                     *)
(***************************************************************************)
ScreenTyped ==
  /\ appState \in {"initializing", "selection_required", "error", "ready", "quitting", "exited"}
  /\ runActive \in BOOLEAN
  /\ waiting \in {"none"} \cup Kinds
  /\ asked \in 0..MaxInterrupts /\ open \subseteq 1..asked /\ logged \in 0..asked
  /\ card \in Cards
  /\ commands \in 0..MaxCommands /\ takenBack \subseteq Prompts

ComposerTyped == composer.items \in Seq(Prompts) /\ composer.active \in BOOLEAN

WorkersTyped == workers \subseteq Worker /\ born \in 0..MaxWorkers /\ {active, leaving} \subseteq 0..born

\* The type, in parts.
LEMMA Typed ==
  ASSUME IInv
  PROVE  /\ PromptsTyped /\ ScreenTyped /\ ComposerTyped /\ WorkersTyped
         /\ born \in Nat /\ active \in Nat /\ asked \in Nat
BY Bounds DEF IInv, TerminalTypeOK, PromptsTyped, ScreenTyped, ComposerTyped, WorkersTyped

\* And back, after a step.
LEMMA Gathered ==
  ASSUME PromptsTyped', ScreenTyped', ComposerTyped', WorkersTyped',
         InOnePlace', WorkersFit', BornOnce'
  PROVE  IInv'
<1>1. TerminalTypeOK'
  BY DEF TerminalTypeOK, PromptsTyped, ScreenTyped, ComposerTyped, WorkersTyped
<1> QED BY <1>1 DEF IInv

\* The composer takes over what the application shows it.
LEMMA Refreshed ==
  ASSUME PromptsTyped', runActive' \in BOOLEAN, Refresh PROVE ComposerTyped'
BY DEF Refresh, ComposerTyped, PromptsTyped

\* The end of a worker starts no follow-up, one alone, or one behind the newest.
LEMMA NextOutcome ==
  ASSUME IInv, NEW w \in workers, w.at # "following", appState # "exited",
         NEW items, NEW ec \in BOOLEAN, StartNextQueuedPrompt(w, items, ec),
         NEW live, live = {Woken(v, w) : v \in workers \ {w}},
         \/ items = queue /\ UNCHANGED shown
         \/ items = <<>> /\ DiscardingQueue
  PROVE  /\ appState' \in {appState, "exited"} /\ runActive' \in BOOLEAN
         /\ \/ NoSpawn(live) /\ (Rests \/ Discards \/ Forgets)
            \/ Follows /\ ~IsUnfinished(active, live) /\ Spawn(Head(queue), live)
            \/ Follows /\ IsUnfinished(active, live) /\ SpawnBehind(Head(queue), live)
<1> DEFINE starts == card' = NoCard /\ appState = "ready" /\ runActive /\ items # <<>>
           behind == \E v \in workers : v.after = w.id
           goes == ec /\ (behind \/ (starts /\ active = w.id))
           idle == IsUnfinished(active, live)
<1>1. /\ IF goes THEN appState' = "exited" ELSE UNCHANGED appState
      /\ queue' = IF starts THEN Tail(items)
                  ELSE IF appState = "quitting" /\ card' = NoCard THEN <<>> ELSE items
      /\ runActive' = (runActive /\ (starts \/ card' # NoCard))
      /\ CASE ~starts -> NoSpawn(live)
           [] starts /\ active = w.id /\ ec -> NoSpawn(live)
           [] starts /\ ~idle /\ ~(active = w.id /\ ec) -> Spawn(Head(items), live)
           [] starts /\ idle -> SpawnBehind(Head(items), live)
  BY DEF StartNextQueuedPrompt
<1>2. active = w.id => ~idle
  BY EndsInLine DEF IInv, WorkersFit
<1>3. items = queue \/ items = <<>>
  OBVIOUS
<1>4. starts => items = queue /\ queue # <<>> /\ shown' = shown
  OBVIOUS
<1>5. starts => appState = "ready"
  OBVIOUS
<1>6. appState' \in {appState, "exited"} /\ runActive' \in BOOLEAN
  <2>1. runActive \in BOOLEAN /\ starts \in BOOLEAN
    BY Typed DEF ScreenTyped, starts
  <2>2. runActive' \in BOOLEAN
    BY <1>1, <2>1
  <2> QED BY <1>1, <2>2
<1> HIDE DEF starts, behind, idle
<1>7. CASE ~starts
  <2>1. NoSpawn(live)
    BY <1>1, <1>7
  <2>2. Rests \/ Discards \/ Forgets
    <3>1. started' = started
      BY <2>1 DEF NoSpawn
    <3>2. CASE items = queue /\ UNCHANGED shown
      <4>1. CASE appState = "quitting" /\ card' = NoCard
        BY <1>1, <1>7, <3>1, <3>2, <4>1 DEF Forgets, Gone
      <4>2. CASE ~(appState = "quitting" /\ card' = NoCard)
        BY <1>1, <1>7, <3>1, <3>2, <4>2 DEF Rests
      <4> QED BY <4>1, <4>2
    <3>3. CASE items = <<>> /\ DiscardingQueue
      BY <1>1, <1>7, <3>1, <3>3 DEF Discards, DiscardingQueue
    <3> QED BY <3>2, <3>3
  <2> QED BY <1>6, <2>1, <2>2
<1>8. CASE starts /\ active = w.id /\ ec
  <2>1. NoSpawn(live)
    BY <1>1, <1>2, <1>8
  <2>2. appState' = "exited" /\ queue' = Tail(queue) /\ queue # <<>> /\ shown' = shown
    BY <1>1, <1>4, <1>8
  <2>3. Forgets
    BY <2>1, <2>2 DEF Forgets, Gone, NoSpawn
  <2> QED BY <1>6, <2>1, <2>3
<1>9. CASE starts /\ ~idle /\ ~(active = w.id /\ ec)
  <2>1. Spawn(Head(queue), live)
    BY <1>1, <1>4, <1>9
  <2>2. Follows
    BY <1>1, <1>4, <1>9, <2>1 DEF Follows, Spawn, SpawnAs, NewWorker
  <2> QED BY <1>6, <1>9, <2>1, <2>2 DEF idle
<1>10. CASE starts /\ idle
  <2>1. SpawnBehind(Head(queue), live)
    BY <1>1, <1>2, <1>4, <1>10
  <2>2. Follows
    BY <1>1, <1>4, <1>10, <2>1 DEF Follows, SpawnBehind, SpawnAs, NewWorker
  <2> QED BY <1>6, <1>10, <2>1, <2>2 DEF idle
<1> QED BY <1>2, <1>7, <1>8, <1>9, <1>10


\* A prompt is given to a worker: there are no more workers than there may be.
LEMMA WorkerStarts ==
  ASSUME IInv, NEW live, live \subseteq Worker, NEW p \in Prompts,
         NEW at \in {"following", "running", "refused"}, NEW after \in 0..born,
         SpawnAs(NewWorker(p, at, after), live),
         InLine(live \cup {NewWorker(p, at, after)}, born + 1),
         \A v \in live : v.at = "parked" => asked >= 1,
         PromptsTyped', InOnePlace', UNCHANGED leaving,
         appState' \notin {"initializing", "selection_required", "error"},
         asked' \in Nat, asked' >= asked, waiting' # "none" => asked' >= 1
  PROVE  WorkersTyped' /\ WorkersFit' /\ BornOnce'
<1> DEFINE n == NewWorker(p, at, after)
<1>1. n = [id |-> born + 1, prompt |-> p, at |-> at, after |-> after, told |-> FALSE, cancelled |-> FALSE]
  BY DEF NewWorker
<1>2. /\ workers' = live \cup {n} /\ born' = born + 1 /\ active' = born + 1
      /\ started' = Append(started, p)
  BY <1>1 DEF SpawnAs
<1> HIDE DEF n
<1>3. /\ PromptsTyped /\ WorkersTyped /\ born \in Nat /\ asked \in Nat
      /\ Len(started) <= born /\ born <= Len(started) + MaxAnswers
  BY Typed DEF IInv, BornOnce
<1>4. Len(started') = Len(started) + 1 /\ Len(started) \in Nat
  BY <1>2, <1>3 DEF PromptsTyped
<1>5. BornOnce'
  BY <1>2, <1>3, <1>4, Bounds DEF BornOnce
<1>6. born' \in 0..MaxWorkers
  <2>1. /\ started' \in Seq(Prompts) /\ typed' \in 0..MaxPrompts
        /\ Once(started') /\ ToSet(started') \subseteq 1..typed'
    BY DEF PromptsTyped, InOnePlace, Held
  <2>2. born' \in Nat /\ born' <= Len(started') + MaxAnswers
    BY <1>2, <1>3, <1>5 DEF BornOnce
  <2> QED BY <2>1, <2>2, WorkersBounded
<1>7. n \in Worker
  BY <1>1, <1>2, <1>3, <1>6, Bounds DEF Worker, Prompts
<1>8. WorkersTyped'
  BY <1>2, <1>3, <1>6, <1>7 DEF WorkersTyped
<1>9. WorkersFit'
  <2>1. InLine(workers', born')
    BY <1>2 DEF n
  <2>2. n.at # "parked"
    BY <1>1
  <2>3. \A v \in workers' : v.at = "parked" => asked' >= 1
    BY <1>2, <1>3, <2>2
  <2> QED BY <1>2, <2>1, <2>3 DEF WorkersFit
<1> QED BY <1>5, <1>8, <1>9

\* Nobody is started: fewer workers, or the same further on, are in order.
LEMMA NobodyStarts ==
  ASSUME IInv, workers' \subseteq Worker, InLine(workers', born),
         UNCHANGED <<born, active, started>>, leaving' \in {leaving, active},
         \A v \in workers' : v.at = "parked" => asked' >= 1,
         appState' \in {"initializing", "selection_required", "error"} => workers' = {},
         waiting' # "none" => asked' >= 1
  PROVE  WorkersTyped' /\ WorkersFit' /\ BornOnce'
<1>1. WorkersTyped'
  BY Typed DEF WorkersTyped
<1>2. WorkersFit'
  BY DEF WorkersFit, IInv
<1>3. BornOnce'
  BY DEF BornOnce, IInv
<1> QED BY <1>1, <1>2, <1>3

\* The end of a worker, whatever it brings about.
LEMMA EndKeeps ==
  ASSUME IInv, NEW w \in workers, w.at # "following", appState # "exited",
         NEW items, NEW ec \in BOOLEAN, StartNextQueuedPrompt(w, items, ec),
         \/ items = queue /\ UNCHANGED shown
         \/ items = <<>> /\ DiscardingQueue,
         UNCHANGED <<leaving, desk, pending>>,
         asked' \in Nat, asked' >= asked, waiting' # "none" => asked' >= 1
  PROVE  /\ PromptsTyped' /\ InOnePlace' /\ WorkersTyped' /\ WorkersFit' /\ BornOnce'
         /\ appState' \in {appState, "exited"} /\ runActive' \in BOOLEAN
<1> DEFINE live == {Woken(v, w) : v \in workers \ {w}}
<1>1. /\ live \subseteq Worker /\ InLine(live, born)
      /\ \A v \in live : v.at = "parked" => asked >= 1
  BY EndsInLine
<1>2. /\ appState' \in {appState, "exited"} /\ runActive' \in BOOLEAN
      /\ \/ NoSpawn(live) /\ (Rests \/ Discards \/ Forgets)
         \/ Follows /\ ~IsUnfinished(active, live) /\ Spawn(Head(queue), live)
         \/ Follows /\ IsUnfinished(active, live) /\ SpawnBehind(Head(queue), live)
  BY NextOutcome
<1> HIDE DEF live
<1>3. PromptsTyped' /\ InOnePlace'
  <2>1. UNCHANGED <<inbox, pending, typed>> /\ PromptsTyped /\ InOnePlace
    BY Typed DEF desk, IInv
  <2>2. appState \in Gone => appState' \in Gone
    BY <1>2 DEF Gone
  <2> QED BY <1>2, <2>1, <2>2, QueueKeepsPrompts
<1>4. /\ appState' \notin {"initializing", "selection_required", "error"}
      /\ active = born /\ born \in Nat /\ asked \in Nat /\ UNCHANGED leaving
  BY <1>2, Typed DEF IInv, WorkersFit
<1>5. CASE NoSpawn(live)
  <2>1. workers' = live /\ UNCHANGED <<born, active, started>>
    BY <1>5 DEF NoSpawn
  <2>2. \A v \in workers' : v.at = "parked" => asked' >= 1
    BY <1>1, <1>4, <2>1
  <2> QED BY <1>1, <1>2, <1>3, <1>4, <2>1, <2>2, NobodyStarts
<1>6. CASE Follows /\ ~IsUnfinished(active, live) /\ Spawn(Head(queue), live)
  <2> DEFINE n == NewWorker(Head(queue), FirstStep, 0)
  <2>1. Head(queue) \in Prompts
    BY <1>6, TailHolds, Typed DEF Follows, PromptsTyped
  <2>2. n.id = born + 1 /\ n.at = FirstStep /\ n.told = FALSE
    BY DEF NewWorker
  <2>3. FirstStep \in {"following", "running", "refused"} /\ n.at # "following" /\ ~n.told
    BY <2>2, FirstStepWorks
  <2>4. SpawnAs(n, live)
    BY <1>6 DEF Spawn
  <2> HIDE DEF n
  <2>5. InLine(live \cup {n}, born + 1)
    BY <1>1, <1>4, <1>6, <2>2, <2>3, StartsAlone
  <2>6. 0 \in 0..born
    BY <1>4
  <2>7. WorkersTyped' /\ WorkersFit' /\ BornOnce'
    BY <1>1, <1>3, <1>4, <2>1, <2>3, <2>4, <2>5, <2>6, WorkerStarts DEF n
  <2> QED BY <1>2, <1>3, <2>7
<1>7. CASE Follows /\ SpawnBehind(Head(queue), live)
  <2> DEFINE n == NewWorker(Head(queue), "following", active)
  <2>1. Head(queue) \in Prompts
    BY <1>7, TailHolds, Typed DEF Follows, PromptsTyped
  <2>2. n.id = born + 1 /\ n.at = "following" /\ n.after = born /\ n.told = FALSE
    BY <1>4 DEF NewWorker
  <2>3. SpawnAs(n, live)
    BY <1>7 DEF SpawnBehind
  <2> HIDE DEF n
  <2>4. InLine(live \cup {n}, born + 1)
    BY <1>1, <1>4, <2>2, StartsBehind
  <2>5. active \in 0..born
    BY <1>4
  <2>6. WorkersTyped' /\ WorkersFit' /\ BornOnce'
    BY <1>1, <1>3, <1>4, <2>1, <2>3, <2>4, <2>5, WorkerStarts DEF n
  <2> QED BY <1>2, <1>3, <2>6
<1> QED BY <1>2, <1>5, <1>6, <1>7


-----------------------------------------------------------------------------
(***************************************************************************)
(* The steps of workers.                                                   *)
(***************************************************************************)
\* A card of an interrupt that was raised is one of the cards.
LEMMA CardTyped == ASSUME NEW kind \in Kinds, NEW id \in 1..MaxInterrupts PROVE Card(kind, id) \in Cards
BY DEF Card, Cards

\* The end of a worker keeps the invariant if what it shows and what the
\* controller says are of their types.
LEMMA EndGathers ==
  ASSUME IInv, NEW w \in workers, w.at # "following", appState # "exited",
         NEW items, NEW ec \in BOOLEAN, StartNextQueuedPrompt(w, items, ec),
         \/ items = queue /\ UNCHANGED shown
         \/ items = <<>> /\ DiscardingQueue,
         UNCHANGED <<leaving, desk, pending>>, Refresh,
         waiting' \in {"none"} \cup Kinds, waiting' # "none" => asked' >= 1,
         asked' \in 0..MaxInterrupts, asked' >= asked,
         open' \subseteq 1..asked', logged' \in 0..asked', card' \in Cards
  PROVE  IInv'
<1>1. /\ PromptsTyped' /\ InOnePlace' /\ WorkersTyped' /\ WorkersFit' /\ BornOnce'
      /\ appState' \in {appState, "exited"} /\ runActive' \in BOOLEAN
  <2>1. asked' \in Nat
    BY Bounds
  <2> QED BY <2>1, EndKeeps
<1>2. ScreenTyped'
  <2>1. ScreenTyped /\ commands' = commands /\ takenBack' = takenBack
    BY Typed DEF desk
  <2> QED BY <1>1, <2>1 DEF ScreenTyped
<1>3. ComposerTyped'
  BY <1>1, Refreshed
<1> QED BY <1>1, <1>2, <1>3, Gathered

\* What the controller and the card are in a state of the invariant.
LEMMA ControllerTyped ==
  ASSUME IInv
  PROVE  /\ waiting \in {"none"} \cup Kinds /\ (waiting # "none" => asked >= 1)
         /\ asked \in 0..MaxInterrupts /\ asked \in Nat /\ asked >= asked
         /\ open \subseteq 1..asked /\ logged \in 0..asked /\ card \in Cards
         /\ \A v \in workers : v.at = "parked" => asked >= 1
BY Typed DEF ScreenTyped, IInv, WorkersFit

\* A run that ends clears its card unless its question is still pending.
LEMMA RunEndsIInv ==
  ASSUME IInv, appState # "exited", NEW w \in workers, RunEnds(w) PROVE IInv'
<1>1. /\ w.at = "running" /\ UNCHANGED <<open, logged>> /\ waiting' = "none"
      /\ card' = CardAfterResult
      /\ UNCHANGED <<leaving, desk, pending, asked>> /\ Refresh
  BY DEF RunEnds, Ends
<1>2. PICK items : /\ StartNextQueuedPrompt(w, items, FALSE)
                   /\ (items = queue /\ UNCHANGED shown) \/ (items = <<>> /\ DiscardingQueue)
  BY DEF RunEnds
<1>3. card' \in Cards
  <2>1. CASE card.kind = "question" /\ card.id \in open
    <3>1. card.id \in 1..MaxInterrupts
      BY <2>1, ControllerTyped, Bounds
    <3> QED BY <1>1, <2>1, <3>1, CardTyped DEF CardAfterResult, Kinds
  <2>2. CASE ~(card.kind = "question" /\ card.id \in open)
    BY <1>1, <2>2 DEF CardAfterResult, Cards
  <2> QED BY <2>1, <2>2
<1> QED BY <1>1, <1>2, <1>3, ControllerTyped, EndGathers

\* A run that fails discards the queue.
LEMMA RunFailsIInv ==
  ASSUME IInv, appState # "exited", NEW w \in workers, RunFails(w) PROVE IInv'
<1>1. /\ w.at # "following" /\ UNCHANGED <<open, logged>> /\ waiting' \in {waiting, "none"}
      /\ card' = card
      /\ StartNextQueuedPrompt(w, <<>>, FALSE) /\ DiscardingQueue
      /\ UNCHANGED <<leaving, desk, pending, asked>> /\ Refresh
  BY DEF RunFails, Ends
<1> QED BY <1>1, ControllerTyped, EndGathers

\* So does a run that was cancelled, but for one that resumed.
LEMMA RunCancelledIInv ==
  ASSUME IInv, appState # "exited", NEW w \in workers, RunCancelled(w) PROVE IInv'
<1>1. /\ w.at # "following" /\ UNCHANGED <<open, logged>> /\ waiting' \in {waiting, "none"}
      /\ card' = card
      /\ UNCHANGED <<leaving, desk, pending, asked>> /\ Refresh
  BY DEF RunCancelled, Ends
<1>2. CASE w.prompt = 0
  <2>1. StartNextQueuedPrompt(w, queue, TRUE) /\ UNCHANGED shown
    BY <1>2 DEF RunCancelled
  <2> QED BY <1>1, <2>1, ControllerTyped, EndGathers
<1>3. CASE w.prompt # 0
  <2>1. StartNextQueuedPrompt(w, <<>>, FALSE) /\ DiscardingQueue
    BY <1>3 DEF RunCancelled
  <2> QED BY <1>1, <2>1, ControllerTyped, EndGathers
<1> QED BY <1>2, <1>3

\* The result of a parked run shows its card.
LEMMA ParkedResultIInv ==
  ASSUME IInv, appState # "exited", NEW w \in workers, ParkedResult(w) PROVE IInv'
<1>1. /\ w.at = "parked" /\ UNCHANGED <<shown, waiting, open, logged>>
      /\ card' = Card(IF waiting = "none" THEN "question" ELSE waiting, asked)
      /\ StartNextQueuedPrompt(w, queue, FALSE)
      /\ UNCHANGED <<leaving, desk, pending, asked>> /\ Refresh
  BY DEF ParkedResult, Ends
<1>2. card' \in Cards
  <2>1. asked \in 1..MaxInterrupts
    BY <1>1, ControllerTyped, Bounds
  <2>2. (IF waiting = "none" THEN "question" ELSE waiting) \in Kinds
    BY ControllerTyped DEF Kinds
  <2> QED BY <1>1, <2>1, <2>2, CardTyped
<1> QED BY <1>1, <1>2, ControllerTyped, EndGathers

\* A resumed run that asks again tells it by its result alone.
LEMMA ResumedRunParksIInv ==
  ASSUME IInv, appState # "exited", NEW w \in workers, ResumedRunParks(w) PROVE IInv'
<1>1. PICK kind \in Kinds :
        /\ w.at = "running" /\ asked < MaxInterrupts /\ asked' = asked + 1
        /\ waiting' = kind /\ UNCHANGED logged
        /\ open' = IF kind = "question" THEN open \cup {asked'} ELSE open
        /\ card' = Card(kind, asked')
        /\ StartNextQueuedPrompt(w, queue, FALSE)
        /\ UNCHANGED <<leaving, desk, pending, shown>> /\ Refresh
  BY DEF ResumedRunParks
<1>2. /\ asked' \in 1..MaxInterrupts /\ asked' \in 0..MaxInterrupts /\ asked' >= asked /\ asked' >= 1
      /\ open' \subseteq 1..asked' /\ logged' \in 0..asked'
  BY <1>1, ControllerTyped, Bounds
<1>3. card' \in Cards
  BY <1>1, <1>2, CardTyped
<1> QED BY <1>1, <1>2, <1>3, EndGathers


\* Workers move on or are told to stop: prompts stay where they are.
LEMMA MoveGathers ==
  ASSUME IInv, workers' \subseteq Worker, InLine(workers', born),
         UNCHANGED <<born, active, started, leaving, desk, pending, queue, shown>>,
         appState \in Gone => appState' \in Gone,
         \A v \in workers' : v.at = "parked" => asked' >= 1,
         appState' \in {"initializing", "selection_required", "error"} => workers' = {},
         waiting' # "none" => asked' >= 1,
         ScreenTyped', ComposerTyped'
  PROVE  IInv'
<1>1. PromptsTyped' /\ InOnePlace'
  <2>1. UNCHANGED <<inbox, pending, typed>> /\ PromptsTyped /\ InOnePlace /\ Rests
    BY Typed DEF desk, IInv, Rests
  <2> QED BY <2>1, QueueKeepsPrompts
<1>2. WorkersTyped' /\ WorkersFit' /\ BornOnce'
  BY NobodyStarts
<1> QED BY <1>1, <1>2, Gathered

\* Only a controller has workers.
LEMMA WorkersWork ==
  ASSUME IInv, workers # {} PROVE appState \notin {"initializing", "selection_required", "error"}
BY DEF IInv, WorkersFit

\* A run that asks stays inside the controller until its result is there.
LEMMA RunParksIInv ==
  ASSUME IInv, appState # "exited", NEW w \in workers, RunParks(w) PROVE IInv'
<1>1. PICK kind \in Kinds :
        /\ w.at = "running" /\ asked < MaxInterrupts /\ asked' = asked + 1
        /\ waiting' = kind
        /\ open' = IF kind = "question" THEN open \cup {asked'} ELSE open
        /\ logged' = IF kind = "question" THEN asked' ELSE logged
        /\ card' = IF kind = "question" THEN Card(kind, asked') ELSE card
        /\ workers' = At(w, "parked")
        /\ UNCHANGED <<app, desk, pending, queue, runActive, active, born, started, shown>>
        /\ Refresh
  BY DEF RunParks
<1>2. /\ asked' \in 1..MaxInterrupts /\ asked' \in 0..MaxInterrupts /\ asked' >= asked /\ asked' >= 1
      /\ open' \subseteq 1..asked' /\ logged' \in 0..asked'
  BY <1>1, ControllerTyped, Bounds
<1>3. card' \in Cards
  BY <1>1, <1>2, ControllerTyped, CardTyped
<1>4. ScreenTyped'
  BY <1>1, <1>2, <1>3, Typed DEF ScreenTyped, app, desk
<1>5. ComposerTyped'
  BY <1>1, Typed DEF ComposerTyped, PromptsTyped, ScreenTyped, Refresh
<1>6. workers' \subseteq Worker /\ InLine(workers', born)
  <2>1. workers \subseteq Worker /\ InLine(workers, born) /\ born \in Nat
    BY Typed DEF WorkersTyped, IInv, WorkersFit
  <2>2. workers' = (workers \ {w}) \cup {[w EXCEPT !.at = "parked"]}
    BY <1>1 DEF At
  <2> QED BY <1>1, <2>1, <2>2, MovesInLine
<1>7. /\ appState' = appState /\ appState \notin {"initializing", "selection_required", "error"}
      /\ UNCHANGED leaving
  BY <1>1, WorkersWork DEF app
<1> QED BY <1>1, <1>2, <1>4, <1>5, <1>6, <1>7, MoveGathers

\* A resumed run takes the answer and goes on.
LEMMA TakeAnswerIInv ==
  ASSUME IInv, appState # "exited", NEW w \in workers, TakeAnswer(w) PROVE IInv'
<1>1. /\ w.at = "answering" /\ waiting # "none"
      /\ open' = open \ {asked}
      /\ logged' = IF waiting = "question" /\ logged = asked THEN 0 ELSE logged
      /\ card' = IF waiting = "question" /\ card.kind = "question" /\ card.id = asked
                 THEN NoCard ELSE card
      /\ workers' = At(w, "running")
      /\ UNCHANGED <<app, desk, pending, queue, runActive, active, born, started, shown, waiting, asked>>
      /\ Refresh
  BY DEF TakeAnswer
<1>2. open' \subseteq 1..asked' /\ logged' \in 0..asked' /\ card' \in Cards /\ asked' >= 1
  BY <1>1, ControllerTyped, Bounds DEF Cards
<1>3. ScreenTyped'
  BY <1>1, <1>2, Typed DEF ScreenTyped, app, desk
<1>4. ComposerTyped'
  BY <1>1, Typed DEF ComposerTyped, PromptsTyped, ScreenTyped, Refresh
<1>5. workers' \subseteq Worker /\ InLine(workers', born)
  <2>1. workers \subseteq Worker /\ InLine(workers, born) /\ born \in Nat
    BY Typed DEF WorkersTyped, IInv, WorkersFit
  <2>2. workers' = (workers \ {w}) \cup {[w EXCEPT !.at = "running"]}
    BY <1>1 DEF At
  <2> QED BY <1>1, <2>1, <2>2, MovesInLine
<1>6. /\ appState' = appState /\ appState \notin {"initializing", "selection_required", "error"}
      /\ UNCHANGED leaving
  BY <1>1, WorkersWork DEF app
<1> QED BY <1>1, <1>2, <1>3, <1>4, <1>5, <1>6, MoveGathers

\* Every step of a worker keeps the invariant.
LEMMA WorkerStepIInv == ASSUME IInv, WorkerStep PROVE IInv'
<1>1. appState # "exited"
  BY DEF WorkerStep
<1>2. PICK w \in workers : RunSteps(w)
  BY DEF WorkerStep
<1> QED BY <1>1, <1>2, RunEndsIInv, RunFailsIInv, RunCancelledIInv, RunParksIInv,
           ParkedResultIInv, ResumedRunParksIInv, TakeAnswerIInv DEF RunSteps


-----------------------------------------------------------------------------
(***************************************************************************)
(* The composer.                                                           *)
(***************************************************************************)
\* Steps that leave the workers as they are.
LEMMA WorkersRest ==
  ASSUME IInv, UNCHANGED <<workers, born, active, started, leaving, waiting, asked>>,
         appState' \in {"initializing", "selection_required", "error"} => workers = {}
  PROVE  WorkersTyped' /\ WorkersFit' /\ BornOnce'
<1>1. workers \subseteq Worker /\ InLine(workers, born)
  BY Typed DEF WorkersTyped, IInv, WorkersFit
<1> QED BY <1>1, ControllerTyped, NobodyStarts

\* A prompt that is typed is posted, and queued in the copy of the composer.
LEMMA PostIInv == ASSUME IInv, NEW kind \in {"submit", "queue"}, Post(kind) PROVE IInv'
<1> DEFINE m == [kind |-> kind, prompt |-> typed + 1]
<1>1. /\ typed < MaxPrompts /\ appState # "exited" /\ typed' = typed + 1
      /\ inbox' = Append(inbox, m)
      /\ composer' = IF kind = "queue" THEN [composer EXCEPT !.items = Append(@, typed')]
                                       ELSE composer
      /\ UNCHANGED <<app, shell, controller, card, commands, takenBack>>
  BY DEF Post
<1>2. PromptsTyped /\ ScreenTyped /\ ComposerTyped /\ InOnePlace
  BY Typed DEF IInv
<1>3. typed' \in Prompts /\ typed' \in 0..MaxPrompts /\ typed \in Nat
  <2>1. typed \in Nat /\ typed < MaxPrompts /\ typed' = typed + 1 /\ MaxPrompts \in Nat
    BY <1>1, <1>2, Bounds DEF PromptsTyped
  <2> QED BY <2>1 DEF Prompts
<1>4. m \in Message /\ m.prompt = typed' /\ m.prompt # 0
  BY <1>1, <1>3 DEF Message
<1> HIDE DEF m
<1>5. typed' \notin Held /\ Held \subseteq 1..typed
  BY <1>1, <1>2, <1>3 DEF InOnePlace
<1>6. /\ inbox' \in Seq(Message) /\ CarriedOnce(inbox')
      /\ Carried(inbox') = Carried(inbox) \cup {typed'}
  <2>1. m.prompt \notin Carried(inbox)
    BY <1>4, <1>5 DEF Held
  <2> QED BY <1>1, <1>2, <1>4, <2>1, PostCarries DEF PromptsTyped, InOnePlace
<1>7. UNCHANGED <<pending, queue, started, shown, appState, leaving, workers, born, active, runActive,
                  waiting, asked, open, logged>>
  BY <1>1 DEF app, shell, controller
<1>8. PromptsTyped'
  BY <1>2, <1>3, <1>6, <1>7 DEF PromptsTyped
<1>9. InOnePlace'
  <2>1. Held' = Held \cup {typed'}
    BY <1>6, <1>7 DEF Held
  <2>2. 1..typed' = 1..typed \cup {typed'}
    BY <1>1, <1>3
  <2>3. /\ Carried(inbox') \cap (ToSet(pending) \cup ToSet(queue) \cup ToSet(started) \cup shown) = {}
    BY <1>2, <1>5, <1>6 DEF InOnePlace, Held
  <2> QED BY <1>2, <1>5, <1>6, <1>7, <2>1, <2>2, <2>3 DEF InOnePlace
<1>10. ScreenTyped'
  BY <1>1, <1>2, <1>7 DEF ScreenTyped
<1>11. ComposerTyped'
  <2>1. CASE kind = "queue"
    <3>1. Append(composer.items, typed') \in Seq(Prompts)
      BY <1>2, <1>3, AppendHolds DEF ComposerTyped
    <3>2. composer'.items \in {composer.items, Append(composer.items, typed')} /\ composer'.active = composer.active
      BY <1>1, <2>1
    <3> QED BY <1>2, <3>1, <3>2 DEF ComposerTyped
  <2>2. CASE kind # "queue"
    BY <1>1, <1>2, <2>2 DEF ComposerTyped
  <2> QED BY <2>1, <2>2
<1>12. WorkersTyped' /\ WorkersFit' /\ BornOnce'
  BY <1>7, WorkersRest DEF IInv, WorkersFit
<1> QED BY <1>8, <1>9, <1>10, <1>11, <1>12, Gathered

\* A prompt taken back leaves the copy of the composer alone.
LEMMA TakeBackIInv == ASSUME IInv, TakeBack PROVE IInv'
<1>1. /\ composer.items # <<>> /\ commands < MaxCommands /\ commands' = commands + 1
      /\ composer' = [composer EXCEPT !.items = Front(@)]
      /\ takenBack' = takenBack \cup {Last(composer.items)}
      /\ UNCHANGED <<app, inbox, shell, controller, card, typed>>
  BY DEF TakeBack
<1>2. UNCHANGED <<pending, queue, started, shown, appState, leaving, workers, born, active, runActive,
                  waiting, asked, open, logged, inbox, typed>>
  BY <1>1 DEF app, shell, controller
<1>3. PromptsTyped' /\ InOnePlace'
  BY <1>2, Typed, QueueKeepsPrompts DEF IInv, Rests
<1>4. ScreenTyped'
  <2>1. Last(composer.items) \in Prompts
    BY <1>1, Typed DEF ComposerTyped, Last
  <2> QED BY <1>1, <1>2, <2>1, Typed, Bounds DEF ScreenTyped
<1>5. ComposerTyped'
  <2>1. composer.items \in Seq(Prompts) /\ composer.active \in BOOLEAN
    BY Typed DEF ComposerTyped
  <2>2. Front(composer.items) \in Seq(Prompts)
    BY <1>1, <2>1 DEF Front
  <2> QED BY <1>1, <2>1, <2>2 DEF ComposerTyped
<1>6. WorkersTyped' /\ WorkersFit' /\ BornOnce'
  BY <1>2, WorkersRest DEF IInv, WorkersFit
<1> QED BY <1>3, <1>4, <1>5, <1>6, Gathered

\* A command is posted.
LEMMA TypeCommandIInv == ASSUME IInv, TypeCommand PROVE IInv'
<1>1. PICK kind \in {"cancel", "compact", "resume"} :
        /\ commands < MaxCommands /\ commands' = commands + 1
        /\ inbox' = Append(inbox, [kind |-> kind, prompt |-> 0])
        /\ UNCHANGED <<app, composer, shell, controller, card, typed, takenBack>>
  BY DEF TypeCommand
<1> DEFINE m == [kind |-> kind, prompt |-> 0]
<1>2. UNCHANGED <<pending, queue, started, shown, appState, leaving, workers, born, active, runActive,
                  waiting, asked, open, logged, typed>>
  BY <1>1 DEF app, shell, controller
<1>3. m \in Message /\ m.prompt = 0
  BY DEF Message
<1>4. inbox' \in Seq(Message) /\ CarriedOnce(inbox') /\ Carried(inbox') = Carried(inbox)
  <2>1. inbox' = Append(inbox, m)
    BY <1>1
  <2> HIDE DEF m
  <2>2. m.prompt \notin Carried(inbox) /\ {m.prompt} \ {0} = {}
    BY <1>3 DEF Carried
  <2>3. inbox \in Seq(Message) /\ CarriedOnce(inbox)
    BY Typed DEF PromptsTyped, IInv, InOnePlace
  <2>4. /\ inbox' \in Seq(Message) /\ CarriedOnce(inbox')
        /\ Carried(inbox') = Carried(inbox) \cup ({m.prompt} \ {0})
    BY <1>3, <2>1, <2>2, <2>3, PostCarries
  <2> QED BY <2>2, <2>4
<1>5. PromptsTyped' /\ InOnePlace'
  BY <1>2, <1>4, Typed DEF PromptsTyped, IInv, InOnePlace, Held
<1>6. ScreenTyped' /\ ComposerTyped'
  BY <1>1, <1>2, Typed, Bounds DEF ScreenTyped, ComposerTyped
<1>7. WorkersTyped' /\ WorkersFit' /\ BornOnce'
  BY <1>2, WorkersRest DEF IInv, WorkersFit
<1> QED BY <1>5, <1>6, <1>7, Gathered


-----------------------------------------------------------------------------
(***************************************************************************)
(* The messages.                                                           *)
(***************************************************************************)
\* What a message of each kind carries.
LEMMA MessageCarries ==
  ASSUME NEW m \in Message
  PROVE  /\ m.kind \in {"submit", "queue"} => m.prompt \in Prompts /\ m.prompt # 0
         /\ m.kind \in {"cancel", "compact", "resume"} => m.prompt = 0
BY Bounds DEF Message, Prompts

\* A posted prompt is handled: it goes to one place.
LEMMA HandledPrompt ==
  ASSUME PromptsTyped, InOnePlace, inbox # <<>>, inbox' = Tail(inbox), UNCHANGED <<typed, appState>>,
         NEW p \in Prompts, p = Head(inbox).prompt, p # 0,
         \/ pending' = Append(pending, p) /\ UNCHANGED <<queue, started, shown>>
         \/ queue' = Append(queue, p) /\ UNCHANGED <<pending, started, shown>>
         \/ started' = Append(started, p) /\ UNCHANGED <<pending, queue, shown>>
         \/ shown' = shown \cup {p} /\ UNCHANGED <<pending, queue, started>>
  PROVE  PromptsTyped' /\ InOnePlace'
<1>1. /\ inbox' \in Seq(Message) /\ CarriedOnce(inbox')
      /\ Carried(inbox) = {p} \cup Carried(inbox') /\ p \notin Carried(inbox')
  <2>1. inbox \in Seq(Message) /\ CarriedOnce(inbox)
    BY DEF PromptsTyped, InOnePlace
  <2>2. /\ inbox' \in Seq(Message) /\ CarriedOnce(inbox')
        /\ Carried(inbox) = ({p} \ {0}) \cup Carried(inbox') /\ p \notin Carried(inbox')
    BY <2>1, HandlingCarries
  <2>3. {p} \ {0} = {p}
    OBVIOUS
  <2> QED BY <2>2, <2>3
<1>2. /\ p \notin ToSet(pending) /\ p \notin ToSet(queue) /\ p \notin ToSet(started) /\ p \notin shown
  BY <1>1 DEF InOnePlace
<1>3. /\ Append(pending, p) \in Seq(Prompts) /\ ToSet(Append(pending, p)) = ToSet(pending) \cup {p}
      /\ Once(Append(pending, p))
      /\ Append(queue, p) \in Seq(Prompts) /\ ToSet(Append(queue, p)) = ToSet(queue) \cup {p}
      /\ Once(Append(queue, p))
      /\ Append(started, p) \in Seq(Prompts) /\ ToSet(Append(started, p)) = ToSet(started) \cup {p}
      /\ Once(Append(started, p))
  BY <1>2, AppendHolds DEF PromptsTyped, InOnePlace
<1> USE DEF Held
<1>4. CASE pending' = Append(pending, p) /\ UNCHANGED <<queue, started, shown>>
  BY <1>1, <1>2, <1>3, <1>4 DEF PromptsTyped, InOnePlace
<1>5. CASE queue' = Append(queue, p) /\ UNCHANGED <<pending, started, shown>>
  BY <1>1, <1>2, <1>3, <1>5 DEF PromptsTyped, InOnePlace
<1>6. CASE started' = Append(started, p) /\ UNCHANGED <<pending, queue, shown>>
  BY <1>1, <1>2, <1>3, <1>6 DEF PromptsTyped, InOnePlace
<1>7. CASE shown' = shown \cup {p} /\ UNCHANGED <<pending, queue, started>>
  BY <1>1, <1>2, <1>3, <1>7 DEF PromptsTyped, InOnePlace
<1> QED BY <1>4, <1>5, <1>6, <1>7

\* A command is handled: it takes no prompt with it.
LEMMA HandledCommand ==
  ASSUME PromptsTyped, InOnePlace, inbox # <<>>, inbox' = Tail(inbox), UNCHANGED <<pending, typed, appState>>,
         Head(inbox).prompt = 0, Rests \/ Discards
  PROVE  PromptsTyped' /\ InOnePlace'
<1>1. inbox' \in Seq(Message) /\ CarriedOnce(inbox') /\ Carried(inbox') = Carried(inbox)
  <2>1. inbox \in Seq(Message) /\ CarriedOnce(inbox)
    BY DEF PromptsTyped, InOnePlace
  <2>2. /\ inbox' \in Seq(Message) /\ CarriedOnce(inbox')
        /\ Carried(inbox) = ({0} \ {0}) \cup Carried(inbox')
    BY <2>1, HandlingCarries
  <2>3. {0} \ {0} = {}
    OBVIOUS
  <2> QED BY <2>2, <2>3
<1> QED BY <1>1, QueueKeepsPlaces

\* A card shown by a replay, or for a restored run, is one of the cards.
LEMMA ReplayedCards == ASSUME IInv PROVE ShownAfterReplay \in Cards /\ RestoredCard \in Cards
<1>1. ShownAfterReplay \in Cards
  <2>1. CASE logged # 0
    <3>1. logged \in 1..MaxInterrupts
      BY <2>1, ControllerTyped, Bounds
    <3> QED BY <2>1, <3>1, CardTyped DEF ShownAfterReplay, Kinds
  <2>2. CASE logged = 0
    BY <2>2 DEF ShownAfterReplay, Cards
  <2> QED BY <2>1, <2>2
<1>2. waiting # "none" => Card(waiting, asked) \in Cards
  <2>1. waiting # "none" => asked \in 1..MaxInterrupts /\ waiting \in Kinds
    BY ControllerTyped, Bounds
  <2> QED BY <2>1, CardTyped
<1> QED BY <1>1, <1>2 DEF RestoredCard

\* A prompt that nobody runs before it gets a worker of its own.
LEMMA SpawnKeeps ==
  ASSUME IInv, NEW p \in Prompts, Spawn(p, workers), ~IsUnfinished(active, workers),
         PromptsTyped', InOnePlace', UNCHANGED <<leaving, asked, waiting>>,
         appState' \notin {"initializing", "selection_required", "error"}
  PROVE  WorkersTyped' /\ WorkersFit' /\ BornOnce'
<1> DEFINE n == NewWorker(p, FirstStep, 0)
<1>1. /\ workers \subseteq Worker /\ InLine(workers, born) /\ active = born /\ born \in Nat
      /\ 0 \in 0..born
  BY Typed DEF WorkersTyped, IInv, WorkersFit
<1>2. n.id = born + 1 /\ n.at = FirstStep /\ n.told = FALSE
  BY DEF NewWorker
<1>3. FirstStep \in {"following", "running", "refused"} /\ n.at # "following" /\ ~n.told
  BY <1>2, FirstStepWorks
<1>4. SpawnAs(n, workers)
  BY DEF Spawn
<1> HIDE DEF n
<1>5. InLine(workers \cup {n}, born + 1)
  BY <1>1, <1>2, <1>3, StartsAlone
<1>6. asked' \in Nat /\ asked' >= asked /\ (waiting' # "none" => asked' >= 1)
  BY ControllerTyped
<1> QED BY <1>1, <1>3, <1>4, <1>5, <1>6, ControllerTyped, WorkerStarts DEF n


\* What every handler of a message leaves: its parts, put together.
LEMMA HandlerGathers ==
  ASSUME IInv, UNCHANGED <<app, asked, waiting, open, logged, commands, takenBack>>, Refresh,
         PromptsTyped', InOnePlace', WorkersTyped', WorkersFit', BornOnce',
         runActive' \in BOOLEAN, card' \in Cards
  PROVE  IInv'
<1>1. ScreenTyped'
  BY Typed DEF ScreenTyped, app
<1> QED BY <1>1, Refreshed, Gathered

\* A message was handled.
Handling ==
  /\ inbox # <<>> /\ inbox' = Tail(inbox) /\ UNCHANGED <<typed, commands, takenBack>> /\ Refresh

\* A submitted prompt is kept, refused, queued, or run by a worker of its own.
LEMMA PromptSubmittedIInv ==
  ASSUME IInv, Handling, PromptSubmitted(Head(inbox)) PROVE IInv'
<1> DEFINE m == Head(inbox)
           p == m.prompt
<1>1. m \in Message /\ m.kind = "submit" /\ p \in Prompts /\ p # 0
  <2>1. inbox \in Seq(Message)
    BY Typed DEF PromptsTyped
  <2>2. m \in Message
    BY <2>1, HandlingCarries DEF Handling
  <2> QED BY <2>2, MessageCarries DEF PromptSubmitted
<1>2. UNCHANGED <<app, controller, card>>
  BY DEF PromptSubmitted
<1>3. /\ UNCHANGED <<appState, leaving, waiting, asked, open, logged, card, typed, commands, takenBack>>
      /\ inbox # <<>> /\ inbox' = Tail(inbox) /\ Refresh
  BY <1>2 DEF app, controller, Handling
<1>4. PromptsTyped /\ InOnePlace /\ card \in Cards /\ runActive \in BOOLEAN
  BY Typed DEF IInv, ScreenTyped
<1>5. \/ KeepPrompt(p)
      \/ StartPrompt(p) /\ (card = NoCard => ~HasNoController) /\ appState # "selection_required"
  BY DEF PromptSubmitted
<1> HIDE DEF m, p
<1>6. appState \in {"initializing", "selection_required", "error"} => workers = {}
  BY DEF IInv, WorkersFit
<1>7. ASSUME UNCHANGED <<workers, born, active, started>>, runActive' \in BOOLEAN,
             \/ pending' = Append(pending, p) /\ UNCHANGED <<queue, shown>>
             \/ queue' = Append(queue, p) /\ UNCHANGED <<pending, shown>>
             \/ shown' = shown \cup {p} /\ UNCHANGED <<pending, queue>>
      PROVE  IInv'
  <2>1. PromptsTyped' /\ InOnePlace'
    BY <1>1, <1>3, <1>4, <1>7, HandledPrompt DEF p, m
  <2>2. WorkersTyped' /\ WorkersFit' /\ BornOnce'
    BY <1>3, <1>6, <1>7, WorkersRest
  <2> QED BY <1>2, <1>3, <1>4, <1>7, <2>1, <2>2, HandlerGathers
<1>8. CASE KeepPrompt(p)
  BY <1>4, <1>7, <1>8 DEF KeepPrompt, NoSpawn
<1>9. CASE StartPrompt(p) /\ (card = NoCard => ~HasNoController) /\ appState # "selection_required"
  <2>1. CASE card # NoCard
    <3>1. shown' = shown \cup {p} /\ NoSpawn(workers) /\ UNCHANGED <<queue, runActive, pending>>
      BY <1>9, <2>1 DEF StartPrompt
    <3> QED BY <1>4, <1>7, <3>1 DEF NoSpawn
  <2>2. CASE card = NoCard /\ IsUnfinished(active, workers)
    <3>1. /\ queue' = Append(queue, p) /\ runActive' = TRUE /\ NoSpawn(workers)
          /\ UNCHANGED <<shown, pending>>
      BY <1>9, <2>2 DEF StartPrompt
    <3> QED BY <1>4, <1>7, <3>1 DEF NoSpawn
  <2>3. CASE card = NoCard /\ ~IsUnfinished(active, workers)
    <3>1. runActive' = TRUE /\ Spawn(p, workers) /\ UNCHANGED <<queue, shown, pending>>
      BY <1>9, <2>3 DEF StartPrompt
    <3>2. started' = Append(started, p)
      BY <3>1 DEF Spawn, SpawnAs, NewWorker
    <3>3. PromptsTyped' /\ InOnePlace'
      BY <1>1, <1>3, <1>4, <3>1, <3>2, HandledPrompt DEF p, m
    <3>4. appState' \notin {"initializing", "selection_required", "error"}
      BY <1>3, <1>9, <2>3 DEF HasNoController
    <3>5. WorkersTyped' /\ WorkersFit' /\ BornOnce'
      BY <1>1, <1>3, <2>3, <3>1, <3>3, <3>4, SpawnKeeps
    <3> QED BY <1>2, <1>3, <1>4, <3>1, <3>3, <3>5, HandlerGathers
  <2> QED BY <2>1, <2>2, <2>3
<1> QED BY <1>5, <1>8, <1>9

\* A queued prompt joins the queue.
LEMMA PromptQueuedIInv ==
  ASSUME IInv, Handling, PromptQueued(Head(inbox)) PROVE IInv'
<1> DEFINE p == Head(inbox).prompt
<1>1. /\ UNCHANGED <<app, pending, runActive, shown, controller, card>>
      /\ queue' = Append(queue, p) /\ NoSpawn(workers) /\ Head(inbox).kind = "queue"
  BY DEF PromptQueued
<1>2. p \in Prompts /\ p # 0
  <2>1. inbox \in Seq(Message)
    BY Typed DEF PromptsTyped
  <2>2. Head(inbox) \in Message
    BY <2>1, HandlingCarries DEF Handling
  <2> QED BY <1>1, <2>2, MessageCarries
<1>3. /\ UNCHANGED <<appState, leaving, waiting, asked, open, logged, typed, commands, takenBack, workers, born, active, started>>
      /\ inbox # <<>> /\ inbox' = Tail(inbox) /\ Refresh
  BY <1>1 DEF app, controller, Handling, NoSpawn
<1> HIDE DEF p
<1>4. PromptsTyped' /\ InOnePlace'
  BY <1>1, <1>2, <1>3, Typed, HandledPrompt DEF IInv, p
<1>5. WorkersTyped' /\ WorkersFit' /\ BornOnce'
  BY <1>3, WorkersRest DEF IInv, WorkersFit
<1>6. card' \in Cards /\ runActive' \in BOOLEAN
  BY <1>1, Typed DEF ScreenTyped
<1> QED BY <1>1, <1>3, <1>4, <1>5, <1>6, HandlerGathers


\* A command carries no prompt.
LEMMA CommandCarriesNone ==
  ASSUME IInv, Handling, Head(inbox).kind \in {"cancel", "compact", "resume"}
  PROVE  Head(inbox).prompt = 0
<1>1. inbox \in Seq(Message)
  BY Typed DEF PromptsTyped
<1>2. Head(inbox) \in Message
  BY <1>1, HandlingCarries DEF Handling
<1> QED BY <1>2, MessageCarries

\* The active worker and those it waits for are told to stop.
LEMMA ActiveStops ==
  ASSUME IInv, NEW U, U = Cancelling(active)
  PROVE  /\ U \subseteq Worker /\ InLine(U, born)
         /\ \A v \in U : v.at = "parked" => asked >= 1
         /\ workers = {} => U = {}
<1>1. workers \subseteq Worker /\ InLine(workers, born) /\ born \in Nat
  BY Typed DEF WorkersTyped, IInv, WorkersFit
<1>2. U \subseteq Worker /\ InLine(U, born) /\ \A x \in U : \E v \in workers : x.at = v.at
  <2>1. U = Stopped(workers, Reached(active))
    BY DEF Stopped, Cancelling
  <2> QED BY <1>1, <2>1, StopsInLine
<1> QED BY <1>2, ControllerTyped

\* /cancel discards the queue and tells the active worker to stop.
LEMMA CancelForegroundRunIInv ==
  ASSUME IInv, Handling, CancelForegroundRun(Head(inbox)) PROVE IInv'
<1> DEFINE U == Cancelling(active)
<1>1. /\ Head(inbox).kind = "cancel" /\ queue' = <<>> /\ shown' = shown \cup ToSet(queue)
      /\ \/ workers' = U /\ UNCHANGED runActive
         \/ workers' = workers /\ runActive' = FALSE
      /\ UNCHANGED <<app, pending, active, born, started, controller, card>>
  BY DEF CancelForegroundRun, ClearQueuedPrompts
<1>2. /\ UNCHANGED <<appState, leaving, waiting, asked, open, logged, typed, commands, takenBack>>
      /\ inbox # <<>> /\ inbox' = Tail(inbox) /\ Refresh
  BY <1>1 DEF app, controller, Handling
<1>3. PromptsTyped' /\ InOnePlace'
  <2>1. Discards /\ UNCHANGED <<pending, typed, appState>> /\ Head(inbox).prompt = 0
    BY <1>1, <1>2, CommandCarriesNone DEF Discards
  <2> QED BY <1>2, <2>1, Typed, HandledCommand DEF IInv
<1>4. /\ U \subseteq Worker /\ InLine(U, born)
      /\ \A v \in U : v.at = "parked" => asked >= 1
      /\ workers = {} => U = {}
  BY ActiveStops
<1> HIDE DEF U
<1>5. WorkersTyped' /\ WorkersFit' /\ BornOnce'
  <2>1. appState \in {"initializing", "selection_required", "error"} => workers = {}
    BY DEF IInv, WorkersFit
  <2>2. CASE workers' = workers
    BY <1>1, <1>2, <2>1, <2>2, WorkersRest
  <2>3. CASE workers' = U
    BY <1>1, <1>2, <1>4, <2>1, <2>3, ControllerTyped, NobodyStarts
  <2> QED BY <1>1, <2>2, <2>3
<1>6. card' \in Cards /\ runActive' \in BOOLEAN
  BY <1>1, Typed DEF ScreenTyped
<1> QED BY <1>1, <1>2, <1>3, <1>5, <1>6, HandlerGathers

\* A replay changes the card and nothing else.
LEMMA ReplaysIInv ==
  ASSUME IInv, Handling, CompactSession(Head(inbox)) \/ ResumeSession(Head(inbox)) PROVE IInv'
<1>1. /\ Head(inbox).kind \in {"compact", "resume"}
      /\ card' \in {ShownAfterReplay, RestoredCard, card}
      /\ UNCHANGED <<app, shell, controller>>
  BY DEF CompactSession, ResumeSession
<1>2. /\ UNCHANGED <<appState, leaving, waiting, asked, open, logged, typed, commands, takenBack,
                     pending, queue, runActive, active, workers, born, started, shown>>
      /\ inbox # <<>> /\ inbox' = Tail(inbox) /\ Refresh
  BY <1>1 DEF app, shell, controller, Handling
<1>3. PromptsTyped' /\ InOnePlace'
  <2>1. Rests /\ Head(inbox).prompt = 0
    BY <1>1, <1>2, CommandCarriesNone DEF Rests
  <2> QED BY <1>2, <2>1, Typed, HandledCommand DEF IInv
<1>4. WorkersTyped' /\ WorkersFit' /\ BornOnce'
  BY <1>2, WorkersRest DEF IInv, WorkersFit
<1>5. card' \in Cards /\ runActive' \in BOOLEAN
  BY <1>1, <1>2, Typed, ReplayedCards DEF ScreenTyped
<1> QED BY <1>1, <1>2, <1>3, <1>4, <1>5, HandlerGathers

\* Every message keeps the invariant.
LEMMA HandleMessageIInv == ASSUME IInv, HandleMessage PROVE IInv'
<1>1. Handling
  BY DEF HandleMessage, Handling
<1>2. \/ PromptSubmitted(Head(inbox)) \/ PromptQueued(Head(inbox))
      \/ CancelForegroundRun(Head(inbox)) \/ CompactSession(Head(inbox)) \/ ResumeSession(Head(inbox))
  BY DEF HandleMessage
<1> QED BY <1>1, <1>2, PromptSubmittedIInv, PromptQueuedIInv, CancelForegroundRunIInv, ReplaysIInv

-----------------------------------------------------------------------------
(***************************************************************************)
(* The card, starting and quitting.                                        *)
(***************************************************************************)
LEMMA UsesCardIInv == ASSUME IInv, UsesCard PROVE IInv'
<1> DEFINE n == NewWorker(0, "answering", 0)
<1>1. /\ HasController /\ Resume /\ UNCHANGED <<queue, shown>>
      /\ UNCHANGED <<app, desk, pending, controller>> /\ Refresh
      /\ card' = NoCard \/ (card.kind = "question" /\ card' = [card EXCEPT !.status = "answering"])
  BY DEF UsesCard, Approve, Answer
<1>2. /\ born - Len(started) < MaxAnswers
      /\ workers' = {ToldToStop(v) : v \in workers} \cup {n}
      /\ born' = born + 1 /\ active' = born + 1 /\ runActive' = TRUE /\ UNCHANGED started
  BY <1>1 DEF Resume
<1>3. /\ UNCHANGED <<appState, leaving, waiting, asked, open, logged, typed, commands, takenBack, inbox,
                     pending, queue, shown>>
      /\ appState \notin {"initializing", "selection_required", "error"}
  BY <1>1 DEF app, desk, controller, HasController
<1>4. /\ PromptsTyped /\ InOnePlace /\ WorkersTyped /\ workers \subseteq Worker
      /\ InLine(workers, born) /\ born \in Nat /\ active = born
      /\ Len(started) <= born
  BY Typed DEF IInv, WorkersFit, WorkersTyped, BornOnce
<1>5. PromptsTyped' /\ InOnePlace'
  BY <1>2, <1>3, <1>4, QueueKeepsPrompts DEF Rests
<1>6. Len(started) \in Nat /\ born' <= Len(started') + MaxAnswers /\ Len(started') <= born'
  BY <1>2, <1>4, Bounds DEF PromptsTyped
<1>7. born' \in 0..MaxWorkers
  <2>1. /\ started' \in Seq(Prompts) /\ typed' \in 0..MaxPrompts
        /\ Once(started') /\ ToSet(started') \subseteq 1..typed'
    BY <1>5 DEF PromptsTyped, InOnePlace, Held
  <2>2. born' \in Nat
    BY <1>2, <1>4
  <2> QED BY <1>6, <2>1, <2>2, WorkersBounded
<1>8. n = [id |-> born + 1, prompt |-> 0, at |-> "answering", after |-> 0, told |-> FALSE, cancelled |-> FALSE]
  BY DEF NewWorker
<1>9. n \in Worker /\ n.id = born + 1 /\ n.at = "answering" /\ ~n.told
  <2>1. /\ born + 1 \in 1..MaxWorkers /\ 0 \in 0..MaxPrompts /\ 0 \in 0..MaxWorkers
        /\ FALSE \in BOOLEAN
        /\ "answering" \in {"following", "refused", "running", "answering", "parked"}
    BY <1>2, <1>4, <1>7, Bounds
  <2> HIDE DEF n
  <2>2. n \in Worker
    BY <1>8, <2>1 DEF Worker
  <2> QED BY <1>8, <2>2
<1> HIDE DEF n
<1>10. /\ InLine(workers', born + 1)
       /\ \A x \in workers' \ {n} : x \in Worker /\ \E v \in workers : x.at = v.at
  BY <1>2, <1>4, <1>9, StartsOverAll
<1>11. BornOnce'
  BY <1>6 DEF BornOnce
<1>12. WorkersTyped'
  BY <1>2, <1>3, <1>4, <1>7, <1>9, <1>10 DEF WorkersTyped
<1>13. WorkersFit'
  <2>1. \A v \in workers' : v.at = "parked" => asked' >= 1
    BY <1>3, <1>9, <1>10, ControllerTyped
  <2> QED BY <1>2, <1>3, <1>10, <2>1, ControllerTyped DEF WorkersFit
<1>14. card' \in Cards
  <2>1. card \in Cards
    BY ControllerTyped
  <2>2. CASE card' = NoCard
    BY <2>2 DEF Cards
  <2>3. CASE card.kind = "question" /\ card' = [card EXCEPT !.status = "answering"]
    BY <2>1, <2>3 DEF Cards, NoCard
  <2> QED BY <1>1, <2>2, <2>3
<1>15. runActive' \in BOOLEAN
  BY <1>2
<1> QED BY <1>1, <1>3, <1>5, <1>11, <1>12, <1>13, <1>14, <1>15, HandlerGathers

\* A rejection withdraws the question and discards the queue.
LEMMA RejectIInv == ASSUME IInv, Reject PROVE IInv'
<1>1. /\ waiting' = "none" /\ open' = open \ {card.id}
      /\ logged' = IF logged = card.id THEN 0 ELSE logged
      /\ card' = NoCard
      /\ queue' = <<>> /\ shown' = shown \cup ToSet(queue)
      /\ NoSpawn(workers) /\ UNCHANGED <<app, desk, pending, runActive, asked>> /\ Refresh
  BY DEF Reject, ClearQueuedPrompts
<1>2. UNCHANGED <<appState, leaving, inbox, typed, commands, takenBack, workers, born, active, started>>
  BY <1>1 DEF app, desk, NoSpawn
<1>3. PromptsTyped' /\ InOnePlace'
  <2>1. Discards
    BY <1>1, <1>2 DEF Discards
  <2> QED BY <1>1, <1>2, <2>1, Typed, QueueKeepsPrompts DEF IInv
<1>4. workers \subseteq Worker /\ InLine(workers, born)
  BY Typed DEF WorkersTyped, IInv, WorkersFit
<1>5. WorkersTyped' /\ WorkersFit' /\ BornOnce'
  BY <1>1, <1>2, <1>4, ControllerTyped, NobodyStarts DEF IInv, WorkersFit
<1>6. ScreenTyped'
  <2>1. ScreenTyped /\ card' \in Cards
    BY <1>1, Typed DEF Cards
  <2>2. open' \subseteq 1..asked' /\ logged' \in 0..asked'
    BY <1>1, ControllerTyped
  <2> QED BY <1>1, <1>2, <2>1, <2>2 DEF ScreenTyped
<1>7. ComposerTyped'
  BY <1>1, <1>3, <1>6, Refreshed DEF ScreenTyped
<1> QED BY <1>3, <1>5, <1>6, <1>7, Gathered

\* Quitting discards the queue and tells the active worker to stop.
LEMMA QuitIInv == ASSUME IInv, Quit PROVE IInv'
<1> DEFINE U == Cancelling(active)
<1>1. /\ appState' \in {"quitting", "exited"} /\ leaving' = active /\ runActive' = FALSE
      /\ queue' = <<>> /\ shown' = shown \cup ToSet(queue) /\ workers' = U
      /\ UNCHANGED <<desk, pending, active, born, started, controller, card>> /\ Refresh
  BY DEF Quit, ClearQueuedPrompts
<1>2. UNCHANGED <<inbox, typed, commands, takenBack, waiting, asked, open, logged>>
  BY <1>1 DEF desk, controller
<1>3. PromptsTyped' /\ InOnePlace'
  <2>1. Discards
    BY <1>1 DEF Discards
  <2> QED BY <1>1, <1>2, <2>1, Typed, QueueKeepsPrompts DEF IInv, Gone
<1>4. U \subseteq Worker /\ InLine(U, born) /\ \A v \in U : v.at = "parked" => asked >= 1
  BY ActiveStops
<1> HIDE DEF U
<1>5. WorkersTyped' /\ WorkersFit' /\ BornOnce'
  BY <1>1, <1>2, <1>4, ControllerTyped, NobodyStarts
<1>6. ScreenTyped'
  BY <1>1, <1>2, Typed DEF ScreenTyped
<1>7. ComposerTyped'
  BY <1>1, <1>3, Refreshed
<1> QED BY <1>3, <1>5, <1>6, <1>7, Gathered


\* When that worker has ended the application ends.
LEMMA ExitIInv == ASSUME IInv, Exit PROVE IInv'
<1>1. /\ appState' = "exited"
      /\ UNCHANGED <<leaving, desk, composer, shell, controller, card>>
  BY DEF Exit
<1>2. UNCHANGED <<workers, born, active, started, leaving, pending, queue, shown, runActive,
                  waiting, asked, open, logged, commands, takenBack>>
  BY <1>1 DEF shell, controller, desk
<1>3. workers \subseteq Worker /\ InLine(workers, born)
  BY Typed DEF WorkersTyped, IInv, WorkersFit
<1>4. ScreenTyped' /\ ComposerTyped'
  BY <1>1, <1>2, Typed DEF ScreenTyped, ComposerTyped
<1> QED BY <1>1, <1>2, <1>3, <1>4, ControllerTyped, MoveGathers DEF Gone

\* Without a controller nobody works.
LEMMA EnterErrorStateIInv == ASSUME IInv, EnterErrorState PROVE IInv'
<1>1. /\ appState = "initializing" /\ appState' = "error"
      /\ UNCHANGED <<leaving, desk, shell, controller, card>> /\ Refresh
  BY DEF EnterErrorState
<1>2. UNCHANGED <<workers, born, active, started, leaving, pending, queue, shown, runActive,
                  waiting, asked, open, logged, commands, takenBack>>
  BY <1>1 DEF shell, controller, desk
<1>3. workers \subseteq Worker /\ InLine(workers, born) /\ workers = {}
  BY <1>1, Typed DEF WorkersTyped, IInv, WorkersFit
<1>4. ScreenTyped'
  BY <1>1, <1>2, Typed DEF ScreenTyped
<1>5. ComposerTyped'
  BY <1>1, <1>2, Typed DEF Refresh, ComposerTyped, PromptsTyped, ScreenTyped
<1> QED BY <1>1, <1>2, <1>3, <1>4, <1>5, ControllerTyped, MoveGathers DEF Gone

\* The kept prompts start: the first alone, as nobody works yet, and the rest
\* queue; or all of them are refused while a card is shown.
LEMMA PendingStarts ==
  ASSUME IInv, workers = {}, appState \in {"initializing", "selection_required"}, appState' = "ready",
         UNCHANGED <<leaving, controller, desk>>, card' \in Cards,
         StartPending, pending' = <<>>, Refresh
  PROVE  IInv'
<1>1. /\ UNCHANGED <<waiting, asked, open, logged, inbox, typed, commands, takenBack>>
      /\ PromptsTyped /\ InOnePlace /\ runActive \in BOOLEAN
  BY Typed DEF controller, desk, IInv, ScreenTyped
<1>2. pending' \in Seq(Prompts) /\ ToSet(pending') = {} /\ Once(pending')
  BY NothingHeld
<1> USE DEF Held
<1>3. workers \subseteq Worker /\ InLine(workers, born) /\ ~IsUnfinished(active, workers)
  BY Typed DEF WorkersTyped, IInv, WorkersFit, IsUnfinished
<1>4. ASSUME UNCHANGED <<workers, born, active, started>> PROVE WorkersTyped' /\ WorkersFit' /\ BornOnce'
  BY <1>1, <1>4, WorkersRest
<1>5. CASE card' # NoCard
  <2>1. /\ shown' = shown \cup ToSet(pending) /\ UNCHANGED <<queue, runActive>>
        /\ UNCHANGED <<workers, born, active, started>>
    BY <1>5 DEF StartPending, NoSpawn
  <2>2. ToSet(pending) \subseteq Prompts
    <3>1. 1..typed \subseteq Prompts
      BY <1>1, Bounds DEF PromptsTyped, Prompts
    <3> QED BY <1>1, <3>1 DEF InOnePlace
  <2>3. PromptsTyped'
    BY <1>1, <1>2, <2>1, <2>2 DEF PromptsTyped
  <2>4. InOnePlace'
    BY <1>1, <1>2, <2>1 DEF InOnePlace
  <2>5. ScreenTyped' /\ ComposerTyped'
    BY <1>1, <2>1, <2>3, Typed, Refreshed DEF ScreenTyped
  <2> QED BY <1>4, <2>1, <2>3, <2>4, <2>5, Gathered
<1>6. CASE card' = NoCard /\ pending = <<>>
  <2>1. UNCHANGED <<queue, runActive, shown, workers, born, active, started>>
    BY <1>6 DEF StartPending, NoSpawn
  <2>2. PromptsTyped' /\ InOnePlace'
    BY <1>1, <1>2, <1>6, <2>1 DEF PromptsTyped, InOnePlace
  <2>3. ScreenTyped' /\ ComposerTyped'
    BY <1>1, <2>1, <2>2, Typed, Refreshed DEF ScreenTyped
  <2> QED BY <1>4, <2>1, <2>2, <2>3, Gathered
<1>7. CASE card' = NoCard /\ pending # <<>>
  <2> DEFINE p == Head(pending)
             rest == Tail(pending)
  <2>1. /\ Spawn(p, workers) /\ queue' = queue \o rest /\ runActive' = TRUE /\ UNCHANGED shown
    BY <1>7 DEF StartPending
  <2>2. started' = Append(started, p)
    BY <2>1 DEF Spawn, SpawnAs, NewWorker
  <2>3. /\ p \in Prompts /\ rest \in Seq(Prompts) /\ ToSet(pending) = {p} \cup ToSet(rest)
        /\ Once(rest) /\ p \notin ToSet(rest)
    BY <1>1, <1>7, TailHolds DEF PromptsTyped, InOnePlace
  <2> HIDE DEF p, rest
  <2>4. /\ queue' \in Seq(Prompts) /\ ToSet(queue') = ToSet(queue) \cup ToSet(rest) /\ Once(queue')
    <3>1. ToSet(queue) \cap ToSet(rest) = {} /\ queue \in Seq(Prompts) /\ Once(queue)
      BY <1>1, <2>3 DEF InOnePlace, PromptsTyped
    <3> QED BY <2>1, <2>3, <3>1, JoinHolds
  <2>5. /\ started' \in Seq(Prompts) /\ ToSet(started') = ToSet(started) \cup {p} /\ Once(started')
    <3>1. p \notin ToSet(started) /\ started \in Seq(Prompts) /\ Once(started)
      BY <1>1, <2>3 DEF InOnePlace, PromptsTyped
    <3> QED BY <2>2, <2>3, <3>1, AppendHolds
  <2>6. PromptsTyped'
    BY <1>1, <1>2, <2>1, <2>4, <2>5 DEF PromptsTyped
  <2>7. InOnePlace'
    BY <1>1, <1>2, <2>1, <2>3, <2>4, <2>5 DEF InOnePlace
  <2>8. ScreenTyped' /\ ComposerTyped'
    BY <1>1, <2>1, <2>6, Typed, Refreshed DEF ScreenTyped
  <2>9. WorkersTyped' /\ WorkersFit' /\ BornOnce'
    BY <1>1, <1>3, <2>1, <2>3, <2>6, <2>7, SpawnKeeps
  <2> QED BY <2>6, <2>7, <2>8, <2>9, Gathered
<1> QED BY <1>5, <1>6, <1>7

\* The controller is there: the kept prompts start, or wait for a model.
LEMMA AttachRuntimeModelsIInv == ASSUME IInv, AttachRuntimeModels PROVE IInv'
<1>1. /\ appState = "initializing" /\ UNCHANGED <<leaving, controller, desk>>
      /\ card' = RestoredCard /\ Refresh /\ card' \in Cards
  BY ReplayedCards DEF AttachRuntimeModels
<1>2. workers = {}
  BY <1>1 DEF IInv, WorkersFit
<1>3. CASE appState' = "ready" /\ StartPending /\ pending' = <<>>
  BY <1>1, <1>2, <1>3, PendingStarts
<1>4. CASE appState' = "selection_required" /\ NoSpawn(workers) /\ UNCHANGED <<pending, queue, runActive, shown>>
  <2>1. /\ UNCHANGED <<workers, born, active, started, waiting, asked, open, logged, commands, takenBack>>
        /\ workers \subseteq Worker /\ InLine(workers, born)
    BY <1>1, <1>4, Typed DEF NoSpawn, controller, desk, WorkersTyped, IInv, WorkersFit
  <2>2. ScreenTyped'
    BY <1>1, <1>4, <2>1, Typed DEF ScreenTyped
  <2>3. ComposerTyped'
    BY <1>1, <1>4, Typed DEF Refresh, ComposerTyped, PromptsTyped, ScreenTyped
  <2> QED BY <1>1, <1>2, <1>4, <2>1, <2>2, <2>3, ControllerTyped, MoveGathers DEF Gone
<1> QED BY <1>3, <1>4 DEF AttachRuntimeModels

\* A model is chosen: the kept prompts start.
LEMMA SetFutureModelIInv == ASSUME IInv, SetFutureModel PROVE IInv'
<1>1. /\ appState = "selection_required" /\ appState' = "ready" /\ pending' = <<>>
      /\ UNCHANGED <<leaving, controller, desk>> /\ card' = card /\ StartPending /\ Refresh
  BY DEF SetFutureModel
<1>2. workers = {} /\ card' \in Cards
  BY <1>1, ControllerTyped DEF IInv, WorkersFit
<1> QED BY <1>1, <1>2, PendingStarts

-----------------------------------------------------------------------------
\* Every step keeps the invariant.
LEMMA NextIInv == IInv /\ [Next]_vars => IInv'
<1> SUFFICES ASSUME IInv, [Next]_vars PROVE IInv'
  OBVIOUS
<1>1. CASE UNCHANGED vars
  <2>1. UNCHANGED <<workers, born, active, started, leaving, pending, queue, shown, runActive,
                    waiting, asked, open, logged, commands, takenBack, card, composer, appState, desk>>
    BY <1>1 DEF vars, app, shell, controller, desk
  <2>2. workers \subseteq Worker /\ InLine(workers, born)
    BY Typed DEF WorkersTyped, IInv, WorkersFit
  <2>3. ScreenTyped' /\ ComposerTyped'
    BY <2>1, Typed DEF ScreenTyped, ComposerTyped
  <2> QED BY <2>1, <2>2, <2>3, ControllerTyped, MoveGathers DEF Gone, IInv, WorkersFit
<1>2. CASE PressEnter
  BY <1>2, PostIInv DEF PressEnter
<1>3. CASE PressCtrlEnter
  BY <1>3, PostIInv DEF PressCtrlEnter
<1>4. CASE \/ TakeBack \/ TypeCommand \/ AttachRuntimeModels \/ EnterErrorState \/ SetFutureModel
           \/ HandleMessage \/ UsesCard \/ Reject \/ WorkerStep \/ Quit \/ Exit
  BY <1>4, TakeBackIInv, TypeCommandIInv, AttachRuntimeModelsIInv, EnterErrorStateIInv, SetFutureModelIInv,
     HandleMessageIInv, UsesCardIInv, RejectIInv, WorkerStepIInv, QuitIInv, ExitIInv
<1> QED BY <1>1, <1>2, <1>3, <1>4 DEF Next

\* The invariant holds for any number of prompts, interrupts, answers and commands.
THEOREM TerminalInvariance == Spec => []IInv
<1> QED BY InitIInv, NextIInv, PTL DEF Spec

\* No more workers, cards or prompts than were asked for, and a composer and queues
\* of prompts that were typed.
THEOREM TerminalTyped == Spec => []TerminalTypeOK
<1>1. IInv => TerminalTypeOK
  BY DEF IInv
<1> QED BY <1>1, TerminalInvariance, PTL

\* The handlers of messages, the end of a worker and the queue lose no prompt and
\* run none twice, in whatever order the person and the workers act.
THEOREM PromptsAreKept == Spec => []NoPromptVanishes
<1> QED BY InvariantKeepsPrompts, TerminalInvariance, PTL

\* run_worker with exclusive=True and the line of follow-ups keep one worker at a
\* time inside the controller.
THEOREM OneRunInForeground == Spec => []OneForegroundRun
<1> QED BY InvariantIsExclusive, TerminalInvariance, PTL

-----------------------------------------------------------------------------
(***************************************************************************)
(* What the screen shows of the journal.                                   *)
(*                                                                         *)
(* Sequences of events and writes: what they tell of an object, and how    *)
(* often.                                                                  *)
(***************************************************************************)
Told(s, o) == Cardinality(PlacesOf(s, o))

\* A finite set of numbers that is not empty has a largest element.
LEMMA LargestExists ==
  ASSUME NEW N \in Nat, NEW S, S \subseteq 1..N, S # {}
  PROVE  Max(S) \in S /\ \A s \in S : Max(S) >= s
<1> DEFINE Above == {n \in Nat : \A s \in S : s <= n}
<1>1. N \in Above
  OBVIOUS
<1>2. PICK n \in Above : \A k \in Above : <<k, n>> \notin OpToRel(<, Nat)
  BY <1>1, WFMin, NatLessThanWellFounded, Zenon
<1>3. \A k \in Above : ~(k < n)
  BY <1>2 DEF OpToRel
<1>4. n \in S
  <2> SUFFICES ASSUME n \notin S PROVE FALSE
    OBVIOUS
  <2> PICK t \in S : TRUE
    OBVIOUS
  <2>1. \A s \in S : s \in Nat /\ s <= n /\ s # n
    OBVIOUS
  <2>2. n # 0
    BY <2>1
  <2>3. n - 1 \in Above
    BY <2>1, <2>2
  <2> QED BY <1>3, <2>3
<1>5. \E x \in S : \A y \in S : x >= y
  BY <1>4
<1> QED BY <1>5 DEF Max

\* A sequence tells of an object a number of times, and of one it mentions at some place last.
LEMMA TellsSome ==
  ASSUME NEW S, NEW s \in Seq(S), NEW o
  PROVE  /\ IsFiniteSet(PlacesOf(s, o)) /\ Told(s, o) \in Nat /\ Told(s, o) <= Len(s)
         /\ ~Mentions(s, o) => Told(s, o) = 0
         /\ Mentions(s, o) => Max(PlacesOf(s, o)) \in DOMAIN s
<1>1. PlacesOf(s, o) \subseteq 1..Len(s) /\ Len(s) \in Nat /\ DOMAIN s = 1..Len(s)
  BY DEF PlacesOf
<1>2. IsFiniteSet(1..Len(s)) /\ Cardinality(1..Len(s)) = Len(s)
  <2> DEFINE n == Len(s)
  <2>1. n \in Nat /\ 1 \in Int /\ n \in Int
    BY <1>1
  <2> HIDE DEF n
  <2>2. IsFiniteSet(1..n) /\ Cardinality(1..n) = n
    BY <2>1, FS_Interval
  <2> QED BY <2>2 DEF n
<1>3. IsFiniteSet(PlacesOf(s, o)) /\ Told(s, o) <= Len(s)
  BY <1>1, <1>2, FS_Subset DEF Told
<1>4. Told(s, o) \in Nat
  BY <1>3, FS_CardinalityType DEF Told
<1>5. ~Mentions(s, o) => Told(s, o) = 0
  BY FS_EmptySet DEF Told, Mentions
<1>6. Mentions(s, o) => Max(PlacesOf(s, o)) \in PlacesOf(s, o)
  BY <1>1, LargestExists DEF Mentions
<1> QED BY <1>1, <1>3, <1>4, <1>5, <1>6

\* An object is mentioned by one of the events.
LEMMA MentionedBy ==
  ASSUME NEW s, NEW o
  PROVE  Mentions(s, o) <=> \E e \in Ids(s) : e.obj = o
BY DEF Mentions, PlacesOf, Ids

\* One more event is told of its object and of no other.
LEMMA AppendTells ==
  ASSUME NEW S, NEW s \in Seq(S), NEW e \in S
  PROVE  /\ Append(s, e) \in Seq(S) /\ Len(Append(s, e)) = Len(s) + 1
         /\ Ids(Append(s, e)) = Ids(s) \cup {e}
         /\ \A o : Told(Append(s, e), o) = Told(s, o) + (IF e.obj = o THEN 1 ELSE 0)
<1>1. /\ Append(s, e) \in Seq(S) /\ DOMAIN Append(s, e) = 1..(Len(s) + 1)
      /\ DOMAIN s = 1..Len(s) /\ Len(s) \in Nat /\ Len(Append(s, e)) = Len(s) + 1
      /\ Append(s, e)[Len(s) + 1] = e
      /\ \A i \in 1..Len(s) : Append(s, e)[i] = s[i]
  OBVIOUS
<1>2. Ids(Append(s, e)) = Ids(s) \cup {e}
  <2>1. \A x : x \in Ids(Append(s, e)) => x \in Ids(s) \cup {e}
    BY <1>1 DEF Ids
  <2>2. \A x : x \in Ids(s) \cup {e} => x \in Ids(Append(s, e))
    BY <1>1 DEF Ids
  <2> QED BY <2>1, <2>2
<1>3. ASSUME NEW o
      PROVE  Told(Append(s, e), o) = Told(s, o) + (IF e.obj = o THEN 1 ELSE 0)
  <2>1. IsFiniteSet(PlacesOf(s, o)) /\ Told(s, o) \in Nat
    BY TellsSome
  <2>2. CASE e.obj = o
    <3>1. PlacesOf(Append(s, e), o) = PlacesOf(s, o) \cup {Len(s) + 1}
      BY <1>1, <2>2 DEF PlacesOf
    <3>2. Len(s) + 1 \notin PlacesOf(s, o)
      BY <1>1 DEF PlacesOf
    <3> QED BY <2>1, <2>2, <3>1, <3>2, FS_AddElement DEF Told
  <2>3. CASE e.obj # o
    <3>1. PlacesOf(Append(s, e), o) = PlacesOf(s, o)
      BY <1>1, <2>3 DEF PlacesOf
    <3> QED BY <2>1, <2>3, <3>1 DEF Told
  <2> QED BY <2>2, <2>3
<1> QED BY <1>1, <1>2, <1>3

\* Where the elements of two sequences are when one follows the other.
LEMMA JoinPlaces ==
  ASSUME NEW S, NEW s \in Seq(S), NEW t \in Seq(S)
  PROVE  /\ s \o t \in Seq(S) /\ DOMAIN (s \o t) = 1..(Len(s) + Len(t))
         /\ DOMAIN s = 1..Len(s) /\ DOMAIN t = 1..Len(t) /\ Len(s) \in Nat /\ Len(t) \in Nat
         /\ \A i \in DOMAIN s : i \in DOMAIN (s \o t) /\ (s \o t)[i] = s[i]
         /\ \A i \in DOMAIN t : Len(s) + i \in DOMAIN (s \o t) /\ (s \o t)[Len(s) + i] = t[i]
         /\ \A i \in DOMAIN (s \o t) : i \in DOMAIN s \/ i - Len(s) \in DOMAIN t
<1>1. /\ s \o t \in Seq(S) /\ DOMAIN (s \o t) = 1..(Len(s) + Len(t))
      /\ DOMAIN s = 1..Len(s) /\ DOMAIN t = 1..Len(t) /\ Len(s) \in Nat /\ Len(t) \in Nat
      /\ \A i \in 1..Len(s) : (s \o t)[i] = s[i]
      /\ \A i \in 1..Len(t) : (s \o t)[Len(s) + i] = t[i]
  OBVIOUS
<1>2. \A i \in 1..(Len(s) + Len(t)) : i \in 1..Len(s) \/ i - Len(s) \in 1..Len(t)
  BY <1>1
<1>3. /\ \A i \in 1..Len(s) : i \in 1..(Len(s) + Len(t))
      /\ \A i \in 1..Len(t) : Len(s) + i \in 1..(Len(s) + Len(t))
  BY <1>1
<1> QED BY <1>1, <1>2, <1>3

\* Two sequences one after the other tell what each of them tells.
LEMMA JoinTells ==
  ASSUME NEW S, NEW s \in Seq(S), NEW t \in Seq(S)
  PROVE  /\ Ids(s \o t) = Ids(s) \cup Ids(t)
         /\ \A o : Told(s \o t, o) = Told(s, o) + Told(t, o)
<1>1. Ids(s \o t) = Ids(s) \cup Ids(t)
  <2>1. ASSUME NEW i \in DOMAIN (s \o t) PROVE (s \o t)[i] \in Ids(s) \cup Ids(t)
    <3>1. CASE i \in DOMAIN s
      BY <3>1, JoinPlaces DEF Ids
    <3>2. CASE i - Len(s) \in DOMAIN t
      <4>1. Len(s) + (i - Len(s)) = i
        BY JoinPlaces
      <4>2. (s \o t)[i] = t[i - Len(s)]
        BY <3>2, <4>1, JoinPlaces
      <4> QED BY <3>2, <4>2 DEF Ids
    <3> QED BY <3>1, <3>2, JoinPlaces
  <2>2. ASSUME NEW i \in DOMAIN s PROVE s[i] \in Ids(s \o t)
    BY JoinPlaces DEF Ids
  <2>3. ASSUME NEW i \in DOMAIN t PROVE t[i] \in Ids(s \o t)
    <3>1. Len(s) + i \in DOMAIN (s \o t) /\ (s \o t)[Len(s) + i] = t[i]
      BY JoinPlaces
    <3> QED BY <3>1 DEF Ids
  <2> QED BY <2>1, <2>2, <2>3 DEF Ids
<1>2. ASSUME NEW o PROVE Told(s \o t, o) = Told(s, o) + Told(t, o)
  <2> DEFINE Shifted == {Len(s) + i : i \in PlacesOf(t, o)}
             shift == [i \in PlacesOf(t, o) |-> Len(s) + i]
  <2>1. /\ IsFiniteSet(PlacesOf(s, o)) /\ Told(s, o) \in Nat
        /\ IsFiniteSet(PlacesOf(t, o)) /\ Told(t, o) \in Nat
    BY TellsSome
  <2>2. shift \in Bijection(PlacesOf(t, o), Shifted)
    <3>1. \A i \in PlacesOf(t, o) : i \in Nat
      BY JoinPlaces DEF PlacesOf
    <3>2. shift \in [PlacesOf(t, o) -> Shifted]
      OBVIOUS
    <3>3. \A i, j \in PlacesOf(t, o) : shift[i] = shift[j] => i = j
      BY <3>1, JoinPlaces
    <3>4. \A x \in Shifted : \E i \in PlacesOf(t, o) : shift[i] = x
      OBVIOUS
    <3> QED BY <3>2, <3>3, <3>4 DEF Bijection, Injection, Surjection, IsInjective
  <2>3. IsFiniteSet(Shifted) /\ Cardinality(Shifted) = Told(t, o)
    BY <2>1, <2>2, FS_Bijection DEF Told, ExistsBijection
  <2>4. PlacesOf(s \o t, o) = PlacesOf(s, o) \cup Shifted
    <3>1. ASSUME NEW i \in PlacesOf(s \o t, o) PROVE i \in PlacesOf(s, o) \cup Shifted
      <4>1. CASE i \in DOMAIN s
        BY <4>1, JoinPlaces DEF PlacesOf
      <4>2. CASE i - Len(s) \in DOMAIN t
        <5>1. Len(s) + (i - Len(s)) = i
          BY JoinPlaces DEF PlacesOf
        <5>2. (s \o t)[i] = t[i - Len(s)]
          BY <4>2, <5>1, JoinPlaces
        <5>3. i - Len(s) \in PlacesOf(t, o)
          BY <4>2, <5>2 DEF PlacesOf
        <5> QED BY <5>1, <5>3
      <4> QED BY <4>1, <4>2, JoinPlaces DEF PlacesOf
    <3>2. ASSUME NEW i \in PlacesOf(s, o) PROVE i \in PlacesOf(s \o t, o)
      BY JoinPlaces DEF PlacesOf
    <3>3. ASSUME NEW i \in PlacesOf(t, o) PROVE Len(s) + i \in PlacesOf(s \o t, o)
      BY JoinPlaces DEF PlacesOf
    <3> QED BY <3>1, <3>2, <3>3
  <2>5. PlacesOf(s, o) \cap Shifted = {}
    BY JoinPlaces DEF PlacesOf
  <2> HIDE DEF Shifted
  <2>6. Cardinality(PlacesOf(s, o) \cap Shifted) = 0
    BY <2>5, FS_EmptySet
  <2>7. Cardinality(PlacesOf(s, o) \cup Shifted)
          = Cardinality(PlacesOf(s, o)) + Cardinality(Shifted) - 0
    BY <2>1, <2>3, <2>6, FS_Union
  <2> QED BY <2>1, <2>3, <2>4, <2>7 DEF Told
<1> QED BY <1>1, <1>2

\* The first n events, which is what a savepoint leaves.
LEMMA PrefixTells ==
  ASSUME NEW S, NEW s \in Seq(S), NEW n \in Nat, n <= Len(s)
  PROVE  /\ SubSeq(s, 1, n) \in Seq(S) /\ Len(SubSeq(s, 1, n)) = n
         /\ DOMAIN SubSeq(s, 1, n) = 1..n /\ DOMAIN SubSeq(s, 1, n) \subseteq DOMAIN s
         /\ \A i \in 1..n : SubSeq(s, 1, n)[i] = s[i]
         /\ Ids(SubSeq(s, 1, n)) \subseteq Ids(s)
<1>1. /\ SubSeq(s, 1, n) \in Seq(S) /\ Len(SubSeq(s, 1, n)) = n
      /\ DOMAIN SubSeq(s, 1, n) = 1..n /\ DOMAIN s = 1..Len(s)
      /\ \A i \in 1..n : SubSeq(s, 1, n)[i] = s[i]
  OBVIOUS
<1>2. DOMAIN SubSeq(s, 1, n) \subseteq DOMAIN s
  BY <1>1
<1> QED BY <1>1, <1>2 DEF Ids

\* What is appended behind a savepoint is not before it.
LEMMA PrefixStays ==
  ASSUME NEW S, NEW s \in Seq(S), NEW e \in S, NEW n \in Nat, n <= Len(s)
  PROVE  SubSeq(Append(s, e), 1, n) = SubSeq(s, 1, n)
OBVIOUS

\* A savepoint is taken of all there is.
LEMMA WholePrefix ==
  ASSUME NEW S, NEW s \in Seq(S)
  PROVE  SubSeq(s, 1, Len(s)) = s
OBVIOUS
-----------------------------------------------------------------------------
(***************************************************************************)
(* A view and the events it has been shown.  An event is known by its      *)
(* object and its number, and of two events about an object the later one  *)
(* has the higher number.                                                  *)
(***************************************************************************)
Line == Event \cup {FinalAnswer}
View == [rail : [Tasks -> Statuses], plan : [Nodes -> Statuses], card : 0..MaxEvents,
         items : Seq(Line), seen : SUBSET Event]

Newest(S, e) == e \in S /\ \A f \in S : f.obj = e.obj => f.nth <= e.nth
LineOf(e) == IF e.obj = FinalAnswer THEN FinalAnswer ELSE e
CardOf(e) == IF e.status = "question" THEN e.nth ELSE 0
Distinct(s) == \A i, j \in DOMAIN s : s[i] = s[j] => i = j

\* A view that has been shown the events of S and no other, those of nodes outside of X
\* in their order.
Shows(v, S, X) ==
  /\ v.seen = S
  /\ \A e \in S : Newest(S, e) =>
       /\ e.obj \in Tasks => v.rail[e.obj] = e.status
       /\ e.obj \in Nodes \ X => v.plan[e.obj] = e.status
       /\ e.obj = Interrupt => v.card = CardOf(e)
  /\ (\A e \in S : e.obj # Interrupt) => v.card = 0
  /\ Ids(v.items) = {LineOf(e) : e \in S} /\ Distinct(v.items)

\* ... and that knows of the nodes they do not mention what it knew before.
Showing(v, S, X, before) ==
  /\ v \in View /\ Shows(v, S, X)
  /\ \A n \in Nodes : (\A e \in S : e.obj # n) => v.plan[n] = before.plan[n]

\* What is shown but for some nodes is shown but for more of them.
LEMMA ShowsLess ==
  ASSUME NEW v, NEW S, NEW X, NEW Y, X \subseteq Y, Shows(v, S, X)
  PROVE  Shows(v, S, Y)
BY DEF Shows

\* What is shown of an event depends on its object alone.
LEMMA EventTyped ==
  ASSUME NEW e \in Event
  PROVE  /\ e.obj \in Objects /\ e.nth \in 1..MaxEvents /\ e.status \in Statuses
         /\ e.obj \in Tasks => e.obj \notin Nodes /\ e.obj # Interrupt /\ e.obj # FinalAnswer
         /\ e.obj \in Nodes => e.obj \notin Tasks /\ e.obj # Interrupt /\ e.obj # FinalAnswer
         /\ e.obj = Interrupt => e.obj \notin Tasks /\ e.obj \notin Nodes /\ e.obj # FinalAnswer
         /\ LineOf(e) \in Line /\ CardOf(e) \in 0..MaxEvents /\ MaxEvents \in Nat
<1>1. e.obj \in Objects /\ e.nth \in 1..MaxEvents /\ e.status \in Statuses /\ MaxEvents \in Nat
  BY ProjectionAssumption DEF Event
<1>2. LineOf(e) \in Line /\ CardOf(e) \in 0..MaxEvents
  BY <1>1 DEF LineOf, CardOf, Line
<1> QED BY <1>1, <1>2, ProjectionAssumption

\* A line that is there is not added again.
LEMMA ItemAdded ==
  ASSUME NEW s \in Seq(Line), NEW x \in Line, Distinct(s)
  PROVE  /\ x \in Ids(s) => Ids(s) = Ids(s) \cup {x}
         /\ x \notin Ids(s) => /\ Append(s, x) \in Seq(Line)
                               /\ Ids(Append(s, x)) = Ids(s) \cup {x}
                               /\ Distinct(Append(s, x))
<1>1. ASSUME x \notin Ids(s) PROVE Distinct(Append(s, x))
  <2>1. /\ DOMAIN Append(s, x) = 1..(Len(s) + 1) /\ DOMAIN s = 1..Len(s) /\ Len(s) \in Nat
        /\ Append(s, x)[Len(s) + 1] = x /\ \A i \in 1..Len(s) : Append(s, x)[i] = s[i]
    OBVIOUS
  <2> QED BY <1>1, <2>1 DEF Distinct, Ids
<1> QED BY <1>1, AppendTells

\* What ApplyEvent does to each part of a view.
LEMMA EventApplied ==
  ASSUME NEW v \in View, NEW e \in Event, e \notin v.seen
  PROVE  LET u == ApplyEvent(v, e) IN
         /\ u \in View
         /\ u.seen = v.seen \cup {e}
         /\ u.rail = IF e.obj \in Tasks THEN [v.rail EXCEPT ![e.obj] = e.status] ELSE v.rail
         /\ u.plan = IF e.obj \in Nodes THEN [v.plan EXCEPT ![e.obj] = e.status] ELSE v.plan
         /\ u.card = IF e.obj = Interrupt THEN CardOf(e) ELSE v.card
         /\ u.items = IF LineOf(e) \in Ids(v.items) THEN v.items ELSE Append(v.items, LineOf(e))
<1> DEFINE rail == IF e.obj \in Tasks THEN [v.rail EXCEPT ![e.obj] = e.status] ELSE v.rail
           plan == IF e.obj \in Nodes THEN [v.plan EXCEPT ![e.obj] = e.status] ELSE v.plan
           shownCard == IF e.obj = Interrupt THEN CardOf(e) ELSE v.card
           seen == v.seen \cup {e}
           items == IF LineOf(e) \in Ids(v.items) THEN v.items ELSE Append(v.items, LineOf(e))
           u == [rail |-> rail, plan |-> plan, card |-> shownCard, items |-> items, seen |-> seen]
<1>1. /\ v.rail \in [Tasks -> Statuses] /\ v.plan \in [Nodes -> Statuses]
      /\ v.card \in 0..MaxEvents /\ v.items \in Seq(Line) /\ v.seen \in SUBSET Event
      /\ v = [rail |-> v.rail, plan |-> v.plan, card |-> v.card, items |-> v.items, seen |-> v.seen]
  BY DEF View
<1>2. rail \in [Tasks -> Statuses] /\ plan \in [Nodes -> Statuses]
  BY <1>1, EventTyped
<1>3. shownCard \in 0..MaxEvents /\ seen \in SUBSET Event
  BY <1>1, EventTyped
<1>4. items \in Seq(Line)
  BY <1>1, EventTyped
<1>5. ApplyEvent(v, e) = u
  <2>1. CASE e.obj \in Tasks
    BY <1>1, <2>1, EventTyped DEF ApplyEvent, ShowTask, AddItem, LineOf
  <2>2. CASE e.obj \in Nodes
    BY <1>1, <2>2, EventTyped DEF ApplyEvent, ShowNode, AddItem, LineOf
  <2>3. CASE e.obj = Interrupt
    BY <1>1, <2>3, EventTyped DEF ApplyEvent, ShowQuestion, AddItem, LineOf, CardOf
  <2>4. CASE e.obj \notin Tasks \cup Nodes \cup {Interrupt}
    BY <1>1, <2>4, EventTyped DEF ApplyEvent, ShowLine, AddItem, LineOf
  <2> QED BY <2>1, <2>2, <2>3, <2>4
<1> HIDE DEF rail, plan, shownCard, items, seen
<1>6. u \in View
  BY <1>2, <1>3, <1>4 DEF View
<1> QED BY <1>5, <1>6 DEF rail, plan, shownCard, items, seen

\* An event that a view knows changes nothing.
LEMMA EventKnown ==
  ASSUME NEW v, NEW e, e \in v.seen
  PROVE  ApplyEvent(v, e) = v
BY DEF ApplyEvent

LEMMA ApplyTyped ==
  ASSUME NEW v \in View, NEW e \in Event
  PROVE  ApplyEvent(v, e) \in View
BY EventApplied, EventKnown

\* A view that is shown an event, later than those of its object if order counts for
\* that, shows it as well.
LEMMA ShowsOneMore ==
  ASSUME NEW v \in View, NEW before, NEW S \in SUBSET Event, NEW X \in SUBSET Nodes,
         Showing(v, S, X, before), NEW e \in Event,
         e.obj \notin X => \A f \in S : f.obj = e.obj => f.nth < e.nth
  PROVE  Showing(ApplyEvent(v, e), S \cup {e}, X, before)
<1> DEFINE u == ApplyEvent(v, e)
           T == S \cup {e}
<1>1. e.nth \in Nat /\ \A f \in S : f.nth \in Nat
  BY EventTyped
<1>2. CASE e \in v.seen
  <2>1. u = v /\ T = S
    BY <1>2, EventKnown DEF Showing, Shows
  <2> QED BY <2>1
<1>10. CASE e \notin v.seen
  <2>3. /\ u \in View
        /\ u.seen = v.seen \cup {e}
        /\ u.rail = IF e.obj \in Tasks THEN [v.rail EXCEPT ![e.obj] = e.status] ELSE v.rail
        /\ u.plan = IF e.obj \in Nodes THEN [v.plan EXCEPT ![e.obj] = e.status] ELSE v.plan
        /\ u.card = IF e.obj = Interrupt THEN CardOf(e) ELSE v.card
        /\ u.items = IF LineOf(e) \in Ids(v.items) THEN v.items ELSE Append(v.items, LineOf(e))
    BY <1>10, EventApplied
  <2> HIDE DEF u
  <2>4. v.rail \in [Tasks -> Statuses] /\ v.plan \in [Nodes -> Statuses] /\ v.items \in Seq(Line)
    BY DEF View
  <2>5. ASSUME NEW f \in T, Newest(T, f)
        PROVE  /\ f.obj \in Tasks => u.rail[f.obj] = f.status
               /\ f.obj \in Nodes \ X => u.plan[f.obj] = f.status
               /\ f.obj = Interrupt => u.card = CardOf(f)
    <3>1. CASE f = e
      BY <2>3, <2>4, <3>1
    <3>2. CASE f # e /\ f.obj = e.obj
      <4>1. f \in S /\ e.nth <= f.nth
        BY <2>5, <3>2 DEF Newest
      <4>2. e.obj \in X
        BY <1>1, <3>2, <4>1
      <4> QED BY <3>2, <4>2, EventTyped
    <3>3. CASE f.obj # e.obj
      <4>1. f \in S
        BY <3>3
      <4>3. Newest(S, f)
        BY <2>5, <4>1 DEF Newest
      <4>4. /\ f.obj \in Tasks => v.rail[f.obj] = f.status
            /\ f.obj \in Nodes \ X => v.plan[f.obj] = f.status
            /\ f.obj = Interrupt => v.card = CardOf(f)
        BY <4>1, <4>3 DEF Showing, Shows
      <4> QED BY <2>3, <2>4, <3>3, <4>4
    <3> QED BY <3>1, <3>2, <3>3
  <2>6. (\A f \in T : f.obj # Interrupt) => u.card = 0
    BY <2>3 DEF Showing, Shows
  <2>7. Ids(u.items) = {LineOf(f) : f \in T} /\ Distinct(u.items)
    <3>1. Ids(v.items) = {LineOf(f) : f \in S} /\ Distinct(v.items) /\ LineOf(e) \in Line
      BY EventTyped DEF Showing, Shows
    <3>2. {LineOf(f) : f \in T} = {LineOf(f) : f \in S} \cup {LineOf(e)}
      OBVIOUS
    <3> QED BY <2>3, <2>4, <3>1, <3>2, ItemAdded
  <2>8. ASSUME NEW n \in Nodes, \A f \in T : f.obj # n
        PROVE  u.plan[n] = before.plan[n]
    <3>1. n # e.obj
      BY <2>8
    <3>2. v.plan[n] = before.plan[n]
      BY <2>8 DEF Showing
    <3> QED BY <2>3, <2>4, <3>1, <3>2
  <2>9. u.seen = T
    BY <2>3 DEF Showing, Shows
  <2> QED BY <2>3, <2>5, <2>6, <2>7, <2>8, <2>9 DEF u, Showing, Shows
<1> QED BY <1>2, <1>10

-----------------------------------------------------------------------------
(***************************************************************************)
(* The events of a sequence applied one by one, as FoldLeft takes them.    *)
(***************************************************************************)
AppliesAll(f, v, s) ==
  f = [D \in SUBSET DOMAIN s |-> IF D = {} THEN v ELSE ApplyEvent(f[D \ {Max(D)}], s[Max(D)])]

LEMMA ApplyUnfolds ==
  ASSUME NEW v, NEW s
  PROVE  ApplyEvents(v, s) = (CHOOSE f : AppliesAll(f, v, s))[DOMAIN s]
BY DEF ApplyEvents, FoldLeft, MapThenFoldSet, AppliesAll

\* Of a set of places the last is taken.
LEMMA LastPlace ==
  ASSUME NEW s \in Seq(Event), NEW D \in SUBSET DOMAIN s
  PROVE  /\ IsFiniteSet(D) /\ Cardinality(D) \in Nat
         /\ Cardinality(D) = 0 => D = {}
         /\ D # {} => /\ Max(D) \in D /\ D \ {Max(D)} \in SUBSET DOMAIN s
                      /\ Cardinality(D \ {Max(D)}) = Cardinality(D) - 1
                      /\ s[Max(D)] \in Event
<1>1. DOMAIN s = 1..Len(s) /\ Len(s) \in Nat /\ s \in [DOMAIN s -> Event]
  OBVIOUS
<1>2. IsFiniteSet(1..Len(s))
  BY <1>1, FS_Interval
<1>3. IsFiniteSet(D) /\ Cardinality(D) \in Nat
  BY <1>1, <1>2, FS_Subset, FS_CardinalityType
<1>4. Cardinality(D) = 0 => D = {}
  BY <1>3, FS_EmptySet
<1>5. D # {} => Max(D) \in D
  BY <1>1, LargestExists
<1> QED BY <1>1, <1>3, <1>4, <1>5, FS_RemoveElement

\* Applying one by one is well defined: first for at most n events.
AppliesSome(f, v, s, n) ==
  /\ f \in [SUBSET DOMAIN s -> View]
  /\ \A D \in SUBSET DOMAIN s : Cardinality(D) <= n =>
       f[D] = IF D = {} THEN v ELSE ApplyEvent(f[D \ {Max(D)}], s[Max(D)])

LEMMA ApplyingGrows ==
  ASSUME NEW v \in View, NEW s \in Seq(Event), NEW n \in Nat, NEW f, AppliesSome(f, v, s, n)
  PROVE  \E h : AppliesSome(h, v, s, n + 1)
<1> DEFINE Step(D) == IF D = {} THEN v ELSE ApplyEvent(f[D \ {Max(D)}], s[Max(D)])
           grown == [D \in SUBSET DOMAIN s |-> IF Cardinality(D) <= n THEN f[D] ELSE Step(D)]
<1>1. ASSUME NEW D \in SUBSET DOMAIN s PROVE Step(D) \in View
  <2>1. CASE D # {}
    <3>1. f[D \ {Max(D)}] \in View
      BY <2>1, LastPlace DEF AppliesSome
    <3> QED BY <2>1, <3>1, LastPlace, ApplyTyped
  <2> QED BY <2>1
<1>2. grown \in [SUBSET DOMAIN s -> View]
  BY <1>1 DEF AppliesSome
<1>3. ASSUME NEW D \in SUBSET DOMAIN s, Cardinality(D) <= n + 1
      PROVE  grown[D] = IF D = {} THEN v ELSE ApplyEvent(grown[D \ {Max(D)}], s[Max(D)])
  <2>1. grown[D] = Step(D)
    <3>1. CASE Cardinality(D) <= n
      BY <3>1 DEF AppliesSome
    <3>2. CASE ~(Cardinality(D) <= n)
      BY <3>2
    <3> QED BY <3>1, <3>2
  <2>2. CASE D # {}
    <3>1. grown[D \ {Max(D)}] = f[D \ {Max(D)}]
      BY <1>3, <2>2, LastPlace
    <3> QED BY <2>1, <2>2, <3>1
  <2> QED BY <2>1, <2>2
<1> HIDE DEF grown
<1> QED BY <1>2, <1>3 DEF AppliesSome

LEMMA ApplyingReaches ==
  ASSUME NEW v \in View, NEW s \in Seq(Event), NEW n \in Nat
  PROVE  \E f : AppliesSome(f, v, s, n)
<1> DEFINE Out == {m \in Nat : ~ \E f : AppliesSome(f, v, s, m)}
<1> SUFFICES ASSUME Out # {} PROVE FALSE
  OBVIOUS
<1>1. PICK m \in Out : \A q \in Out : <<q, m>> \notin OpToRel(<, Nat)
  BY WFMin, NatLessThanWellFounded, Zenon
<1>2. \A q \in Out : ~ (q < m)
  BY <1>1, Zenon DEF OpToRel
<1>3. CASE m = 0
  <2>1. ASSUME NEW D \in SUBSET DOMAIN s, Cardinality(D) <= 0 PROVE D = {}
    <3>1. Cardinality(D) \in Nat
      BY LastPlace
    <3>2. Cardinality(D) = 0
      BY <2>1, <3>1
    <3> QED BY <3>2, LastPlace
  <2>2. AppliesSome([D \in SUBSET DOMAIN s |-> v], v, s, 0)
    BY <2>1 DEF AppliesSome
  <2> QED BY <1>3, <2>2
<1>4. CASE m # 0
  <2>1. m - 1 \in Nat /\ m - 1 < m /\ m - 1 + 1 = m
    BY <1>4
  <2>2. PICK f : AppliesSome(f, v, s, m - 1)
    BY <1>2, <2>1
  <2>3. \E h : AppliesSome(h, v, s, m)
    BY <2>1, <2>2, ApplyingGrows
  <2> QED BY <2>3
<1> QED BY <1>3, <1>4

\* What FoldLeft chooses applies all events, each to the view after those before it.
LEMMA ApplyOneByOne ==
  ASSUME NEW v \in View, NEW s \in Seq(Event)
  PROVE  \E f : /\ ApplyEvents(v, s) = f[1..Len(s)] /\ f[{}] = v
                /\ \A n \in 1..Len(s) : f[1..n] = ApplyEvent(f[1..(n - 1)], s[n])
<1> DEFINE all == DOMAIN s
<1>1. all \in SUBSET DOMAIN s /\ Cardinality(all) \in Nat
  BY LastPlace
<1>2. PICK f : AppliesSome(f, v, s, Cardinality(all))
  BY <1>1, ApplyingReaches
<1>3. AppliesAll(f, v, s)
  <2>1. \A D \in SUBSET all : Cardinality(D) <= Cardinality(all)
    BY LastPlace, FS_Subset
  <2> QED BY <1>2, <2>1 DEF AppliesSome, AppliesAll
<1> DEFINE h == CHOOSE h : AppliesAll(h, v, s)
<1>4. AppliesAll(h, v, s) /\ ApplyEvents(v, s) = h[all]
  BY <1>3, ApplyUnfolds
<1> HIDE DEF h
<1>5. \A D \in SUBSET DOMAIN s :
        h[D] = IF D = {} THEN v ELSE ApplyEvent(h[D \ {Max(D)}], s[Max(D)])
  BY <1>4 DEF AppliesAll
<1>6. DOMAIN s = 1..Len(s) /\ Len(s) \in Nat
  OBVIOUS
<1>7. ASSUME NEW n \in 1..Len(s) PROVE h[1..n] = ApplyEvent(h[1..(n - 1)], s[n])
  <2>1. 1..n \in SUBSET DOMAIN s /\ n \in 1..n /\ n \in Nat
    BY <1>6
  <2>2. Max(1..n) = n
    <3>1. Max(1..n) \in 1..n /\ \A x \in 1..n : Max(1..n) >= x
      BY <2>1, LargestExists
    <3> QED BY <2>1, <3>1
  <2>3. (1..n) \ {n} = 1..(n - 1)
    BY <2>1
  <2> QED BY <1>5, <2>1, <2>2, <2>3
<1>8. h[{}] = v
  BY <1>5
<1> QED BY <1>4, <1>6, <1>7, <1>8

InOrder(s) == \A i, j \in DOMAIN s : i < j /\ s[i].obj = s[j].obj => s[i].nth < s[j].nth

\* A view that is shown events in their order, later than those it knows, shows them all.
LEMMA ShowsTheRest ==
  ASSUME NEW v \in View, NEW S \in SUBSET Event, NEW X \in SUBSET Nodes, Shows(v, S, X),
         NEW s \in Seq(Event), InOrder(s),
         \A i \in DOMAIN s : \A f \in S : f.obj = s[i].obj => f.nth < s[i].nth
  PROVE  Showing(ApplyEvents(v, s), S \cup Ids(s), X, v)
<1>1. DOMAIN s = 1..Len(s) /\ Len(s) \in Nat /\ s \in [DOMAIN s -> Event]
  OBVIOUS
<1>2. PICK f : /\ ApplyEvents(v, s) = f[1..Len(s)] /\ f[{}] = v
               /\ \A n \in 1..Len(s) : f[1..n] = ApplyEvent(f[1..(n - 1)], s[n])
  BY ApplyOneByOne
<1> DEFINE Early(n) == S \cup {s[i] : i \in 1..n}
           Good(n) == n <= Len(s) => Showing(f[1..n], Early(n), X, v)
           Bad == {n \in Nat : ~Good(n)}
<1>3. Good(0)
  <2>1. 1..0 = {} /\ Early(0) = S
    OBVIOUS
  <2> QED BY <1>2, <2>1 DEF Showing
<1>4. ASSUME NEW n \in Nat, Good(n) PROVE Good(n + 1)
  <2> SUFFICES ASSUME n + 1 <= Len(s) PROVE Showing(f[1..(n + 1)], Early(n + 1), X, v)
    OBVIOUS
  <2> DEFINE e == s[n + 1]
  <2>1. n + 1 \in 1..Len(s) /\ n + 1 - 1 = n /\ n <= Len(s) /\ 1..n \subseteq 1..Len(s)
    BY <1>1
  <2>2. Showing(f[1..n], Early(n), X, v)
    BY <1>4, <2>1
  <2>3. e \in Event /\ Early(n) \in SUBSET Event
    BY <1>1, <2>1
  <2>4. ASSUME NEW g \in Early(n), g.obj = e.obj PROVE g.nth < e.nth
    <3>1. CASE g \in S
      BY <1>1, <2>1, <2>4, <3>1
    <3>2. CASE g \in {s[i] : i \in 1..n}
      <4>1. PICK i \in 1..n : g = s[i]
        BY <3>2
      <4>2. i \in DOMAIN s /\ n + 1 \in DOMAIN s /\ i < n + 1
        BY <1>1, <2>1
      <4> QED BY <2>4, <4>1, <4>2 DEF InOrder
    <3> QED BY <3>1, <3>2
  <2>5. f[1..(n + 1)] = ApplyEvent(f[1..n], e)
    BY <1>2, <2>1
  <2>6. Early(n + 1) = Early(n) \cup {e}
    <3>1. 1..(n + 1) = 1..n \cup {n + 1}
      OBVIOUS
    <3> QED BY <3>1
  <2>7. f[1..n] \in View
    BY <2>2 DEF Showing
  <2> HIDE DEF e, Early
  <2>8. Showing(ApplyEvent(f[1..n], e), Early(n) \cup {e}, X, v)
    BY <2>2, <2>3, <2>4, <2>7, ShowsOneMore
  <2> QED BY <2>5, <2>6, <2>8
<1> HIDE DEF Good
<1>5. Bad = {}
  <2> SUFFICES ASSUME Bad # {} PROVE FALSE
    OBVIOUS
  <2>1. PICK m \in Bad : \A q \in Bad : <<q, m>> \notin OpToRel(<, Nat)
    BY WFMin, NatLessThanWellFounded, Zenon
  <2>2. \A q \in Bad : ~ (q < m)
    BY <2>1, Zenon DEF OpToRel
  <2>3. m # 0
    BY <1>3
  <2>4. m - 1 \in Nat /\ m - 1 < m /\ m - 1 + 1 = m
    BY <2>3
  <2>5. Good(m - 1)
    BY <2>2, <2>4
  <2>6. Good(m - 1 + 1)
    BY <1>4, <2>4, <2>5
  <2> QED BY <2>4, <2>6
<1>6. Good(Len(s))
  BY <1>1, <1>5
<1>7. Early(Len(s)) = S \cup Ids(s)
  BY <1>1 DEF Ids
<1> HIDE DEF Early
<1>8. Showing(f[1..Len(s)], Early(Len(s)), X, v)
  BY <1>1, <1>6 DEF Good
<1> QED BY <1>2, <1>7, <1>8

-----------------------------------------------------------------------------
(***************************************************************************)
(* The journal and what is added to it.                                    *)
(***************************************************************************)
\* An event of the journal has no higher number than events there are of its object.
Numbered(l) == InOrder(l) /\ \A i \in DOMAIN l : l[i].nth <= Told(l, l[i].obj)

\* The events of an open transaction go on where the journal stops.
Continues(l, s) ==
  /\ InOrder(s)
  /\ \A i \in DOMAIN s : /\ Told(l, s[i].obj) < s[i].nth
                         /\ s[i].nth <= Told(l, s[i].obj) + Told(s, s[i].obj)

\* Of every event in S the earlier ones about its object are in S, unless that is in X.
Complete(l, S, X) ==
  /\ S \subseteq Ids(l)
  /\ \A e \in S, f \in Ids(l) :
       e.obj \notin X /\ f.obj = e.obj /\ f.nth < e.nth => f \in S

LEMMA CompleteLess ==
  ASSUME NEW l, NEW S, NEW X, NEW Y, X \subseteq Y, Complete(l, S, X)
  PROVE  Complete(l, S, Y)
BY DEF Complete

LEMMA Elements ==
  ASSUME NEW S, NEW s \in Seq(S)
  PROVE  /\ DOMAIN s = 1..Len(s) /\ Len(s) \in Nat /\ Ids(s) \subseteq S
         /\ \A i \in DOMAIN s : s[i] \in S /\ s[i] \in Ids(s)
         /\ \A e \in Ids(s) : \E i \in DOMAIN s : e = s[i]
<1>1. DOMAIN s = 1..Len(s) /\ Len(s) \in Nat /\ s \in [DOMAIN s -> S]
  OBVIOUS
<1> QED BY <1>1 DEF Ids

\* The events of a sequence are numbered.
LEMMA EventNumbers ==
  ASSUME NEW s \in Seq(Event)
  PROVE  \A i \in DOMAIN s : i \in Nat /\ s[i] \in Event /\ s[i].nth \in Nat
<1> SUFFICES ASSUME NEW i \in DOMAIN s PROVE i \in Nat /\ s[i] \in Event /\ s[i].nth \in Nat
  OBVIOUS
<1>1. i \in Nat /\ s[i] \in Event
  BY Elements
<1> QED BY <1>1, EventTyped

LEMMA EmptyTells ==
  /\ Ids(<< >>) = {} /\ InOrder(<< >>) /\ \A o : Told(<< >>, o) = 0 /\ Len(<< >>) = 0
  /\ \A S : << >> \in Seq(S)
<1>1. \A o : PlacesOf(<< >>, o) = {}
  BY DEF PlacesOf
<1> QED BY <1>1, FS_EmptySet DEF Ids, InOrder, Told

\* The next event of an object goes on where the transaction stops.
LEMMA ContinuesOneMore ==
  ASSUME NEW l \in Seq(Event), NEW s \in Seq(Event), Continues(l, s), NEW e \in Event,
         e.nth = Told(l, e.obj) + Told(s, e.obj) + 1
  PROVE  Continues(l, Append(s, e))
<1> DEFINE t == Append(s, e)
<1>1. /\ DOMAIN t = 1..(Len(s) + 1) /\ DOMAIN s = 1..Len(s) /\ Len(s) \in Nat
      /\ t[Len(s) + 1] = e /\ \A i \in DOMAIN s : t[i] = s[i]
  OBVIOUS
<1>2. \A o : Told(l, o) \in Nat /\ Told(s, o) \in Nat
  BY TellsSome
<1>3. \A o : Told(t, o) = Told(s, o) + (IF e.obj = o THEN 1 ELSE 0)
  BY AppendTells
<1>4. \A i \in DOMAIN s : s[i].nth \in Nat
  BY EventNumbers
<1> HIDE DEF t
<1>5. \A i \in DOMAIN t : \/ i \in DOMAIN s /\ t[i] = s[i]
                          \/ i = Len(s) + 1 /\ t[i] = e
  BY <1>1
<1>6. ASSUME NEW i \in DOMAIN t, NEW j \in DOMAIN t, i < j, t[i].obj = t[j].obj
      PROVE  t[i].nth < t[j].nth
  <2>1. i \in DOMAIN s /\ t[i] = s[i]
    BY <1>1, <1>6
  <2>2. CASE j \in DOMAIN s
    BY <1>1, <1>6, <2>1, <2>2 DEF Continues, InOrder
  <2>3. CASE j = Len(s) + 1
    <3>1. s[i].nth <= Told(l, s[i].obj) + Told(s, s[i].obj) /\ s[i].obj = e.obj /\ t[j] = e
      BY <1>1, <1>6, <2>1, <2>3 DEF Continues
    <3>2. s[i].nth < e.nth
      BY <1>2, <1>4, <2>1, <3>1
    <3> QED BY <2>1, <3>1, <3>2
  <2> QED BY <1>5, <2>2, <2>3
<1>7. ASSUME NEW i \in DOMAIN t
      PROVE  Told(l, t[i].obj) < t[i].nth /\ t[i].nth <= Told(l, t[i].obj) + Told(t, t[i].obj)
  <2>1. CASE i \in DOMAIN s /\ t[i] = s[i]
    <3>1. Told(l, s[i].obj) < s[i].nth /\ s[i].nth <= Told(l, s[i].obj) + Told(s, s[i].obj)
      BY <2>1 DEF Continues
    <3>2. Told(t, s[i].obj) >= Told(s, s[i].obj) /\ Told(t, s[i].obj) \in Nat
      BY <1>2, <1>3
    <3> QED BY <1>2, <1>4, <2>1, <3>1, <3>2
  <2>2. CASE t[i] = e
    BY <1>2, <1>3, <2>2
  <2> QED BY <1>5, <2>1, <2>2
<1> QED BY <1>6, <1>7 DEF t, Continues, InOrder

\* A transaction that commits leaves the journal numbered.
LEMMA JoinNumbered ==
  ASSUME NEW l \in Seq(Event), NEW s \in Seq(Event), Numbered(l), Continues(l, s)
  PROVE  Numbered(l \o s)
<1> DEFINE t == l \o s
<1>1. \A o : Told(l, o) \in Nat /\ Told(s, o) \in Nat /\ Told(t, o) = Told(l, o) + Told(s, o)
  BY TellsSome, JoinTells
<1>2. /\ \A i \in DOMAIN l : l[i].nth \in Nat /\ t[i] = l[i] /\ i \in Nat /\ i <= Len(l)
      /\ \A i \in DOMAIN t : i \in DOMAIN l \/ i - Len(l) \in DOMAIN s
      /\ \A i \in DOMAIN t : i \in Nat
      /\ Len(l) \in Nat
  BY EventNumbers, Elements, JoinPlaces
<1>3. ASSUME NEW i \in DOMAIN t, i - Len(l) \in DOMAIN s
      PROVE  t[i] = s[i - Len(l)] /\ s[i - Len(l)].nth \in Nat
  <2>1. Len(l) + (i - Len(l)) = i
    BY <1>2
  <2> QED BY <1>3, <2>1, JoinPlaces, EventNumbers
<1> HIDE DEF t
<1>4. ASSUME NEW i \in DOMAIN t PROVE t[i].nth <= Told(t, t[i].obj)
  <2>1. CASE i \in DOMAIN l
    <3>1. l[i].nth <= Told(l, l[i].obj)
      BY <2>1 DEF Numbered
    <3> QED BY <1>1, <1>2, <2>1, <3>1
  <2>2. CASE i - Len(l) \in DOMAIN s
    <3>1. t[i].nth <= Told(l, t[i].obj) + Told(s, t[i].obj)
      BY <1>3, <2>2 DEF Continues
    <3> QED BY <1>1, <3>1
  <2> QED BY <1>2, <2>1, <2>2
<1>5. ASSUME NEW i \in DOMAIN t, NEW j \in DOMAIN t, i < j, t[i].obj = t[j].obj
      PROVE  t[i].nth < t[j].nth
  <2>1. CASE i \in DOMAIN l /\ j \in DOMAIN l
    BY <1>2, <1>5, <2>1 DEF Numbered, InOrder
  <2>2. CASE i \in DOMAIN l /\ j - Len(l) \in DOMAIN s
    <3>1. l[i].nth <= Told(l, l[i].obj)
      BY <2>2 DEF Numbered
    <3>2. Told(l, s[j - Len(l)].obj) < s[j - Len(l)].nth
      BY <2>2 DEF Continues
    <3>3. t[i] = l[i] /\ t[j] = s[j - Len(l)] /\ l[i].nth \in Nat /\ s[j - Len(l)].nth \in Nat
      BY <1>2, <1>3, <2>2
    <3> QED BY <1>1, <1>5, <3>1, <3>2, <3>3
  <2>3. CASE i - Len(l) \in DOMAIN s /\ j - Len(l) \in DOMAIN s
    <3>1. i - Len(l) < j - Len(l)
      BY <1>2, <1>5
    <3>2. t[i] = s[i - Len(l)] /\ t[j] = s[j - Len(l)]
      BY <1>3, <2>3
    <3> QED BY <1>5, <2>3, <3>1, <3>2 DEF Continues, InOrder
  <2>4. CASE i - Len(l) \in DOMAIN s /\ j \in DOMAIN l
    <3>1. i - Len(l) >= 1
      BY <2>4, Elements
    <3> QED BY <1>2, <1>5, <2>4, <3>1
  <2> QED BY <1>2, <2>1, <2>2, <2>3, <2>4
<1> QED BY <1>4, <1>5 DEF t, Numbered, InOrder

\* Of the journal's events no two have object and number in common.
LEMMA NumberedApart ==
  ASSUME NEW l \in Seq(Event), Numbered(l), NEW e \in Ids(l), NEW f \in Ids(l),
         e.obj = f.obj, e.nth = f.nth
  PROVE  e = f
<1>1. PICK i \in DOMAIN l : e = l[i]
  BY Elements
<1>2. PICK j \in DOMAIN l : f = l[j]
  BY Elements
<1>3. i \in Nat /\ j \in Nat /\ l[i].nth \in Nat /\ l[j].nth \in Nat
  BY EventNumbers
<1>4. ~(i < j) /\ ~(j < i)
  BY <1>1, <1>2, <1>3 DEF Numbered, InOrder
<1> QED BY <1>1, <1>2, <1>3, <1>4

\* Events that are committed come after all that were known of their object.
LEMMA CommittedIsLater ==
  ASSUME NEW l \in Seq(Event), NEW s \in Seq(Event), Numbered(l), Continues(l, s),
         NEW e \in Ids(l), NEW f \in Ids(s), e.obj = f.obj
  PROVE  e.nth < f.nth
<1>1. PICK i \in DOMAIN l : e = l[i]
  BY Elements
<1>2. PICK j \in DOMAIN s : f = s[j]
  BY Elements
<1>3. e.nth <= Told(l, e.obj) /\ Told(l, e.obj) < f.nth
  BY <1>1, <1>2 DEF Numbered, Continues
<1>4. Told(l, e.obj) \in Nat /\ e.nth \in Nat /\ f.nth \in Nat
  BY <1>1, <1>2, TellsSome, EventNumbers
<1> QED BY <1>3, <1>4

LEMMA CompleteStays ==
  ASSUME NEW l \in Seq(Event), NEW s \in Seq(Event), Numbered(l), Continues(l, s),
         NEW S, NEW X, Complete(l, S, X)
  PROVE  Complete(l \o s, S, X)
<1>1. Ids(l \o s) = Ids(l) \cup Ids(s)
  BY JoinTells
<1>2. ASSUME NEW e \in S, NEW f \in Ids(s), f.obj = e.obj, f.nth < e.nth PROVE FALSE
  <2>1. e.nth < f.nth
    BY <1>2, CommittedIsLater DEF Complete
  <2>2. e \in Event /\ f \in Event
    BY Elements DEF Complete
  <2> QED BY <1>2, <2>1, <2>2, EventTyped
<1> QED BY <1>1, <1>2 DEF Complete

-----------------------------------------------------------------------------
(***************************************************************************)
(* A transaction delivers its events, and a savepoint knows how many there *)
(* were of each.                                                           *)
(***************************************************************************)
Marks == {<< >>} \cup (Nat \X Nat \X Nat)
Txn == [open : BOOLEAN, writes : Seq(Event), events : Seq(Event), calls : Seq(Event),
        marks : Marks]

\* Every write that is an event is among the events, and those continue the journal.
Whole(l, writes, events) ==
  /\ \A i \in DOMAIN writes : IsEvent(writes[i]) => writes[i] \in Ids(events)
  /\ Continues(l, events)
  /\ Len(events) <= Len(writes)

Delivers(l, tx) ==
  /\ tx.calls = tx.events
  /\ \A i \in DOMAIN tx.writes : ~IsEvent(tx.writes[i]) => tx.writes[i].obj \in Tasks
  /\ Whole(l, tx.writes, tx.events)
  /\ tx.marks # << >> =>
       /\ tx.marks[1] <= Len(tx.writes) /\ tx.marks[2] <= Len(tx.events)
       /\ tx.marks[2] = tx.marks[3]
       /\ Whole(l, SubSeq(tx.writes, 1, tx.marks[1]), SubSeq(tx.events, 1, tx.marks[2]))

LEMMA TxnParts ==
  ASSUME NEW tx \in Txn
  PROVE  /\ tx.open \in BOOLEAN /\ tx.writes \in Seq(Event) /\ tx.events \in Seq(Event)
         /\ tx.calls \in Seq(Event) /\ tx.marks \in Marks
         /\ tx = [open |-> tx.open, writes |-> tx.writes, events |-> tx.events,
                  calls |-> tx.calls, marks |-> tx.marks]
         /\ tx.marks # << >> => /\ tx.marks[1] \in Nat /\ tx.marks[2] \in Nat
                                /\ tx.marks[3] \in Nat
<1>1. tx.marks \in Marks
  BY DEF Txn
<1>2. tx.marks # << >> => tx.marks \in Nat \X Nat \X Nat
  BY <1>1 DEF Marks
<1>3. tx.marks # << >> => /\ tx.marks[1] \in Nat /\ tx.marks[2] \in Nat /\ tx.marks[3] \in Nat
  BY <1>2
<1> QED BY <1>3 DEF Txn

\* A transaction that has done nothing.
LEMMA NothingDone ==
  ASSUME NEW l \in Seq(Event), NEW b \in BOOLEAN
  PROVE  LET tx == [NoTxn EXCEPT !.open = b]
         IN tx \in Txn /\ tx.open = b /\ Delivers(l, tx) /\ tx.events = << >> /\ tx.marks = << >>
<1> DEFINE tx == [open |-> b, writes |-> << >>, events |-> << >>, calls |-> << >>, marks |-> << >>]
<1>1. tx = [NoTxn EXCEPT !.open = b]
  BY DEF NoTxn
<1>2. tx \in Txn
  BY EmptyTells DEF Txn, Marks
<1>3. DOMAIN tx.writes = {} /\ DOMAIN tx.events = {} /\ Len(tx.writes) = 0 /\ Len(tx.events) = 0
  OBVIOUS
<1>4. Delivers(l, tx)
  BY <1>3 DEF Delivers, Whole, Continues, InOrder
<1> QED BY <1>1, <1>2, <1>4

LEMMA NoTxnIsFresh == NoTxn = [NoTxn EXCEPT !.open = FALSE]
<1>1. ASSUME NEW b
      PROVE  [NoTxn EXCEPT !.open = b] = [open |-> b, writes |-> << >>, events |-> << >>,
                                          calls |-> << >>, marks |-> << >>]
  BY DEF NoTxn
<1> QED BY <1>1 DEF NoTxn

\* An event is delivered if it goes on where the transaction stops.
LEMMA AppendDelivers ==
  ASSUME NEW l \in Seq(Event), NEW tx \in Txn, Delivers(l, tx), NEW e \in Event,
         e.nth = Told(l, e.obj) + Told(tx.events, e.obj) + 1,
         ~IsEvent(e) => e.obj \in Tasks
  PROVE  LET new == AppendEvent(tx, e)
         IN /\ new \in Txn /\ Delivers(l, new) /\ new.open = tx.open
            /\ Ids(new.events) \subseteq Ids(tx.events) \cup {e}
            /\ IsEvent(e) \/ new.events = tx.events
<1> DEFINE writes == Append(tx.writes, e)
           events == IF IsEvent(e) THEN Append(tx.events, e) ELSE tx.events
           new == [open |-> tx.open, writes |-> writes, events |-> events, calls |-> events,
                   marks |-> tx.marks]
<1>1. /\ tx.open \in BOOLEAN /\ tx.writes \in Seq(Event) /\ tx.events \in Seq(Event)
      /\ tx.marks \in Marks /\ tx.calls = tx.events
      /\ tx = [open |-> tx.open, writes |-> tx.writes, events |-> tx.events,
               calls |-> tx.calls, marks |-> tx.marks]
      /\ tx.marks # << >> => tx.marks[1] \in Nat /\ tx.marks[2] \in Nat
  BY TxnParts DEF Delivers
<1>2. AppendEvent(tx, e) = new
  BY <1>1 DEF AppendEvent
<1>3. /\ writes \in Seq(Event) /\ Len(writes) = Len(tx.writes) + 1
      /\ Ids(writes) = Ids(tx.writes) \cup {e}
  BY <1>1, AppendTells
<1>4. /\ events \in Seq(Event) /\ Len(events) <= Len(tx.events) + 1 /\ Len(events) >= Len(tx.events)
      /\ Ids(tx.events) \subseteq Ids(events) /\ Ids(events) \subseteq Ids(tx.events) \cup {e}
      /\ IsEvent(e) => e \in Ids(events)
  <2>1. Len(tx.events) \in Nat
    BY <1>1
  <2>2. CASE IsEvent(e)
    BY <1>1, <2>1, <2>2, AppendTells
  <2>3. CASE ~IsEvent(e)
    BY <1>1, <2>1, <2>3
  <2> QED BY <2>2, <2>3
<1>5. new \in Txn
  BY <1>1, <1>3, <1>4 DEF Txn
<1>6. Continues(l, events)
  BY <1>1, ContinuesOneMore DEF Delivers, Whole
<1>7. \A i \in DOMAIN writes : \/ writes[i] = e
                               \/ i \in DOMAIN tx.writes /\ writes[i] = tx.writes[i]
  BY <1>1
<1>8. Whole(l, writes, events)
  <2>1. Len(events) <= Len(writes)
    BY <1>1, <1>3, <1>4 DEF Delivers, Whole
  <2>2. \A i \in DOMAIN writes : IsEvent(writes[i]) => writes[i] \in Ids(events)
    BY <1>4, <1>7 DEF Delivers, Whole
  <2> QED BY <1>6, <2>1, <2>2 DEF Whole
<1>9. ASSUME tx.marks # << >>
      PROVE  /\ tx.marks[1] <= Len(writes) /\ tx.marks[2] <= Len(events)
             /\ SubSeq(writes, 1, tx.marks[1]) = SubSeq(tx.writes, 1, tx.marks[1])
             /\ SubSeq(events, 1, tx.marks[2]) = SubSeq(tx.events, 1, tx.marks[2])
  <2>1. /\ tx.marks[1] <= Len(tx.writes) /\ tx.marks[2] <= Len(tx.events)
        /\ Len(tx.writes) \in Nat /\ Len(tx.events) \in Nat /\ Len(events) \in Nat
        /\ tx.marks[1] \in Nat /\ tx.marks[2] \in Nat
    BY <1>1, <1>4, <1>9 DEF Delivers
  <2>2. SubSeq(writes, 1, tx.marks[1]) = SubSeq(tx.writes, 1, tx.marks[1])
    BY <1>1, <2>1, PrefixStays
  <2>3. SubSeq(events, 1, tx.marks[2]) = SubSeq(tx.events, 1, tx.marks[2])
    BY <1>1, <2>1, PrefixStays
  <2>4. Len(tx.writes) + 1 >= tx.marks[1] /\ Len(events) >= tx.marks[2]
    BY <1>4, <2>1
  <2> QED BY <1>3, <2>2, <2>3, <2>4
<1> HIDE DEF writes, events
<1>10. Delivers(l, new)
  <2>1. \A i \in DOMAIN writes : ~IsEvent(writes[i]) => writes[i].obj \in Tasks
    BY <1>7 DEF Delivers
  <2> QED BY <1>8, <1>9, <2>1 DEF Delivers
<1> QED BY <1>2, <1>4, <1>5, <1>10 DEF events

\* Before a nested rollback, at its savepoint, there was as much as after it.
LEMMA SavepointDelivers ==
  ASSUME NEW l \in Seq(Event), NEW tx \in Txn, Delivers(l, tx)
  PROVE  LET new == [tx EXCEPT !.marks = <<Len(tx.writes), Len(tx.events), Len(tx.calls)>>]
         IN new \in Txn /\ Delivers(l, new) /\ new.open = tx.open /\ new.events = tx.events
<1> DEFINE marks == <<Len(tx.writes), Len(tx.events), Len(tx.calls)>>
           new == [open |-> tx.open, writes |-> tx.writes, events |-> tx.events,
                   calls |-> tx.calls, marks |-> marks]
<1>1. /\ tx.open \in BOOLEAN /\ tx.writes \in Seq(Event) /\ tx.events \in Seq(Event)
      /\ tx.calls \in Seq(Event) /\ tx.calls = tx.events
      /\ tx = [open |-> tx.open, writes |-> tx.writes, events |-> tx.events,
               calls |-> tx.calls, marks |-> tx.marks]
  BY TxnParts DEF Delivers
<1>2. /\ marks \in Marks /\ marks[1] = Len(tx.writes) /\ marks[2] = Len(tx.events)
      /\ marks[3] = Len(tx.events) /\ Len(tx.writes) \in Nat /\ Len(tx.events) \in Nat
  BY <1>1 DEF Marks
<1> HIDE DEF marks
<1>3. [tx EXCEPT !.marks = marks] = new
  <2> DEFINE changed == [tx EXCEPT !.marks = marks]
  <2>1. DOMAIN tx = {"open", "writes", "events", "calls", "marks"}
    BY DEF Txn
  <2>2. /\ changed.open = tx.open /\ changed.writes = tx.writes /\ changed.events = tx.events
        /\ changed.calls = tx.calls /\ changed.marks = marks
    BY <2>1
  <2>3. DOMAIN changed = DOMAIN tx /\ changed = [f \in DOMAIN tx |-> changed[f]]
    OBVIOUS
  <2> HIDE DEF changed
  <2> QED BY <2>1, <2>2, <2>3
<1>4. /\ SubSeq(tx.writes, 1, marks[1]) = tx.writes /\ SubSeq(tx.events, 1, marks[2]) = tx.events
  BY <1>1, <1>2, WholePrefix
<1>5. new \in Txn
  BY <1>1, <1>2 DEF Txn
<1>6. Delivers(l, new)
  <2>1. Whole(l, tx.writes, tx.events)
    BY DEF Delivers
  <2>2. Whole(l, SubSeq(new.writes, 1, new.marks[1]), SubSeq(new.events, 1, new.marks[2]))
    BY <1>4, <2>1
  <2>3. new.marks[1] <= Len(new.writes) /\ new.marks[2] <= Len(new.events)
    BY <1>2
  <2> QED BY <1>1, <1>2, <2>1, <2>2, <2>3 DEF Delivers
<1> QED BY <1>1, <1>3, <1>5, <1>6 DEF marks

\* A nested rollback leaves a transaction that delivers its events.
LEMMA RolledBackDelivers ==
  ASSUME NEW l \in Seq(Event), NEW tx \in Txn, Delivers(l, tx), tx.marks # << >>
  PROVE  LET new == RolledBack(tx)
         IN /\ new \in Txn /\ Delivers(l, new) /\ new.open = tx.open
            /\ Ids(new.events) \subseteq Ids(tx.events)
<1> DEFINE writes == SubSeq(tx.writes, 1, tx.marks[1])
           events == SubSeq(tx.events, 1, tx.marks[2])
           new == [open |-> tx.open, writes |-> writes, events |-> events, calls |-> events,
                   marks |-> << >>]
<1>1. /\ tx.open \in BOOLEAN /\ tx.writes \in Seq(Event) /\ tx.events \in Seq(Event)
      /\ tx.calls = tx.events /\ tx.marks[1] \in Nat /\ tx.marks[2] \in Nat
      /\ tx = [open |-> tx.open, writes |-> tx.writes, events |-> tx.events,
               calls |-> tx.calls, marks |-> tx.marks]
  BY TxnParts DEF Delivers
<1>2. /\ tx.marks[1] <= Len(tx.writes) /\ tx.marks[2] <= Len(tx.events)
      /\ tx.marks[2] = tx.marks[3] /\ Whole(l, writes, events)
  BY DEF Delivers
<1>3. RolledBack(tx) = new
  <2>1. SubSeq(tx.calls, 1, tx.marks[3]) = events
    BY <1>1, <1>2
  <2>2. DOMAIN tx = {"open", "writes", "events", "calls", "marks"}
    BY DEF Txn
  <2>3. /\ RolledBack(tx).open = tx.open /\ RolledBack(tx).writes = writes
        /\ RolledBack(tx).events = events /\ RolledBack(tx).marks = << >>
        /\ RolledBack(tx).calls = SubSeq(tx.calls, 1, tx.marks[3])
    BY <2>2 DEF RolledBack
  <2>4. /\ DOMAIN RolledBack(tx) = DOMAIN tx
        /\ RolledBack(tx) = [f \in DOMAIN tx |-> RolledBack(tx)[f]]
    BY DEF RolledBack
  <2> HIDE DEF writes, events
  <2> QED BY <2>1, <2>2, <2>3, <2>4
<1>4. writes \in Seq(Event) /\ events \in Seq(Event) /\ Ids(events) \subseteq Ids(tx.events)
  BY <1>1, <1>2, PrefixTells
<1>5. \A i \in DOMAIN writes : i \in DOMAIN tx.writes /\ writes[i] = tx.writes[i]
  BY <1>1, <1>2, PrefixTells
<1> HIDE DEF writes, events
<1>6. new \in Txn
  BY <1>1, <1>4 DEF Txn, Marks
<1>7. Delivers(l, new)
  BY <1>2, <1>5 DEF Delivers
<1> QED BY <1>3, <1>4, <1>6, <1>7

-----------------------------------------------------------------------------
(***************************************************************************)
(* The inductive invariant.                                                *)
(***************************************************************************)
ViewTyped ==
  /\ log \in Seq(Event) /\ rows \in [Tasks \cup Nodes -> Statuses]
  /\ lock \in Writers \cup {NoWriter} /\ txn \in [Writers -> Txn]
  /\ calls \in [Threads -> Seq(Event)]
  /\ loop \in {"idle", "waiting", "reading", "starting"}
  /\ resultDue \in BOOLEAN /\ view \in View /\ overtaken \in SUBSET Nodes
  /\ spent \in [snapshots : Nat, rollbacks : Nat, crashes : 0..MaxCrashes]

LogFits == Numbered(log)

\* Who is in a transaction has the lock; a thread then hands nothing over.
TxnFits ==
  \A w \in Writers :
    /\ IF txn[w].open THEN /\ lock = w /\ (w \in Threads => calls[w] = << >>)
                           /\ w = Loop => loop = "waiting"
       ELSE txn[w] = NoTxn
    /\ Delivers(log, txn[w])
    /\ \A e \in Ids(txn[w].events) : e.obj = FinalAnswer => w = Loop

OnTheirWay == UNION {Ids(calls[t]) : t \in Threads}

\* Events on their way to the loop are in the journal, in order.  Those of one object come
\* from one thread, to which the open transaction does not add; but a node may be spoken of
\* by two threads, and then it is known to be overtaken, or by the open transaction.
CallsFit ==
  /\ \A t \in Threads :
       /\ InOrder(calls[t]) /\ Ids(calls[t]) \subseteq Ids(log)
       /\ \A e \in Ids(calls[t]) : e.obj # FinalAnswer
       /\ \A u \in Threads : \A e \in Ids(calls[t]), f \in Ids(calls[u]) :
            e.obj = f.obj => t = u \/ e.obj \in overtaken
  /\ \A w \in Writers : \A e \in Ids(txn[w].events), f \in OnTheirWay :
       e.obj # f.obj \/ e.obj \in Nodes

\* The view is complete but for what is on its way and for nodes that are overtaken, ...
ViewFits ==
  /\ Shows(view, view.seen, overtaken) /\ Complete(log, view.seen, overtaken)
  /\ loop \in {"idle", "waiting"} => Ids(log) \subseteq view.seen \cup OnTheirWay
  /\ \A n \in Nodes : ~Mentions(log, n) => rows[n] = Absent /\ view.plan[n] = Absent
  /\ resultDue => Mentions(log, FinalAnswer)

\* ... and so, for all nodes, is a snapshot.
SnapshotFits ==
  IF loop # "reading" THEN snapshot = << >>
  ELSE \/ snapshot = <<snapshot[1]>> /\ snapshot[1] \in [Tasks -> Statuses]
       \/ /\ Len(snapshot) = 2
          /\ snapshot[1] \in [Tasks -> Statuses] /\ snapshot[2] \in Seq(Event)
          /\ InOrder(snapshot[2]) /\ Complete(log, Ids(snapshot[2]), {})
          /\ Ids(log) \subseteq Ids(snapshot[2]) \cup OnTheirWay

ShownInv == ViewTyped /\ LogFits /\ TxnFits /\ CallsFit /\ ViewFits /\ SnapshotFits

\* A blank view shows nothing.
LEMMA BlankShows ==
  /\ BlankView \in View /\ BlankView.seen = {} /\ \A X : Shows(BlankView, {}, X)
  /\ \A n \in Nodes : BlankView.plan[n] = Absent
<1>1. Absent \in Statuses /\ MaxEvents \in Nat
  BY ProjectionAssumption DEF Statuses
<1>2. BlankView \in View
  BY <1>1 DEF BlankView, View
<1>3. \A X : Shows(BlankView, {}, X)
  BY DEF BlankView, Shows, Ids, Distinct
<1> QED BY <1>2, <1>3 DEF BlankView

\* No transaction is open.
LEMMA NoneOpen ==
  ASSUME txn' = [w \in Writers |-> NoTxn], log' \in Seq(Event)
  PROVE  TxnFits' /\ txn' \in [Writers -> Txn] /\ \A w \in Writers : Ids(txn'[w].events) = {}
<1>1. /\ NoTxn \in Txn /\ ~NoTxn.open /\ NoTxn.events = << >>
      /\ \A l \in Seq(Event) : Delivers(l, NoTxn)
  BY NoTxnIsFresh, NothingDone
<1> HIDE DEF NoTxn
<1>2. \A w \in Writers : txn'[w] = NoTxn /\ Ids(txn'[w].events) = {}
  BY <1>1, EmptyTells
<1> QED BY <1>1, <1>2 DEF TxnFits

\* While one writer is in a transaction the others are in none.
LEMMA OthersIdle ==
  ASSUME TxnFits, NEW w \in Writers, lock = w, NEW u \in Writers, u # w
  PROVE  txn[u] = NoTxn
BY DEF TxnFits

\* The others have none open when a writer ends its own.
LEMMA EndsAlone ==
  ASSUME ViewTyped, TxnFits, NEW w \in Writers, lock = w, txn' = [txn EXCEPT ![w] = NoTxn]
  PROVE  txn' = [u \in Writers |-> NoTxn]
<1>1. \A u \in Writers : u # w => txn[u] = NoTxn
  BY OthersIdle
<1> QED BY <1>1 DEF ViewTyped

\* A step within a transaction keeps what is said of transactions and of what is on its way.
LEMMA TxnGoesOn ==
  ASSUME ViewTyped, TxnFits, CallsFit, NEW w \in Writers, txn[w].open,
         NEW new \in Txn, Delivers(log, new), new.open, txn' = [txn EXCEPT ![w] = new],
         UNCHANGED <<log, lock, calls, loop, overtaken>>,
         \A e \in Ids(new.events) :
            \/ e \in Ids(txn[w].events)
            \/ /\ e.obj = FinalAnswer => w = Loop
               /\ \A f \in OnTheirWay : e.obj # f.obj \/ e.obj \in Nodes
  PROVE  TxnFits' /\ CallsFit' /\ txn' \in [Writers -> Txn]
<1>1. /\ txn' \in [Writers -> Txn] /\ txn'[w] = new
      /\ \A u \in Writers : u # w => txn'[u] = txn[u]
  BY DEF ViewTyped
<1>2. TxnFits'
  <2> SUFFICES ASSUME NEW u \in Writers
               PROVE  /\ IF txn'[u].open
                         THEN /\ lock' = u /\ (u \in Threads => calls'[u] = << >>)
                              /\ u = Loop => loop' = "waiting"
                         ELSE txn'[u] = NoTxn
                      /\ Delivers(log', txn'[u])
                      /\ \A e \in Ids(txn'[u].events) : e.obj = FinalAnswer => u = Loop
    BY DEF TxnFits
  <2>1. CASE u = w
    BY <1>1, <2>1 DEF TxnFits
  <2>2. CASE u # w
    BY <1>1, <2>2 DEF TxnFits
  <2> QED BY <2>1, <2>2
<1>3. CallsFit'
  <2>1. ASSUME NEW u \in Writers, NEW e \in Ids(txn'[u].events), NEW f \in OnTheirWay
        PROVE  e.obj # f.obj \/ e.obj \in Nodes
    <3>1. CASE u = w
      BY <1>1, <2>1, <3>1 DEF CallsFit
    <3>2. CASE u # w
      BY <1>1, <2>1, <3>2 DEF CallsFit
    <3> QED BY <3>1, <3>2
  <2>2. OnTheirWay' = OnTheirWay
    BY DEF OnTheirWay
  <2> QED BY <2>1, <2>2 DEF CallsFit
<1> QED BY <1>1, <1>2, <1>3

\* A step that changes neither journal nor view keeps what is said of them.
LEMMA ScreenStays ==
  ASSUME ViewFits, SnapshotFits, UNCHANGED <<log, rows, calls, view, snapshot, resultDue, overtaken>>,
         loop' = loop \/ {loop, loop'} = {"idle", "waiting"}
  PROVE  ViewFits' /\ SnapshotFits'
<1>1. OnTheirWay' = OnTheirWay
  BY DEF OnTheirWay
<1>2. ViewFits'
  BY <1>1 DEF ViewFits
<1>3. SnapshotFits'
  <2>1. loop' = "reading" <=> loop = "reading"
    OBVIOUS
  <2> QED BY <1>1, <2>1 DEF SnapshotFits
<1> QED BY <1>2, <1>3

LEMMA InitShown == ViewInit => ShownInv
<1> SUFFICES ASSUME ViewInit PROVE ShownInv
  OBVIOUS
<1>1. Absent \in Statuses /\ 0 \in 0..MaxCrashes
  BY ProjectionAssumption DEF Statuses
<1>2. /\ \A w \in Writers : txn[w] = NoTxn
      /\ \A t \in Threads : calls[t] = << >>
  BY DEF ViewInit
<1>3. NoTxn \in Txn /\ ~NoTxn.open /\ NoTxn.events = << >> /\ Delivers(<< >>, NoTxn)
  BY NoTxnIsFresh, NothingDone, EmptyTells
<1> HIDE DEF NoTxn
<1>4. ViewTyped
  BY <1>1, <1>3, BlankShows, EmptyTells DEF ViewInit, ViewTyped
<1>5. LogFits
  BY EmptyTells DEF ViewInit, LogFits, Numbered
<1>6. TxnFits
  BY <1>2, <1>3, EmptyTells DEF ViewInit, TxnFits
<1>7. OnTheirWay = {}
  BY <1>2, EmptyTells DEF OnTheirWay
<1>8. CallsFit
  BY <1>2, <1>7, EmptyTells DEF CallsFit
<1>9. ViewFits
  <2>1. Ids(log) = {} /\ view = BlankView /\ ~resultDue /\ \A n \in Nodes : rows[n] = Absent
    BY EmptyTells DEF ViewInit
  <2> QED BY <2>1, BlankShows DEF ViewFits, Complete
<1>10. SnapshotFits
  BY DEF ViewInit, SnapshotFits
<1> QED BY <1>4, <1>5, <1>6, <1>8, <1>9, <1>10 DEF ShownInv

-----------------------------------------------------------------------------
(***************************************************************************)
(* Each step keeps the invariant: first those of a transaction.            *)
(***************************************************************************)
LEMMA BeginShown == ASSUME ShownInv, NEW w \in Writers, Begin(w) PROVE ShownInv'
<1> DEFINE fresh == [NoTxn EXCEPT !.open = TRUE]
<1>1. ViewTyped /\ LogFits /\ TxnFits /\ CallsFit /\ ViewFits /\ SnapshotFits /\ log \in Seq(Event)
  BY DEF ShownInv, ViewTyped
<1>2. /\ lock = NoWriter /\ lock' = w /\ txn' = [txn EXCEPT ![w] = fresh]
      /\ w = Loop => loop = "waiting"
      /\ w # Loop => calls[w] = << >>
      /\ UNCHANGED <<log, rows, calls, loop, snapshot, view, resultDue, spent, overtaken>>
  BY DEF Begin
<1>3. fresh \in Txn /\ fresh.open /\ Delivers(log, fresh) /\ fresh.events = << >>
  BY <1>1, NothingDone
<1> HIDE DEF fresh
<1>4. \A u \in Writers : u # NoWriter
  BY ProjectionAssumption
<1>5. \A u \in Writers : ~txn[u].open
  BY <1>1, <1>2, <1>4 DEF TxnFits
<1>6. /\ txn' \in [Writers -> Txn] /\ txn'[w] = fresh
      /\ \A u \in Writers : u # w => txn'[u] = txn[u]
  BY <1>1, <1>2, <1>3 DEF ViewTyped
<1>7. ViewTyped'
  BY <1>1, <1>2, <1>6 DEF ViewTyped
<1>8. TxnFits'
  <2>1. w \in Threads => w # Loop
    BY ProjectionAssumption
  <2> SUFFICES ASSUME NEW u \in Writers
               PROVE  /\ IF txn'[u].open
                         THEN /\ lock' = u /\ (u \in Threads => calls'[u] = << >>)
                              /\ u = Loop => loop' = "waiting"
                         ELSE txn'[u] = NoTxn
                      /\ Delivers(log', txn'[u])
                      /\ \A e \in Ids(txn'[u].events) : e.obj = FinalAnswer => u = Loop
    BY DEF TxnFits
  <2>2. CASE u = w
    BY <1>2, <1>3, <1>6, <2>1, <2>2, EmptyTells
  <2>3. CASE u # w
    BY <1>1, <1>2, <1>5, <1>6, <2>3 DEF TxnFits
  <2> QED BY <2>2, <2>3
<1>9. CallsFit'
  <2>1. OnTheirWay' = OnTheirWay
    BY <1>2 DEF OnTheirWay
  <2>2. \A u \in Writers : \A e \in Ids(txn'[u].events) : e \in Ids(txn[u].events)
    BY <1>3, <1>6, EmptyTells
  <2> QED BY <1>1, <1>2, <2>1, <2>2 DEF CallsFit
<1>10. ViewFits' /\ SnapshotFits'
  BY <1>1, <1>2, ScreenStays
<1> QED BY <1>1, <1>2, <1>7, <1>8, <1>9, <1>10 DEF ShownInv, LogFits

LEMMA LoopWritesShown == ASSUME ShownInv, LoopWrites PROVE ShownInv'
<1>1. ViewTyped /\ LogFits /\ TxnFits /\ CallsFit /\ ViewFits /\ SnapshotFits
  BY DEF ShownInv
<1>2. /\ loop = "idle" /\ loop' = "waiting"
      /\ UNCHANGED <<log, rows, lock, txn, calls, snapshot, view, resultDue, spent, overtaken>>
  BY DEF LoopWrites
<1>3. ViewTyped' /\ LogFits'
  BY <1>1, <1>2 DEF ViewTyped, LogFits
<1>4. TxnFits'
  BY <1>1, <1>2 DEF TxnFits
<1>5. CallsFit'
  BY <1>1, <1>2 DEF CallsFit, OnTheirWay
<1>6. ViewFits' /\ SnapshotFits'
  BY <1>1, <1>2, ScreenStays
<1> QED BY <1>3, <1>4, <1>5, <1>6 DEF ShownInv

\* What may be written of an object, whatever was said of it before.
LEMMA FollowingTyped ==
  ASSUME NEW o, NEW c, NEW s \in Following(o, c)
  PROVE  s \in Statuses /\ (s = "created" => o \in Tasks)
<1>1. CASE o \in Tasks
  <2>1. s \in {"created", "proposed", "queued", "started", "blocked", "succeeded", "failed"}
    <3>1. o \notin Nodes /\ o \notin Tools /\ o # Interrupt
      BY <1>1, ProjectionAssumption
    <3> QED BY <1>1, <3>1, SMTT(60) DEF Following
  <2> QED BY <1>1, <2>1 DEF Statuses
<1>2. CASE o \notin Tasks
  <2>1. s \in {"ready", "launching", "running", "succeeded", "completed", "failed", "started",
               "question", "answer", "cancellation"}
    BY <1>2 DEF Following, ToolCall
  <2> QED BY <2>1 DEF Statuses
<1> QED BY <1>1, <1>2

LEMMA WriteShown ==
  ASSUME ShownInv, NEW w \in Writers, NEW o \in Objects, Write(w, o) PROVE ShownInv'
<1>1. ViewTyped /\ LogFits /\ TxnFits /\ CallsFit /\ ViewFits /\ SnapshotFits /\ log \in Seq(Event)
      /\ txn[w] \in Txn
  BY DEF ShownInv, ViewTyped
<1>2. PICK s \in Following(o, Current(w, o)) :
        /\ txn[w].open /\ (o \in Nodes \/ ~InOtherHands(w, o)) /\ (o = FinalAnswer => w = Loop)
        /\ Len(log) + Len(txn[w].writes) < MaxEvents
        /\ txn' = [txn EXCEPT ![w] = AppendEvent(@, NewEvent(w, o, s))]
        /\ UNCHANGED <<log, rows, lock, calls, loop, snapshot, view, resultDue, spent, overtaken>>
  BY DEF Write
<1> DEFINE e == NewEvent(w, o, s)
           new == AppendEvent(txn[w], e)
<1>3. /\ e.obj = o /\ e.status = s /\ e.nth = Told(log, o) + Told(txn[w].events, o) + 1
      /\ e = [obj |-> e.obj, nth |-> e.nth, status |-> e.status]
  BY DEF NewEvent, History, Told
<1>4. e \in Event
  <2>1. /\ Told(log, o) \in Nat /\ Told(log, o) <= Len(log) /\ Len(log) \in Nat
        /\ Told(txn[w].events, o) \in Nat /\ Told(txn[w].events, o) <= Len(txn[w].events)
        /\ Len(txn[w].events) \in Nat /\ Len(txn[w].writes) \in Nat
    BY <1>1, TxnParts, TellsSome, Elements
  <2>2. Len(txn[w].events) <= Len(txn[w].writes)
    BY <1>1 DEF TxnFits, Delivers, Whole
  <2>3. e.nth \in 1..MaxEvents
    <3>1. MaxEvents \in Nat
      BY ProjectionAssumption
    <3>2. /\ Told(log, o) + Told(txn[w].events, o) + 1 \in Nat
          /\ Told(log, o) + Told(txn[w].events, o) < MaxEvents
      BY <1>2, <2>1, <2>2, <3>1
    <3> QED BY <1>3, <2>1, <3>1, <3>2
  <2>4. s \in Statuses
    BY FollowingTyped
  <2> HIDE DEF e
  <2> QED BY <1>3, <2>3, <2>4 DEF Event
<1>5. IsEvent(e) <=> s # "created"
  BY <1>3 DEF IsEvent
<1>6. ~IsEvent(e) => e.obj \in Tasks
  BY <1>3, <1>5, FollowingTyped
<1> HIDE DEF e
<1>7. Delivers(log, txn[w])
  BY <1>1 DEF TxnFits
<1>8. /\ new \in Txn /\ Delivers(log, new) /\ new.open
      /\ Ids(new.events) \subseteq Ids(txn[w].events) \cup {e}
  BY <1>1, <1>2, <1>3, <1>4, <1>6, <1>7, AppendDelivers
<1>9. txn' = [txn EXCEPT ![w] = new]
  BY <1>2 DEF e
<1> HIDE DEF new
<1>10. \A f \in OnTheirWay : e.obj # f.obj \/ e.obj \in Nodes
  <2> SUFFICES ASSUME NEW t \in Threads, NEW f \in Ids(calls[t]), f.obj = o, o \notin Nodes
               PROVE  FALSE
    BY <1>3 DEF OnTheirWay
  <2>1. Mentions(calls[t], o)
    BY MentionedBy
  <2>2. t = w
    BY <1>2, <2>1 DEF InOtherHands
  <2>3. calls[t] = << >>
    BY <1>1, <1>2, <2>2 DEF TxnFits
  <2> QED BY <2>3, EmptyTells
<1>11. TxnFits' /\ CallsFit' /\ txn' \in [Writers -> Txn]
  BY <1>1, <1>2, <1>3, <1>8, <1>9, <1>10, TxnGoesOn
<1>12. ViewFits' /\ SnapshotFits'
  BY <1>1, <1>2, ScreenStays
<1>13. ViewTyped' /\ LogFits'
  BY <1>1, <1>2, <1>11 DEF ViewTyped, LogFits
<1> QED BY <1>11, <1>12, <1>13 DEF ShownInv

LEMMA SavepointShown == ASSUME ShownInv, NEW w \in Writers, Savepoint(w) PROVE ShownInv'
<1>1. ViewTyped /\ LogFits /\ TxnFits /\ CallsFit /\ ViewFits /\ SnapshotFits /\ log \in Seq(Event)
      /\ txn[w] \in Txn /\ Delivers(log, txn[w])
  BY DEF ShownInv, ViewTyped, TxnFits
<1> DEFINE new == [txn[w] EXCEPT !.marks =
                     <<Len(txn[w].writes), Len(txn[w].events), Len(txn[w].calls)>>]
<1>2. /\ txn[w].open /\ txn' = [txn EXCEPT ![w] = new]
      /\ UNCHANGED <<log, rows, lock, calls, loop, snapshot, view, resultDue, spent, overtaken>>
  BY DEF Savepoint
<1>3. new \in Txn /\ Delivers(log, new) /\ new.open /\ new.events = txn[w].events
  BY <1>1, <1>2, SavepointDelivers
<1> HIDE DEF new
<1>4. TxnFits' /\ CallsFit' /\ txn' \in [Writers -> Txn]
  BY <1>1, <1>2, <1>3, TxnGoesOn
<1>5. ViewFits' /\ SnapshotFits'
  BY <1>1, <1>2, ScreenStays
<1>6. ViewTyped' /\ LogFits'
  BY <1>1, <1>2, <1>4 DEF ViewTyped, LogFits
<1> QED BY <1>4, <1>5, <1>6 DEF ShownInv

LEMMA RollbackCounted ==
  ASSUME spent \in [snapshots : Nat, rollbacks : Nat, crashes : 0..MaxCrashes],
         spent' = [spent EXCEPT !.rollbacks = @ + 1]
  PROVE  spent' \in [snapshots : Nat, rollbacks : Nat, crashes : 0..MaxCrashes]
OBVIOUS

LEMMA RollbackToSavepointShown ==
  ASSUME ShownInv, NEW w \in Writers, RollbackToSavepoint(w) PROVE ShownInv'
<1>1. ViewTyped /\ LogFits /\ TxnFits /\ CallsFit /\ ViewFits /\ SnapshotFits /\ log \in Seq(Event)
      /\ txn[w] \in Txn /\ Delivers(log, txn[w])
  BY DEF ShownInv, ViewTyped, TxnFits
<1> DEFINE new == RolledBack(txn[w])
<1>2. /\ txn[w].marks # << >> /\ txn' = [txn EXCEPT ![w] = new]
      /\ spent' = [spent EXCEPT !.rollbacks = @ + 1]
      /\ UNCHANGED <<log, rows, lock, calls, loop, snapshot, view, resultDue, overtaken>>
  BY DEF RollbackToSavepoint
<1>3. /\ new \in Txn /\ Delivers(log, new) /\ new.open = txn[w].open
      /\ Ids(new.events) \subseteq Ids(txn[w].events)
  BY <1>1, <1>2, RolledBackDelivers
<1> HIDE DEF new
<1>4. txn[w].open
  <2>1. NoTxn.marks = << >>
    BY DEF NoTxn
  <2> QED BY <1>1, <1>2, <2>1 DEF TxnFits
<1>5. TxnFits' /\ CallsFit' /\ txn' \in [Writers -> Txn]
  BY <1>1, <1>2, <1>3, <1>4, TxnGoesOn
<1>6. ViewFits' /\ SnapshotFits'
  BY <1>1, <1>2, ScreenStays
<1>7. ViewTyped' /\ LogFits'
  BY <1>1, <1>2, <1>5, RollbackCounted DEF ViewTyped, LogFits
<1> QED BY <1>5, <1>6, <1>7 DEF ShownInv

\* Rows follow the last that a transaction wrote of their object.
LEMMA RowsWritten ==
  ASSUME ViewTyped, NEW w \in Writers,
         rows' = [o \in DOMAIN rows |->
                    IF Mentions(txn[w].writes, o)
                    THEN RowOf(o, LastStatus(txn[w].writes, o)) ELSE rows[o]]
  PROVE  /\ rows' \in [Tasks \cup Nodes -> Statuses]
         /\ \A n \in Nodes : ~Mentions(txn[w].writes, n) => rows'[n] = rows[n]
<1>1. rows \in [Tasks \cup Nodes -> Statuses] /\ txn[w].writes \in Seq(Event)
  BY TxnParts DEF ViewTyped
<1>2. ASSUME NEW o, Mentions(txn[w].writes, o)
      PROVE  RowOf(o, LastStatus(txn[w].writes, o)) \in Statuses
  <2>1. txn[w].writes[Max(PlacesOf(txn[w].writes, o))] \in Event
    BY <1>1, <1>2, TellsSome, Elements
  <2>2. LastStatus(txn[w].writes, o) \in Statuses
    BY <2>1, EventTyped DEF LastStatus
  <2>3. {"queued", "running"} \subseteq Statuses
    BY DEF Statuses
  <2> HIDE DEF Statuses
  <2> QED BY <2>2, <2>3 DEF RowOf
<1> QED BY <1>1, <1>2

\* A node or an answer that a transaction writes has an event in it.
LEMMA WritesAreEvents ==
  ASSUME NEW l, NEW tx \in Txn, Delivers(l, tx), NEW o, o \notin Tasks, Mentions(tx.writes, o)
  PROVE  Mentions(tx.events, o)
<1>1. PICK i \in DOMAIN tx.writes : tx.writes[i].obj = o
  BY DEF Mentions, PlacesOf
<1>2. IsEvent(tx.writes[i])
  BY <1>1 DEF Delivers
<1>3. tx.writes[i] \in Ids(tx.events)
  BY <1>1, <1>2 DEF Delivers, Whole
<1> QED BY <1>1, <1>3, MentionedBy

LEMMA CommitShown == ASSUME ShownInv, NEW w \in Writers, Commit(w) PROVE ShownInv'
<1> DEFINE s == txn[w].events
<1>1. /\ ViewTyped /\ LogFits /\ TxnFits /\ CallsFit /\ ViewFits /\ SnapshotFits
      /\ log \in Seq(Event) /\ txn[w] \in Txn /\ view \in View /\ view.seen \in SUBSET Event
      /\ overtaken \in SUBSET Nodes
  BY DEF ShownInv, ViewTyped, View
<1>2. /\ lock = w /\ txn[w].open /\ log' = log \o s
      /\ rows' = [o \in DOMAIN rows |->
                    IF Mentions(txn[w].writes, o)
                    THEN RowOf(o, LastStatus(txn[w].writes, o)) ELSE rows[o]]
      /\ lock' = NoWriter /\ txn' = [txn EXCEPT ![w] = NoTxn]
      /\ resultDue' = (resultDue \/ \E e \in Ids(txn[w].writes) : e.obj = FinalAnswer)
      /\ UNCHANGED <<snapshot, spent>> /\ overtaken' = overtaken \cup Overtakes(w)
      /\ w = Loop => view' = ApplyEvents(view, txn[w].calls) /\ loop' = "idle" /\ UNCHANGED calls
      /\ w # Loop => calls' = [calls EXCEPT ![w] = txn[w].calls] /\ UNCHANGED <<view, loop>>
  BY DEF Commit, LockDuringCallbacks, TxnAfter
<1>3. /\ s \in Seq(Event) /\ txn[w].calls = s /\ Delivers(log, txn[w]) /\ Continues(log, s)
      /\ InOrder(s) /\ Numbered(log)
  BY <1>1, TxnParts DEF TxnFits, Delivers, Whole, Continues, LogFits
<1> HIDE DEF s
<1>4. log' \in Seq(Event) /\ Ids(log') = Ids(log) \cup Ids(s) /\ Numbered(log')
  BY <1>1, <1>2, <1>3, JoinPlaces, JoinTells, JoinNumbered
<1>5. txn' = [u \in Writers |-> NoTxn]
  BY <1>1, <1>2, EndsAlone
<1>6. TxnFits' /\ txn' \in [Writers -> Txn] /\ \A u \in Writers : Ids(txn'[u].events) = {}
  BY <1>4, <1>5, NoneOpen
<1>7. /\ rows' \in [Tasks \cup Nodes -> Statuses]
      /\ \A n \in Nodes : ~Mentions(txn[w].writes, n) => rows'[n] = rows[n]
  BY <1>1, <1>2, RowsWritten
<1>8. \A f \in Ids(log) : \A e \in Ids(s) : f.obj = e.obj => f.nth < e.nth
  BY <1>1, <1>3, CommittedIsLater
<1>9. \A n \in Nodes : ~Mentions(log', n) => ~Mentions(log, n) /\ rows'[n] = rows[n]
  <2> SUFFICES ASSUME NEW n \in Nodes, ~Mentions(log', n)
               PROVE  ~Mentions(log, n) /\ rows'[n] = rows[n]
    OBVIOUS
  <2>1. ~Mentions(log, n) /\ ~Mentions(s, n)
    BY <1>4, MentionedBy
  <2>2. n \notin Tasks
    BY ProjectionAssumption
  <2>3. ~Mentions(txn[w].writes, n)
    BY <1>1, <1>3, <2>1, <2>2, WritesAreEvents DEF s
  <2> QED BY <1>7, <2>1, <2>3
<1>10. resultDue' \in BOOLEAN /\ (resultDue' => Mentions(log', FinalAnswer))
  <2>1. FinalAnswer \notin Tasks
    BY ProjectionAssumption
  <2>2. (\E e \in Ids(txn[w].writes) : e.obj = FinalAnswer) => Mentions(s, FinalAnswer)
    BY <1>1, <1>3, <2>1, WritesAreEvents, MentionedBy DEF s
  <2>3. resultDue \in BOOLEAN /\ (resultDue => Mentions(log, FinalAnswer))
    BY <1>1 DEF ViewTyped, ViewFits
  <2> QED BY <1>2, <1>4, <2>2, <2>3, MentionedBy
<1>11. \A S, X : Complete(log, S, X) => Complete(log', S, X)
  BY <1>1, <1>2, <1>3, CompleteStays
<1>12. overtaken \subseteq overtaken' /\ overtaken' \in SUBSET Nodes
  BY <1>1, <1>2 DEF Overtakes
<1>13. ASSUME NEW e \in Ids(s), NEW f \in OnTheirWay, e.obj = f.obj PROVE e.obj \in overtaken'
  <2>1. e.obj \in Nodes
    BY <1>1, <1>13 DEF CallsFit, s
  <2>2. PICK t \in Threads : f \in Ids(calls[t])
    BY DEF OnTheirWay
  <2>3. Mentions(s, e.obj) /\ Mentions(calls[t], e.obj)
    BY <1>13, <2>2, MentionedBy
  <2> QED BY <1>2, <2>1, <2>3 DEF Overtakes, s
<1>14. CASE w = Loop
  <2>1. view' = ApplyEvents(view, s) /\ loop' = "idle" /\ calls' = calls /\ loop = "waiting"
    BY <1>1, <1>2, <1>3, <1>14 DEF TxnFits
  <2>2. OnTheirWay' = OnTheirWay
    BY <2>1 DEF OnTheirWay
  <2>3. Shows(view, view.seen, overtaken) /\ Complete(log, view.seen, overtaken)
        /\ Ids(log) \subseteq view.seen \cup OnTheirWay
    BY <1>1, <2>1 DEF ViewFits
  <2>4. \A i \in DOMAIN s : \A f \in view.seen : f.obj = s[i].obj => f.nth < s[i].nth
    BY <1>3, <1>8, <2>3, Elements DEF Complete
  <2>5. Showing(view', view.seen \cup Ids(s), overtaken, view)
    BY <1>1, <1>3, <2>1, <2>3, <2>4, ShowsTheRest
  <2>6. view' \in View /\ view'.seen = view.seen \cup Ids(s) /\ Shows(view', view'.seen, overtaken')
    <3>1. Shows(view', view.seen \cup Ids(s), overtaken')
      BY <1>12, <2>5, ShowsLess DEF Showing
    <3> QED BY <2>5, <3>1 DEF Showing, Shows
  <2>7. Complete(log', view'.seen, overtaken')
    <3>1. view'.seen \subseteq Ids(log')
      BY <1>4, <2>3, <2>6 DEF Complete
    <3>2. ASSUME NEW e \in view'.seen, NEW f \in Ids(log'), e.obj \notin overtaken',
                 f.obj = e.obj, f.nth < e.nth
          PROVE  f \in view'.seen
      <4>1. CASE e \in view.seen
        BY <1>11, <1>12, <2>3, <2>6, <3>2, <4>1 DEF Complete
      <4>2. CASE e \in Ids(s) /\ f \in Ids(log)
        <5>1. f \notin OnTheirWay
          BY <1>13, <3>2, <4>2
        <5> QED BY <2>3, <2>6, <4>2, <5>1
      <4>3. CASE f \in Ids(s)
        BY <2>6, <4>3
      <4> QED BY <1>4, <2>6, <4>1, <4>2, <4>3
    <3> QED BY <3>1, <3>2 DEF Complete
  <2>8. \A n \in Nodes : ~Mentions(log', n) => rows'[n] = Absent /\ view'.plan[n] = Absent
    <3> SUFFICES ASSUME NEW n \in Nodes, ~Mentions(log', n)
                 PROVE  rows'[n] = Absent /\ view'.plan[n] = Absent
      OBVIOUS
    <3>1. rows'[n] = Absent /\ view.plan[n] = Absent
      BY <1>1, <1>9 DEF ViewFits
    <3>2. \A e \in view.seen \cup Ids(s) : e.obj # n
      BY <1>4, <2>3, MentionedBy DEF Complete
    <3> QED BY <2>5, <3>1, <3>2 DEF Showing
  <2>9. ViewFits'
    BY <1>4, <1>10, <2>2, <2>3, <2>6, <2>7, <2>8 DEF ViewFits
  <2>10. SnapshotFits'
    BY <1>1, <1>2, <2>1 DEF SnapshotFits
  <2>11. CallsFit'
    BY <1>1, <1>4, <1>6, <1>12, <2>1, <2>2 DEF CallsFit
  <2>12. ViewTyped' /\ LogFits'
    BY <1>1, <1>2, <1>4, <1>6, <1>7, <1>10, <1>12, <2>1, <2>6 DEF ViewTyped, LogFits
  <2> QED BY <1>6, <2>9, <2>10, <2>11, <2>12 DEF ShownInv
<1>15. CASE w # Loop
  <2>1. calls' = [calls EXCEPT ![w] = s] /\ view' = view /\ loop' = loop
    BY <1>2, <1>3, <1>15
  <2>2. w \in Threads /\ calls[w] = << >> /\ calls \in [Threads -> Seq(Event)]
    BY <1>1, <1>2, <1>15 DEF TxnFits, ViewTyped, Writers
  <2>3. /\ calls' \in [Threads -> Seq(Event)] /\ calls'[w] = s
        /\ \A t \in Threads : t # w => calls'[t] = calls[t]
    BY <1>3, <2>1, <2>2
  <2>4. OnTheirWay' = OnTheirWay \cup Ids(s)
    <3>1. Ids(calls[w]) = {}
      BY <2>2, EmptyTells
    <3>2. \A t \in Threads : Ids(calls'[t]) \subseteq OnTheirWay \cup Ids(s)
      BY <2>3 DEF OnTheirWay
    <3>3. \A t \in Threads : Ids(calls[t]) \subseteq OnTheirWay'
      BY <2>3, <3>1 DEF OnTheirWay
    <3>4. Ids(s) \subseteq OnTheirWay'
      BY <2>2, <2>3 DEF OnTheirWay
    <3> QED BY <3>2, <3>3, <3>4 DEF OnTheirWay
  <2>5. CallsFit'
    <3> SUFFICES ASSUME NEW t \in Threads
                 PROVE  /\ InOrder(calls'[t]) /\ Ids(calls'[t]) \subseteq Ids(log')
                        /\ \A e \in Ids(calls'[t]) : e.obj # FinalAnswer
                        /\ \A u \in Threads : \A e \in Ids(calls'[t]), f \in Ids(calls'[u]) :
                             e.obj = f.obj => t = u \/ e.obj \in overtaken'
      BY <1>6 DEF CallsFit
    <3>1. \A e \in Ids(s) : e.obj # FinalAnswer
      BY <1>1, <1>15 DEF TxnFits, s
    <3>2. \A u \in Threads : Ids(calls[u]) \subseteq OnTheirWay
      BY DEF OnTheirWay
    <3>3. InOrder(calls'[t]) /\ Ids(calls'[t]) \subseteq Ids(log')
          /\ \A e \in Ids(calls'[t]) : e.obj # FinalAnswer
      <4>1. CASE t = w
        BY <1>3, <1>4, <2>3, <3>1, <4>1
      <4>2. CASE t # w
        BY <1>1, <1>4, <2>3, <4>2 DEF CallsFit
      <4> QED BY <4>1, <4>2
    <3>4. ASSUME NEW u \in Threads, NEW e \in Ids(calls'[t]), NEW f \in Ids(calls'[u]),
                 e.obj = f.obj, t # u
          PROVE  e.obj \in overtaken'
      <4>1. CASE t # w /\ u # w
        BY <1>1, <1>12, <2>3, <3>4, <4>1 DEF CallsFit
      <4>2. CASE t = w
        BY <1>13, <2>3, <3>2, <3>4, <4>2
      <4>3. CASE u = w
        BY <1>13, <2>3, <3>2, <3>4, <4>3
      <4> QED BY <4>1, <4>2, <4>3
    <3> QED BY <3>3, <3>4
  <2>6. ViewFits'
    <3>1. Shows(view, view.seen, overtaken')
      BY <1>1, <1>12, ShowsLess DEF ViewFits
    <3>2. Complete(log', view.seen, overtaken')
      BY <1>1, <1>11, <1>12, CompleteLess DEF ViewFits
    <3> QED BY <1>1, <1>4, <1>9, <1>10, <2>1, <2>4, <3>1, <3>2 DEF ViewFits
  <2>7. SnapshotFits'
    <3>1. CASE loop # "reading"
      BY <1>1, <1>2, <2>1, <3>1 DEF SnapshotFits
    <3>2. CASE loop = "reading" /\ snapshot = <<snapshot[1]>>
      BY <1>1, <1>2, <2>1, <3>2 DEF SnapshotFits
    <3>3. CASE loop = "reading" /\ Len(snapshot) = 2
      <4>1. snapshot # <<snapshot[1]>>
        BY <3>3
      <4>2. /\ snapshot[1] \in [Tasks -> Statuses] /\ snapshot[2] \in Seq(Event)
            /\ InOrder(snapshot[2]) /\ Complete(log, Ids(snapshot[2]), {})
            /\ Ids(log) \subseteq Ids(snapshot[2]) \cup OnTheirWay
        BY <1>1, <3>3, <4>1 DEF SnapshotFits
      <4>3. Ids(log') \subseteq Ids(snapshot[2]) \cup OnTheirWay'
        BY <1>4, <2>4, <4>2
      <4> QED BY <1>2, <1>11, <2>1, <3>3, <4>2, <4>3 DEF SnapshotFits
    <3> QED BY <1>1, <3>1, <3>2, <3>3 DEF SnapshotFits
  <2>8. ViewTyped' /\ LogFits'
    BY <1>1, <1>2, <1>4, <1>6, <1>7, <1>10, <1>12, <2>1, <2>3 DEF ViewTyped, LogFits
  <2> QED BY <1>6, <2>5, <2>6, <2>7, <2>8 DEF ShownInv
<1> QED BY <1>14, <1>15

LEMMA RollbackShown == ASSUME ShownInv, NEW w \in Writers, Rollback(w) PROVE ShownInv'
<1>1. ViewTyped /\ LogFits /\ TxnFits /\ CallsFit /\ ViewFits /\ SnapshotFits /\ log \in Seq(Event)
  BY DEF ShownInv, ViewTyped
<1>2. /\ lock = w /\ txn[w].open /\ lock' = NoWriter /\ txn' = [txn EXCEPT ![w] = NoTxn]
      /\ loop' = (IF w = Loop THEN "idle" ELSE loop)
      /\ spent' = [spent EXCEPT !.rollbacks = @ + 1]
      /\ UNCHANGED <<log, rows, calls, snapshot, view, resultDue, overtaken>>
  BY DEF Rollback, TxnAfter
<1>3. txn' = [u \in Writers |-> NoTxn]
  BY <1>1, <1>2, EndsAlone
<1>4. TxnFits' /\ txn' \in [Writers -> Txn] /\ \A u \in Writers : Ids(txn'[u].events) = {}
  BY <1>1, <1>2, <1>3, NoneOpen
<1>5. loop' = loop \/ {loop, loop'} = {"idle", "waiting"}
  BY <1>1, <1>2 DEF TxnFits
<1>6. ViewFits' /\ SnapshotFits'
  BY <1>1, <1>2, <1>5, ScreenStays
<1>7. CallsFit'
  BY <1>1, <1>2, <1>4 DEF CallsFit, OnTheirWay
<1>8. ViewTyped' /\ LogFits'
  <2>1. spent' \in [snapshots : Nat, rollbacks : Nat, crashes : 0..MaxCrashes]
    BY <1>1, <1>2, RollbackCounted DEF ViewTyped
  <2> QED BY <1>1, <1>2, <1>4, <1>5, <2>1 DEF ViewTyped, LogFits
<1> QED BY <1>4, <1>6, <1>7, <1>8 DEF ShownInv

-----------------------------------------------------------------------------
(***************************************************************************)
(* Then those of the loop.                                                 *)
(***************************************************************************)
\* The first of a thread's events is shown, unless a snapshot had it, and is on its way no more.
LEMMA DeliverShown == ASSUME ShownInv, NEW w \in Threads, Deliver(w) PROVE ShownInv'
<1> DEFINE s == calls[w]
           e == Head(s)
<1>1. /\ ViewTyped /\ LogFits /\ TxnFits /\ CallsFit /\ ViewFits /\ SnapshotFits
      /\ log \in Seq(Event) /\ view \in View /\ view.seen \in SUBSET Event
      /\ calls \in [Threads -> Seq(Event)] /\ overtaken \in SUBSET Nodes
  BY DEF ShownInv, ViewTyped, View
<1>2. /\ loop = "idle" /\ s # << >> /\ view' = ApplyEvent(view, e)
      /\ calls' = [calls EXCEPT ![w] = Tail(s)]
      /\ UNCHANGED <<log, rows, lock, txn, loop, snapshot, resultDue, spent, overtaken>>
  BY DEF Deliver
<1>3. s \in Seq(Event) /\ InOrder(s) /\ Ids(s) \subseteq Ids(log)
  BY <1>1 DEF CallsFit
<1> HIDE DEF s
<1>4. /\ e = s[1] /\ 1 \in DOMAIN s /\ Tail(s) \in Seq(Event)
      /\ DOMAIN Tail(s) = 1..(Len(s) - 1) /\ DOMAIN s = 1..Len(s) /\ Len(s) \in Nat
      /\ \A i \in DOMAIN Tail(s) : i + 1 \in DOMAIN s /\ Tail(s)[i] = s[i + 1]
  BY <1>2, <1>3
<1>5. e \in Event /\ e \in Ids(s) /\ e \in Ids(log)
  BY <1>3, <1>4, Elements
<1>6. Ids(s) = {e} \cup Ids(Tail(s)) /\ InOrder(Tail(s))
  <2>1. ASSUME NEW i \in DOMAIN s PROVE s[i] \in {e} \cup Ids(Tail(s))
    <3>1. CASE i = 1
      BY <1>4, <3>1
    <3>2. CASE i # 1
      <4>1. i - 1 \in DOMAIN Tail(s) /\ i - 1 + 1 = i
        BY <1>4, <3>2
      <4> QED BY <1>4, <4>1 DEF Ids
    <3> QED BY <3>1, <3>2
  <2>2. ASSUME NEW i \in DOMAIN Tail(s) PROVE Tail(s)[i] \in Ids(s)
    BY <1>4 DEF Ids
  <2>3. Ids(s) = {e} \cup Ids(Tail(s))
    BY <1>5, <2>1, <2>2 DEF Ids
  <2>4. ASSUME NEW i \in DOMAIN Tail(s), NEW j \in DOMAIN Tail(s), i < j,
               Tail(s)[i].obj = Tail(s)[j].obj
        PROVE  Tail(s)[i].nth < Tail(s)[j].nth
    <3>1. /\ i + 1 \in DOMAIN s /\ j + 1 \in DOMAIN s /\ i + 1 < j + 1
          /\ Tail(s)[i] = s[i + 1] /\ Tail(s)[j] = s[j + 1]
      BY <1>4, <2>4
    <3> QED BY <1>3, <2>4, <3>1 DEF InOrder
  <2> QED BY <2>3, <2>4 DEF InOrder
<1>7. \A f \in Ids(Tail(s)) : f.obj = e.obj => e.nth < f.nth
  <2> SUFFICES ASSUME NEW i \in DOMAIN Tail(s), Tail(s)[i].obj = e.obj
               PROVE  e.nth < Tail(s)[i].nth
    BY DEF Ids
  <2>1. i + 1 \in DOMAIN s /\ 1 < i + 1 /\ Tail(s)[i] = s[i + 1]
    BY <1>4
  <2> QED BY <1>3, <1>4, <2>1 DEF InOrder
<1> HIDE DEF e
<1>8. /\ calls' \in [Threads -> Seq(Event)] /\ calls'[w] = Tail(s) /\ calls[w] = s
      /\ \A t \in Threads : t # w => calls'[t] = calls[t]
  BY <1>1, <1>2, <1>4 DEF s
<1>9. OnTheirWay \subseteq OnTheirWay' \cup {e} /\ OnTheirWay' \subseteq OnTheirWay
  <2>1. \A t \in Threads : /\ Ids(calls'[t]) \subseteq Ids(calls[t])
                           /\ Ids(calls[t]) \subseteq Ids(calls'[t]) \cup {e}
    BY <1>6, <1>8
  <2> QED BY <2>1 DEF OnTheirWay
<1>10. Shows(view, view.seen, overtaken) /\ Complete(log, view.seen, overtaken)
       /\ Ids(log) \subseteq view.seen \cup OnTheirWay
  BY <1>1, <1>2 DEF ViewFits
<1>11. Showing(view', view.seen \cup {e}, overtaken, view)
  <2>1. CASE e \in view.seen
    <3>1. view' = view /\ view.seen \cup {e} = view.seen
      BY <1>2, <2>1, EventKnown DEF e
    <3> QED BY <1>1, <1>10, <3>1 DEF Showing
  <2>2. CASE e \notin view.seen
    <3>1. ASSUME e.obj \notin overtaken, NEW f \in view.seen, f.obj = e.obj
          PROVE  f.nth < e.nth
      <4>1. f \in Ids(log) /\ f \in Event
        BY <1>1, <1>10 DEF Complete
      <4>2. ~(e.nth < f.nth)
        BY <1>5, <1>10, <2>2, <3>1 DEF Complete
      <4>3. e.nth # f.nth
        BY <1>1, <1>5, <2>2, <3>1, <4>1, NumberedApart DEF LogFits
      <4>4. e.nth \in Nat /\ f.nth \in Nat
        BY <1>5, <4>1, EventTyped
      <4> QED BY <4>2, <4>3, <4>4
    <3>2. Showing(view, view.seen, overtaken, view)
      BY <1>1, <1>10 DEF Showing
    <3>3. Showing(ApplyEvent(view, e), view.seen \cup {e}, overtaken, view)
      BY <1>1, <1>5, <3>1, <3>2, ShowsOneMore
    <3> QED BY <1>2, <3>3 DEF e
  <2> QED BY <2>1, <2>2
<1>12. view' \in View /\ view'.seen = view.seen \cup {e} /\ Shows(view', view'.seen, overtaken)
  BY <1>11 DEF Showing, Shows
<1>13. Complete(log, view'.seen, overtaken)
  <2>1. ASSUME e.obj \notin overtaken, NEW f \in Ids(log), f.obj = e.obj, f.nth < e.nth
        PROVE  f \in view.seen
    <3> SUFFICES ASSUME f \in OnTheirWay PROVE FALSE
      BY <1>10
    <3>1. PICK t \in Threads : f \in Ids(calls[t])
      BY DEF OnTheirWay
    <3>2. t = w
      BY <1>1, <1>5, <1>8, <2>1, <3>1 DEF CallsFit
    <3>3. f \in Ids(Tail(s))
      <4>1. f # e
        BY <1>5, <2>1, EventTyped
      <4> QED BY <1>6, <1>8, <3>1, <3>2, <4>1
    <3>4. e.nth < f.nth
      BY <1>7, <2>1, <3>3
    <3>5. f \in Event
      BY <1>1, Elements
    <3> QED BY <1>5, <2>1, <3>4, <3>5, EventTyped
  <2> QED BY <1>5, <1>10, <1>12, <2>1 DEF Complete
<1>14. ViewFits'
  <2>1. ASSUME NEW n \in Nodes, ~Mentions(log, n) PROVE rows[n] = Absent /\ view'.plan[n] = Absent
    <3>1. rows[n] = Absent /\ view.plan[n] = Absent
      BY <1>1, <2>1 DEF ViewFits
    <3>2. \A f \in view.seen \cup {e} : f.obj # n
      BY <1>5, <1>10, <2>1, MentionedBy DEF Complete
    <3> QED BY <1>11, <3>1, <3>2 DEF Showing
  <2>2. Ids(log) \subseteq view'.seen \cup OnTheirWay'
    BY <1>9, <1>10, <1>12
  <2> QED BY <1>1, <1>2, <1>12, <1>13, <2>1, <2>2 DEF ViewFits
<1>15. CallsFit'
  <2>1. \A t \in Threads : Ids(calls'[t]) \subseteq Ids(calls[t]) /\ InOrder(calls'[t])
    BY <1>1, <1>6, <1>8 DEF CallsFit
  <2> QED BY <1>1, <1>2, <1>9, <2>1 DEF CallsFit
<1>16. TxnFits'
  <2>1. \A t \in Threads : calls[t] = << >> => calls'[t] = << >>
    BY <1>2, <1>8
  <2> QED BY <1>1, <1>2, <2>1 DEF TxnFits
<1>17. ViewTyped' /\ LogFits' /\ SnapshotFits'
  BY <1>1, <1>2, <1>8, <1>12 DEF ViewTyped, LogFits, SnapshotFits
<1> QED BY <1>14, <1>15, <1>16, <1>17 DEF ShownInv

\* The answer that the result brings has been shown by its event.
LEMMA ShowResultShown == ASSUME ShownInv, ShowResult PROVE ShownInv'
<1>1. /\ ViewTyped /\ LogFits /\ TxnFits /\ CallsFit /\ ViewFits /\ SnapshotFits
  BY DEF ShownInv
<1>2. /\ loop = "idle" /\ resultDue /\ resultDue' = FALSE /\ view' = AddItem(view, FinalAnswer)
      /\ UNCHANGED <<log, rows, lock, txn, calls, loop, snapshot, spent, overtaken>>
  BY DEF ShowResult
<1>3. PICK e \in Ids(log) : e.obj = FinalAnswer
  BY <1>1, <1>2, MentionedBy DEF ViewFits
<1>4. e \notin OnTheirWay
  BY <1>1, <1>3 DEF CallsFit, OnTheirWay
<1>5. e \in view.seen
  BY <1>1, <1>2, <1>4 DEF ViewFits
<1>6. LineOf(e) \in Ids(view.items)
  BY <1>1, <1>5 DEF ViewFits, Shows
<1>7. view' = view
  BY <1>2, <1>3, <1>6 DEF AddItem, LineOf
<1>8. OnTheirWay' = OnTheirWay
  BY <1>2 DEF OnTheirWay
<1>9. ViewTyped' /\ LogFits' /\ TxnFits'
  BY <1>1, <1>2, <1>7 DEF ViewTyped, LogFits, TxnFits
<1>10. CallsFit' /\ ViewFits' /\ SnapshotFits'
  BY <1>1, <1>2, <1>7, <1>8 DEF CallsFit, ViewFits, SnapshotFits
<1> QED BY <1>9, <1>10 DEF ShownInv

LEMMA ReadTasksShown == ASSUME ShownInv, ReadTasks PROVE ShownInv'
<1>1. /\ ViewTyped /\ LogFits /\ TxnFits /\ CallsFit /\ ViewFits /\ SnapshotFits
      /\ rows \in [Tasks \cup Nodes -> Statuses]
      /\ spent \in [snapshots : Nat, rollbacks : Nat, crashes : 0..MaxCrashes]
  BY DEF ShownInv, ViewTyped
<1>2. /\ loop \in {"idle", "starting"} /\ loop' = "reading" /\ snapshot' = <<RowsOf(Tasks)>>
      /\ spent' = IF loop = "idle" THEN [spent EXCEPT !.snapshots = @ + 1] ELSE spent
      /\ UNCHANGED <<log, rows, lock, txn, calls, view, resultDue, overtaken>>
  BY DEF ReadTasks
<1>3. OnTheirWay' = OnTheirWay
  BY <1>2 DEF OnTheirWay
<1>4. spent' \in [snapshots : Nat, rollbacks : Nat, crashes : 0..MaxCrashes]
  <2>1. [spent EXCEPT !.snapshots = @ + 1]
          \in [snapshots : Nat, rollbacks : Nat, crashes : 0..MaxCrashes]
    BY <1>1
  <2> QED BY <1>1, <1>2, <2>1
<1>5. ViewTyped' /\ LogFits' /\ TxnFits'
  BY <1>1, <1>2, <1>4 DEF ViewTyped, LogFits, TxnFits
<1>6. CallsFit' /\ ViewFits'
  BY <1>1, <1>2, <1>3 DEF CallsFit, ViewFits
<1>7. SnapshotFits'
  <2>1. RowsOf(Tasks) \in [Tasks -> Statuses]
    BY <1>1 DEF RowsOf
  <2>2. snapshot'[1] = RowsOf(Tasks) /\ snapshot' = <<snapshot'[1]>>
    BY <1>2
  <2> QED BY <1>2, <2>1, <2>2 DEF SnapshotFits
<1> QED BY <1>5, <1>6, <1>7 DEF ShownInv

LEMMA ReadEventsShown == ASSUME ShownInv, ReadEvents PROVE ShownInv'
<1>1. /\ ViewTyped /\ LogFits /\ TxnFits /\ CallsFit /\ ViewFits /\ SnapshotFits
      /\ log \in Seq(Event)
  BY DEF ShownInv, ViewTyped
<1>2. /\ loop = "reading" /\ Len(snapshot) = 1 /\ snapshot' = Append(snapshot, log)
      /\ UNCHANGED <<log, rows, lock, txn, calls, loop, view, resultDue, spent, overtaken>>
  BY DEF ReadEvents
<1>3. OnTheirWay' = OnTheirWay
  BY <1>2 DEF OnTheirWay
<1>4. ViewTyped' /\ LogFits' /\ TxnFits'
  BY <1>1, <1>2 DEF ViewTyped, LogFits, TxnFits
<1>5. CallsFit' /\ ViewFits'
  BY <1>1, <1>2, <1>3 DEF CallsFit, ViewFits
<1>6. SnapshotFits'
  <2>1. snapshot = <<snapshot[1]>> /\ snapshot[1] \in [Tasks -> Statuses]
    BY <1>1, <1>2 DEF SnapshotFits
  <2>2. ASSUME NEW x, NEW y
        PROVE  LET both == Append(<<x>>, y) IN Len(both) = 2 /\ both[1] = x /\ both[2] = y
    <3>1. <<x>> \in Seq({x, y}) /\ Len(<<x>>) = 1
      OBVIOUS
    <3> QED BY <3>1
  <2>3. snapshot' = Append(<<snapshot[1]>>, log)
    BY <1>2, <2>1
  <2>4. Len(snapshot') = 2 /\ snapshot'[1] = snapshot[1] /\ snapshot'[2] = log
    BY <2>2, <2>3
  <2>5. InOrder(log) /\ Complete(log, Ids(log), {})
    BY <1>1 DEF LogFits, Numbered, Complete
  <2> QED BY <1>1, <1>2, <1>3, <2>1, <2>4, <2>5 DEF SnapshotFits
<1> QED BY <1>4, <1>5, <1>6 DEF ShownInv

\* A snapshot shows the events that were read, over the rows.
LEMMA ReadPlansShown == ASSUME ShownInv, ReadPlans PROVE ShownInv'
<1> DEFINE s == snapshot[2]
           base == [BlankView EXCEPT !.rail = snapshot[1], !.plan = RowsOf(Nodes)]
<1>1. /\ ViewTyped /\ LogFits /\ TxnFits /\ CallsFit /\ ViewFits /\ SnapshotFits
      /\ log \in Seq(Event) /\ rows \in [Tasks \cup Nodes -> Statuses]
  BY DEF ShownInv, ViewTyped
<1>2. /\ loop = "reading" /\ Len(snapshot) = 2 /\ view' = ApplyEvents(base, s)
      /\ snapshot' = << >> /\ loop' = "idle"
      /\ overtaken' = {n \in overtaken : \E t \in Threads : Mentions(calls[t], n)}
      /\ UNCHANGED <<log, rows, lock, txn, calls, resultDue, spent>>
  BY DEF ReadPlans, ApplySnapshot
<1>3. /\ snapshot[1] \in [Tasks -> Statuses] /\ s \in Seq(Event)
      /\ InOrder(s) /\ Complete(log, Ids(s), {})
      /\ Ids(log) \subseteq Ids(s) \cup OnTheirWay
  <2>1. snapshot # <<snapshot[1]>>
    BY <1>2
  <2> QED BY <1>1, <1>2, <2>1 DEF SnapshotFits
<1>4. RowsOf(Nodes) \in [Nodes -> Statuses] /\ \A n \in Nodes : RowsOf(Nodes)[n] = rows[n]
  BY <1>1 DEF RowsOf
<1>5. BlankView \in View /\ BlankView.seen = {} /\ BlankView.card = 0 /\ BlankView.items = << >>
  BY BlankShows DEF BlankView
<1>6. base \in View /\ Shows(base, {}, {}) /\ base.plan = RowsOf(Nodes)
  <2> HIDE DEF BlankView
  <2>1. base \in View
    BY <1>3, <1>4, <1>5 DEF View
  <2>2. base.seen = {} /\ base.card = 0 /\ base.items = << >> /\ base.plan = RowsOf(Nodes)
    BY <1>5 DEF View
  <2> HIDE DEF base
  <2>3. Shows(base, {}, {})
    BY <2>2, EmptyTells DEF Shows, Distinct
  <2> QED BY <2>1, <2>2, <2>3
<1> HIDE DEF base
<1> HIDE DEF s
<1>7. Showing(view', Ids(s), {}, base)
  BY <1>2, <1>3, <1>6, ShowsTheRest
<1>8. /\ view' \in View /\ view'.seen = Ids(s) /\ Shows(view', view'.seen, overtaken')
      /\ Complete(log, view'.seen, overtaken')
  <2>1. Shows(view', Ids(s), overtaken') /\ Complete(log, Ids(s), overtaken')
    BY <1>3, <1>7, ShowsLess, CompleteLess DEF Showing
  <2> QED BY <1>7, <2>1 DEF Showing, Shows
<1>9. OnTheirWay' = OnTheirWay
  BY <1>2 DEF OnTheirWay
<1>10. ViewFits'
  <2>1. ASSUME NEW n \in Nodes, ~Mentions(log, n) PROVE rows[n] = Absent /\ view'.plan[n] = Absent
    <3>1. rows[n] = Absent
      BY <1>1, <2>1 DEF ViewFits
    <3>2. \A f \in Ids(s) : f.obj # n
      BY <1>3, <2>1, MentionedBy DEF Complete
    <3> QED BY <1>4, <1>6, <1>7, <3>1, <3>2 DEF Showing
  <2> QED BY <1>1, <1>2, <1>3, <1>8, <1>9, <2>1 DEF ViewFits
<1>11. TxnFits'
  BY <1>1, <1>2 DEF TxnFits
<1>12. CallsFit' /\ SnapshotFits'
  <2>1. ASSUME NEW t \in Threads, NEW e \in Ids(calls[t]), e.obj \in overtaken
        PROVE  e.obj \in overtaken'
    BY <1>2, <2>1, MentionedBy
  <2> QED BY <1>1, <1>2, <1>9, <2>1 DEF CallsFit, SnapshotFits
<1>13. ViewTyped' /\ LogFits'
  BY <1>1, <1>2, <1>8 DEF ViewTyped, LogFits
<1> QED BY <1>10, <1>11, <1>12, <1>13 DEF ShownInv

\* A new process shows nothing until it has read a snapshot.
LEMMA CrashShown == ASSUME ShownInv, Crash PROVE ShownInv'
<1>1. /\ ViewTyped /\ LogFits /\ TxnFits /\ CallsFit /\ ViewFits /\ SnapshotFits
      /\ log \in Seq(Event)
      /\ spent \in [snapshots : Nat, rollbacks : Nat, crashes : 0..MaxCrashes]
  BY DEF ShownInv, ViewTyped
<1>2. /\ spent.crashes < MaxCrashes /\ spent' = [spent EXCEPT !.crashes = @ + 1]
      /\ lock' = NoWriter /\ txn' = [w \in Writers |-> NoTxn]
      /\ calls' = [w \in Threads |-> << >>] /\ loop' = "starting" /\ snapshot' = << >>
      /\ view' = BlankView /\ resultDue' = FALSE /\ overtaken' = {} /\ UNCHANGED <<log, rows>>
  BY DEF Crash
<1>3. TxnFits' /\ txn' \in [Writers -> Txn] /\ \A u \in Writers : Ids(txn'[u].events) = {}
  BY <1>1, <1>2, NoneOpen
<1>4. calls' \in [Threads -> Seq(Event)] /\ \A t \in Threads : calls'[t] = << >>
  BY <1>2, EmptyTells
<1>5. spent' \in [snapshots : Nat, rollbacks : Nat, crashes : 0..MaxCrashes]
  BY <1>1, <1>2, ProjectionAssumption
<1>6. CallsFit'
  BY <1>3, <1>4, EmptyTells DEF CallsFit, OnTheirWay
<1>7. ViewFits'
  BY <1>1, <1>2, BlankShows DEF ViewFits, Complete
<1>8. ViewTyped' /\ LogFits' /\ SnapshotFits'
  BY <1>1, <1>2, <1>3, <1>4, <1>5, BlankShows DEF ViewTyped, LogFits, SnapshotFits
<1> QED BY <1>3, <1>6, <1>7, <1>8 DEF ShownInv

LEMMA ShownKept == ShownInv /\ [ViewNext]_viewVars => ShownInv'
<1> SUFFICES ASSUME ShownInv, [ViewNext]_viewVars PROVE ShownInv'
  OBVIOUS
<1>1. CASE UNCHANGED viewVars
  <2>1. ViewTyped' /\ LogFits' /\ TxnFits'
    BY <1>1 DEF ShownInv, viewVars, ViewTyped, LogFits, TxnFits
  <2>2. CallsFit' /\ ViewFits' /\ SnapshotFits'
    BY <1>1 DEF ShownInv, viewVars, CallsFit, ViewFits, SnapshotFits, OnTheirWay
  <2> QED BY <2>1, <2>2 DEF ShownInv
<1>2. ASSUME NEW w \in Writers, \/ Begin(w) \/ Savepoint(w)
                                \/ RollbackToSavepoint(w) \/ Commit(w) \/ Rollback(w)
                                \/ \E o \in Objects : Write(w, o)
      PROVE  ShownInv'
  BY <1>2, BeginShown, SavepointShown, RollbackToSavepointShown, CommitShown, RollbackShown,
     WriteShown
<1>3. ASSUME NEW w \in Threads, Deliver(w) PROVE ShownInv'
  BY <1>3, DeliverShown
<1>4. CASE LoopWrites \/ ShowResult \/ ReadTasks \/ ReadEvents \/ ReadPlans \/ Crash
  BY <1>4, LoopWritesShown, ShowResultShown, ReadTasksShown, ReadEventsShown, ReadPlansShown,
     CrashShown
<1> QED BY <1>1, <1>2, <1>3, <1>4 DEF ViewNext

-----------------------------------------------------------------------------
(***************************************************************************)
(* What follows from it.                                                   *)
(***************************************************************************)
\* Of the events about an object one is the newest.
LEMMA NewestExists ==
  ASSUME NEW S \in SUBSET Event, NEW e \in S
  PROVE  \E f \in S : f.obj = e.obj /\ Newest(S, f)
<1> DEFINE N == {f.nth : f \in {g \in S : g.obj = e.obj}}
<1>1. N \subseteq 1..MaxEvents /\ N # {} /\ MaxEvents \in Nat
  BY EventTyped
<1>2. Max(N) \in N /\ \A n \in N : Max(N) >= n
  BY <1>1, LargestExists
<1>3. PICK f \in S : f.obj = e.obj /\ f.nth = Max(N)
  BY <1>2
<1>4. \A g \in S : g.obj = f.obj => g.nth <= f.nth
  BY <1>1, <1>2, <1>3
<1> QED BY <1>3, <1>4 DEF Newest

\* Two views that were shown the same events show the same of all that these speak of.
LEMMA ShowTheSame ==
  ASSUME NEW S \in SUBSET Event, NEW X, NEW u, Shows(u, S, X), NEW v, Shows(v, S, X)
  PROVE  /\ \A e \in S : /\ e.obj \in Tasks => u.rail[e.obj] = v.rail[e.obj]
                         /\ e.obj \in Nodes \ X => u.plan[e.obj] = v.plan[e.obj]
         /\ u.card = v.card /\ Ids(u.items) = Ids(v.items)
<1>1. ASSUME NEW e \in S
      PROVE  /\ e.obj \in Tasks => u.rail[e.obj] = v.rail[e.obj]
             /\ e.obj \in Nodes \ X => u.plan[e.obj] = v.plan[e.obj]
             /\ e.obj = Interrupt => u.card = v.card
  <2>1. PICK f \in S : f.obj = e.obj /\ Newest(S, f)
    BY NewestExists
  <2> QED BY <2>1 DEF Shows
<1>2. u.card = v.card
  <2>1. CASE \A e \in S : e.obj # Interrupt
    BY <2>1 DEF Shows
  <2>2. CASE \E e \in S : e.obj = Interrupt
    BY <1>1, <2>2
  <2> QED BY <2>1, <2>2
<1> QED BY <1>1, <1>2 DEF Shows

\* A sequence without repetitions is as long as there are things in it.
LEMMA DistinctLength ==
  ASSUME NEW s \in Seq(Line), Distinct(s)
  PROVE  Len(s) = Cardinality(Ids(s))
<1>1. DOMAIN s = 1..Len(s) /\ Len(s) \in Nat /\ s \in [1..Len(s) -> Ids(s)]
  BY DEF Ids
<1>2. s \in Bijection(1..Len(s), Ids(s))
  BY <1>1 DEF Bijection, Injection, Surjection, IsInjective, Distinct, Ids
<1>3. ASSUME NEW n \in Nat PROVE IsFiniteSet(1..n) /\ Cardinality(1..n) = n
  BY FS_Interval
<1> QED BY <1>1, <1>2, <1>3, FS_Bijection DEF ExistsBijection

LEMMA ShownIsTyped == ShownInv => ViewTypeOK
<1> SUFFICES ASSUME ShownInv PROVE ViewTypeOK
  OBVIOUS
<1>1. ViewTyped /\ TxnFits
  BY DEF ShownInv
<1>2. ASSUME NEW w \in Writers
      PROVE  /\ txn[w].open => lock = w
             /\ {txn[w].writes, txn[w].events, txn[w].calls} \subseteq Seq(Event)
             /\ txn[w].marks \in Seq(Nat)
  <2>1. txn[w] \in Txn /\ (txn[w].open => lock = w)
    BY <1>1 DEF ViewTyped, TxnFits
  <2>2. txn[w].marks \in Marks
    BY <2>1, TxnParts
  <2>3. txn[w].marks \in Seq(Nat)
    <3>1. CASE txn[w].marks = << >>
      BY <3>1, EmptyTells
    <3>2. ASSUME NEW a \in Nat, NEW b \in Nat, NEW c \in Nat PROVE <<a, b, c>> \in Seq(Nat)
      OBVIOUS
    <3>3. CASE txn[w].marks # << >>
      <4>1. \E a \in Nat, b \in Nat, c \in Nat : txn[w].marks = <<a, b, c>>
        BY <2>2, <3>3 DEF Marks
      <4> QED BY <3>2, <4>1
    <3> QED BY <3>1, <3>3
  <2> QED BY <2>1, <2>3, TxnParts
<1>3. /\ view.rail \in [Tasks -> Statuses] /\ view.plan \in [Nodes -> Statuses]
      /\ view.card \in 0..MaxEvents /\ view.seen \subseteq Event
  BY <1>1 DEF ViewTyped, View
<1>4. spent.crashes <= MaxCrashes
  <2>1. spent.crashes \in 0..MaxCrashes /\ MaxCrashes \in Nat
    BY <1>1, ProjectionAssumption DEF ViewTyped
  <2> QED BY <2>1
<1> QED BY <1>1, <1>2, <1>3, <1>4 DEF ViewTypeOK, ViewTyped

LEMMA ShownIsInJournal == ShownInv => ShownIsCommitted
BY DEF ShownInv, ViewFits, Complete, ShownIsCommitted

LEMMA ShownFollows == ShownInv => ViewFollowsJournal
<1> SUFFICES ASSUME ShownInv, Settled PROVE ViewFollowsJournal
  BY DEF ViewFollowsJournal
<1> DEFINE known == ApplyEvents(BlankView, log)
<1>1. /\ ViewTyped /\ LogFits /\ ViewFits /\ SnapshotFits
      /\ log \in Seq(Event) /\ view \in View /\ view.items \in Seq(Line)
  BY DEF ShownInv, ViewTyped, View
<1>2. Ids(log) \in SUBSET Event
  BY <1>1, Elements
<1>3. view.seen = Ids(log)
  <2>1. loop \in {"idle", "waiting"}
    <3>1. loop # "reading"
      <4>1. snapshot # <<snapshot[1]>> /\ Len(snapshot) # 2
        BY DEF Settled
      <4> QED BY <1>1, <4>1 DEF SnapshotFits
    <3> QED BY <1>1, <3>1 DEF ViewTyped, Settled, Attached
  <2>2. OnTheirWay = {}
    BY EmptyTells DEF Settled, OnTheirWay
  <2> QED BY <1>1, <2>1, <2>2 DEF ViewFits, Complete
<1>4. Showing(known, Ids(log), {}, BlankView)
  <2>1. InOrder(log) /\ {} \cup Ids(log) = Ids(log) /\ {} \in SUBSET Event
    BY <1>1 DEF LogFits, Numbered
  <2>2. Showing(ApplyEvents(BlankView, log), {} \cup Ids(log), {}, BlankView)
    BY <1>1, <2>1, BlankShows, ShowsTheRest
  <2> QED BY <2>1, <2>2
<1> HIDE DEF known
<1>5. Shows(view, Ids(log), overtaken) /\ Shows(known, Ids(log), overtaken)
  BY <1>1, <1>3, <1>4, ShowsLess DEF ViewFits, Showing
<1>6. /\ \A e \in Ids(log) : /\ e.obj \in Tasks => view.rail[e.obj] = known.rail[e.obj]
                             /\ e.obj \in Nodes \ overtaken => view.plan[e.obj] = known.plan[e.obj]
      /\ view.card = known.card /\ Ids(view.items) = Ids(known.items)
  BY <1>2, <1>5, ShowTheSame
<1>7. ASSUME NEW t \in Tasks, Mentions(log, t) PROVE view.rail[t] = known.rail[t]
  BY <1>6, <1>7, MentionedBy
<1>8. ASSUME NEW n \in Nodes \ overtaken PROVE view.plan[n] = known.plan[n]
  <2>1. CASE Mentions(log, n)
    BY <1>6, <2>1, MentionedBy
  <2>2. CASE ~Mentions(log, n)
    <3>1. view.plan[n] = Absent
      BY <1>1, <2>2 DEF ViewFits
    <3>2. known.plan[n] = BlankView.plan[n]
      BY <1>4, <2>2, MentionedBy DEF Showing
    <3> QED BY <3>1, <3>2, BlankShows
  <2> QED BY <2>1, <2>2
<1>9. Len(view.items) = Cardinality(Ids(view.items))
  BY <1>1, <1>5, DistinctLength DEF Shows
<1> QED BY <1>6, <1>7, <1>8, <1>9 DEF ViewFollowsJournal, known

\* The inductive invariant of the journal's events and of what is shown of them, for any
\* writers, objects, transactions, snapshots, rollbacks and restarts.  The loop may write a
\* plan node of which a thread has yet to hand events over; the order in which the events of
\* such a node are shown is all that it leaves open.
THEOREM ShownInvariance == ViewSpec => []ShownInv
<1>1. ViewInit => ShownInv
  BY InitShown
<1>2. ShownInv /\ [ViewNext]_viewVars => ShownInv'
  BY ShownKept
<1> QED BY <1>1, <1>2, PTL DEF ViewSpec

\* Journal, transactions, snapshot and view are of their types.
THEOREM ViewIsTyped == ViewSpec => []ViewTypeOK
BY ShownInvariance, ShownIsTyped, PTL

\* No event of a transaction or a savepoint that was rolled back is ever shown: what the
\* callbacks of a commit hand over is what the commit wrote (after_commit).
THEOREM CommittedIsShown == ViewSpec => []ShownIsCommitted
BY ShownInvariance, ShownIsInJournal, PTL

\* With no event on its way the view is what the journal describes: a snapshot that is read
\* in three reads while threads commit, and callbacks that come after it, leave no agent
\* with an older status, no question open that is answered and no line twice; nor a plan
\* node with an older status, unless a newer one was committed before a thread had handed
\* the older one over.
THEOREM ViewIsTheJournals == ViewSpec => []ViewFollowsJournal
BY ShownInvariance, ShownFollows, PTL
================================================================================
