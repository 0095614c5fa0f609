------------------------ MODULE ChildSchedulingProofs ------------------------
(***************************************************************************)
(* The workspace lease of ChildScheduling, for any set of children, any    *)
(* workload and any number of slots: how often the lease is taken is what  *)
(* the phase and the threads of its holder account for, and who has no     *)
(* account does not hold it.  A command that outlives the cancellation of  *)
(* its run works without the lease; then nobody else takes it any more.    *)
(***************************************************************************)
EXTENDS ChildScheduling, FiniteSetTheorems, TLAPS

\* A child that holds the lease for an integration or a command.
Brief(c) == phase[c] = "integrating" \/ (phase[c] = "command" /\ Work(c).kind = "writeTool")

\* How often a child has taken the lease without having given it back.
Due(c) ==
  IF Shielded(c) THEN IF c \in writing THEN 2 ELSE 1
  ELSE IF c \in writing \/ Brief(c) THEN 1 ELSE 0

LeaseTyped ==
  /\ setup \in Setups
  /\ phase \in [Child -> Phases]
  /\ holder \in Child \cup {Nobody} /\ depth \in Nat
  /\ writing \subseteq Child /\ commands \subseteq Child
  /\ cancelled \in BOOLEAN

\* The holder is who has an account of the lease, and the depth is that account.
LeaseFits ==
  /\ holder = Nobody => depth = 0
  /\ \A c \in Child : holder = c => depth = Due(c)
  /\ \A c \in Child : Due(c) > 0 <=> holder = c

\* Threads belong to a coroutine that waits for them, or was cancelled.
ThreadFits(c) ==
  /\ c \in writing =>
       /\ Work(c).kind = "writer"
       /\ phase[c] = "writing" \/ (phase[c] = "ended" /\ cancelled /\ ~Serialized(c))
  /\ c \in commands => IsTool(c) /\ (phase[c] = "command" \/ (phase[c] = "ended" /\ cancelled))

\* Which phases a child of a kind goes through.
PhaseFits(c) ==
  /\ phase[c] = "writing" => Work(c).kind = "writer" /\ c \in writing
  /\ phase[c] \in {"wantIntegrate", "integrating"} => Isolated(c)
  /\ phase[c] \in {"wantLease", "releasing"} => Serialized(c)
  /\ phase[c] = "wantCommand" => Work(c).kind = "writeTool"
  /\ phase[c] = "command" => IsTool(c)
  /\ phase[c] \in {"working", "wrote"} => ~IsTool(c)

\* What a cancellation leaves at work are the attempts it does not reach.
GoesOn(c) == cancelled => phase[c] \in {"idle", "ended"} \/ Shielded(c)

\* A command that outlived its coroutine and may write.
Stray(c) == c \in commands /\ phase[c] = "ended" /\ Work(c).kind = "writeTool"

StraysAreAlone ==
  \A c \in Child : Stray(c) =>
    cancelled /\ holder = Nobody /\ \A d \in Child : Stray(d) => d = c

IInv ==
  /\ LeaseTyped /\ LeaseFits /\ StraysAreAlone
  /\ \A c \in Child : ThreadFits(c) /\ PhaseFits(c) /\ GoesOn(c)

-----------------------------------------------------------------------------
\* One child changes, and its account of the lease with it: by nothing, by taking
\* the lease once, or by giving it back once.
LEMMA AccountKept ==
  ASSUME LeaseTyped, LeaseFits, NEW c \in Child,
         \A d \in Child : d # c => Due(d)' = Due(d),
         \/ UNCHANGED lease /\ Due(c)' = Due(c)
         \/ Takes(c) /\ Due(c)' = Due(c) + 1
         \/ Releases(c) /\ Due(c)' = Due(c) - 1 /\ Due(c) > 0
  PROVE  LeaseFits' /\ holder' \in Child \cup {Nobody} /\ depth' \in Nat
<1>1. \A d \in Child : Due(d) \in {0, 1, 2}
  BY DEF Due
<1>2. c # Nobody
  BY SetupsAssumption
<1>3. CASE UNCHANGED lease /\ Due(c)' = Due(c)
  <2>1. holder' = holder /\ depth' = depth /\ \A d \in Child : Due(d)' = Due(d)
    BY <1>3 DEF lease
  <2>2. QED
    BY <2>1 DEF LeaseFits, LeaseTyped
<1>4. CASE Takes(c) /\ Due(c)' = Due(c) + 1
  <2>1. depth = Due(c)
    BY <1>1, <1>2, <1>4 DEF Takes, LeaseFits
  <2>2. \A d \in Child : d # c => Due(d) = 0
    BY <1>1, <1>2, <1>4 DEF Takes, LeaseFits
  <2>3. holder' = c /\ depth' = Due(c) + 1
    BY <1>4, <2>1 DEF Takes
  <2>4. QED
    BY <1>1, <1>2, <1>4, <2>2, <2>3 DEF LeaseFits, LeaseTyped
<1>5. CASE Releases(c) /\ Due(c)' = Due(c) - 1 /\ Due(c) > 0
  <2>1. holder = c /\ depth = Due(c) /\ \A d \in Child : d # c => Due(d) = 0
    BY <1>1, <1>5 DEF LeaseFits
  <2>2. depth' = Due(c) - 1 /\ holder' = IF Due(c) = 1 THEN Nobody ELSE c
    BY <1>5, <2>1 DEF Releases
  <2>3. Due(c) \in {1, 2}
    BY <1>1, <1>5
  <2>4. \A d \in Child : d # c => Due(d)' = 0
    BY <2>1
  <2>5. CASE Due(c) = 1
    <3>1. holder' = Nobody /\ depth' = 0 /\ Due(c)' = 0
      BY <1>5, <2>2, <2>5
    <3>2. \A d \in Child : Due(d)' = 0 /\ d # Nobody
      BY <2>4, <3>1, SetupsAssumption
    <3>3. QED
      BY <3>1, <3>2 DEF LeaseFits
  <2>6. CASE Due(c) = 2
    BY <1>2, <1>5, <2>2, <2>4, <2>6 DEF LeaseFits
  <2>7. QED
    BY <2>3, <2>5, <2>6
<1>6. QED
  BY <1>3, <1>4, <1>5

\* One child changes its phase or its threads, and what it leaves fits.
LEMMA OneChildIInv ==
  ASSUME IInv, NEW c \in Child, setup' = setup, cancelled' = cancelled,
         phase' \in [Child -> Phases], writing' \subseteq Child, commands' \subseteq Child,
         \A d \in Child : d # c =>
           /\ phase'[d] = phase[d]
           /\ d \in writing' <=> d \in writing
           /\ d \in commands' <=> d \in commands,
         \/ UNCHANGED lease /\ Due(c)' = Due(c)
         \/ Takes(c) /\ Due(c)' = Due(c) + 1
         \/ Releases(c) /\ Due(c)' = Due(c) - 1 /\ Due(c) > 0,
         ThreadFits(c)', PhaseFits(c)', GoesOn(c)',
         Stray(c)' => Stray(c),
         cancelled /\ holder = Nobody => holder' = Nobody
  PROVE  IInv'
<1>1. \A d \in Child : d # c => Due(d)' = Due(d)
  BY DEF Due, Shielded, Brief, Serialized, Work
<1>2. LeaseFits' /\ holder' \in Child \cup {Nobody} /\ depth' \in Nat
  BY <1>1, AccountKept DEF IInv
<1>3. LeaseTyped'
  BY <1>2 DEF IInv, LeaseTyped
<1>4. \A d \in Child : d # c => ThreadFits(d)' /\ PhaseFits(d)' /\ GoesOn(d)'
  BY DEF IInv, ThreadFits, PhaseFits, GoesOn, Shielded, Serialized, Isolated, IsTool, Work
<1>5. \A d \in Child : Stray(d)' => Stray(d)
  BY DEF Stray, Work
<1>6. StraysAreAlone'
  BY <1>5 DEF IInv, StraysAreAlone
<1>7. QED
  BY <1>2, <1>3, <1>4, <1>6 DEF IInv

\* A move that neither takes nor gives back the lease: no phase of a thread begins or
\* ends, and a serialized writer stays where it holds the lease, or where it does not.
Movable(c, from, to) ==
  /\ to \in Phases \ {"writing", "integrating", "command"}
  /\ from \notin {"writing", "integrating", "command", "ended"}
  /\ from = "idle" => ~cancelled
  /\ Serialized(c) =>
       (from \in InSlot \cup {"queued", "releasing"} <=> to \in InSlot \cup {"queued", "releasing"})

\* A child goes from one phase to another and leaves lease and threads alone.
LEMMA MoveIInv ==
  ASSUME IInv, NEW c \in Child, NEW from, NEW to, Goes(c, from, to),
         UNCHANGED <<setup, lease, threads, cancelled>>,
         Movable(c, from, to), PhaseFits(c)'
  PROVE  IInv'
<1> USE DEF Movable
<1>1. phase' \in [Child -> Phases] /\ phase'[c] = to /\ phase[c] = from
  BY DEF Goes, IInv, LeaseTyped
<1>2. \A d \in Child : d # c => phase'[d] = phase[d]
  BY DEF Goes, IInv, LeaseTyped
<1>3. setup' = setup /\ cancelled' = cancelled /\ writing' = writing /\ commands' = commands
  BY DEF threads
<1>4. c \notin writing /\ c \notin commands
  BY <1>1 DEF IInv, ThreadFits
<1>5. UNCHANGED lease /\ Due(c)' = Due(c)
  BY <1>1, <1>3, <1>4 DEF Due, Shielded, Brief, Serialized, Work
<1>6. ThreadFits(c)' /\ ~Stray(c)'
  BY <1>3, <1>4 DEF ThreadFits, Stray
<1>7. GoesOn(c)'
  BY <1>1, <1>3 DEF IInv, GoesOn, Shielded, Serialized, Work
<1>8. holder' = holder
  BY DEF lease
<1>9. writing' \subseteq Child /\ commands' \subseteq Child
  BY <1>3 DEF IInv, LeaseTyped
<1>10. QED
  BY <1>1, <1>2, <1>3, <1>5, <1>6, <1>7, <1>8, <1>9, OneChildIInv

-----------------------------------------------------------------------------
\* The steps of a child that touch neither the lease nor a thread.
LEMMA MovesIInv ==
  ASSUME IInv, NEW c \in Child,
         \/ Spawn(c) \/ ToolSpawns(c) \/ RouteFails(c) \/ AttemptStarts(c) \/ Denied(c)
         \/ Granted(c) \/ Leaves(c) \/ Decides(c)
  PROVE  IInv'
<1>1. PhaseFits(c) /\ phase \in [Child -> Phases]
  BY DEF IInv, LeaseTyped
<1>2. IsTool(c) => ~Serialized(c)
  BY DEF IsTool, Serialized
<1>3. CASE Spawn(c)
  <2>1. Goes(c, "idle", "assigning") /\ UNCHANGED <<setup, lease, threads, cancelled>>
    BY <1>3 DEF Spawn, lease, threads
  <2>2. PhaseFits(c)'
    BY <1>1, <1>2, <2>1 DEF PhaseFits, Goes, threads, AfterSlot, IsTool, Isolated, Serialized, Work
  <2>3. Movable(c, "idle", "assigning")
    BY <1>1, <1>2, <1>3, <2>1
       DEF Movable, Spawn, PhaseFits, Goes, AfterSlot, Phases, InSlot, IsTool
  <2>4. QED
    BY <2>1, <2>2, <2>3, MoveIInv
<1>4. CASE ToolSpawns(c)
  <2>1. Goes(c, "idle", "queued") /\ UNCHANGED <<setup, lease, threads, cancelled>>
    BY <1>4 DEF ToolSpawns, lease, threads
  <2>2. PhaseFits(c)'
    BY <1>1, <1>2, <2>1 DEF PhaseFits, Goes, threads, AfterSlot, IsTool, Isolated, Serialized, Work
  <2>3. Movable(c, "idle", "queued")
    BY <1>1, <1>2, <1>4, <2>1
       DEF Movable, ToolSpawns, PhaseFits, Goes, AfterSlot, Phases, InSlot, IsTool
  <2>4. QED
    BY <2>1, <2>2, <2>3, MoveIInv
<1>5. CASE RouteFails(c)
  <2>1. Goes(c, "assigning", "ended") /\ UNCHANGED <<setup, lease, threads, cancelled>>
    BY <1>5 DEF RouteFails, lease, threads
  <2>2. PhaseFits(c)'
    BY <1>1, <1>2, <2>1 DEF PhaseFits, Goes, threads, AfterSlot, IsTool, Isolated, Serialized, Work
  <2>3. Movable(c, "assigning", "ended")
    BY <1>1, <1>2, <1>5, <2>1
       DEF Movable, RouteFails, PhaseFits, Goes, AfterSlot, Phases, InSlot, IsTool
  <2>4. QED
    BY <2>1, <2>2, <2>3, MoveIInv
<1>6. CASE AttemptStarts(c)
  <2>1. Goes(c, "assigning", IF Serialized(c) THEN "wantLease" ELSE "queued") /\ UNCHANGED <<setup, lease, threads, cancelled>>
    BY <1>6 DEF AttemptStarts, lease, threads
  <2>2. PhaseFits(c)'
    BY <1>1, <1>2, <2>1 DEF PhaseFits, Goes, threads, AfterSlot, IsTool, Isolated, Serialized, Work
  <2>3. Movable(c, "assigning", IF Serialized(c) THEN "wantLease" ELSE "queued")
    BY <1>1, <1>2, <1>6, <2>1
       DEF Movable, AttemptStarts, PhaseFits, Goes, AfterSlot, Phases, InSlot, IsTool
  <2>4. QED
    BY <2>1, <2>2, <2>3, MoveIInv
<1>7. CASE Denied(c)
  <2>1. Goes(c, "queued", AfterSlot(c)) /\ UNCHANGED <<setup, lease, threads, cancelled>>
    BY <1>7 DEF Denied, lease, threads
  <2>2. PhaseFits(c)'
    BY <1>1, <1>2, <2>1 DEF PhaseFits, Goes, threads, AfterSlot, IsTool, Isolated, Serialized, Work
  <2>3. Movable(c, "queued", AfterSlot(c))
    BY <1>1, <1>2, <1>7, <2>1
       DEF Movable, Denied, PhaseFits, Goes, AfterSlot, Phases, InSlot, IsTool
  <2>4. QED
    BY <2>1, <2>2, <2>3, MoveIInv
<1>8. CASE Granted(c)
  <2>1. Goes(c, "queued", "granted") /\ UNCHANGED <<setup, lease, threads, cancelled>>
    BY <1>8 DEF Granted, lease, threads
  <2>2. PhaseFits(c)'
    BY <1>1, <1>2, <2>1 DEF PhaseFits, Goes, threads, AfterSlot, IsTool, Isolated, Serialized, Work
  <2>3. Movable(c, "queued", "granted")
    BY <1>1, <1>2, <1>8, <2>1
       DEF Movable, Granted, PhaseFits, Goes, AfterSlot, Phases, InSlot, IsTool
  <2>4. QED
    BY <2>1, <2>2, <2>3, MoveIInv
<1>9. CASE Leaves(c)
  <2>1. Goes(c, "leaving", AfterSlot(c)) /\ UNCHANGED <<setup, lease, threads, cancelled>>
    BY <1>9 DEF Leaves, lease, threads
  <2>2. PhaseFits(c)'
    BY <1>1, <1>2, <2>1 DEF PhaseFits, Goes, threads, AfterSlot, IsTool, Isolated, Serialized, Work
  <2>3. Movable(c, "leaving", AfterSlot(c))
    BY <1>1, <1>2, <1>9, <2>1
       DEF Movable, Leaves, PhaseFits, Goes, AfterSlot, Phases, InSlot, IsTool
  <2>4. QED
    BY <2>1, <2>2, <2>3, MoveIInv
<1>10. CASE Decides(c)
  <2>1. PICK to \in {"assigning", "ended"} : Goes(c, "deciding", to)
    BY <1>10 DEF Decides
  <2>2. UNCHANGED <<setup, lease, threads, cancelled>>
    BY <1>10 DEF Decides, lease, threads
  <2>3. PhaseFits(c)'
    BY <1>1, <2>1, <2>2 DEF PhaseFits, Goes
  <2>4. QED
    BY <2>1, <2>2, <2>3, MoveIInv DEF Movable, Phases, InSlot
<1>11. QED
  BY <1>3, <1>4, <1>5, <1>6, <1>7, <1>8, <1>9, <1>10

\* An attempt returns, into its integration or out of its slot.
LEMMA AgentReturnsIInv ==
  ASSUME IInv, NEW c \in Child, NEW r \in Results, AgentReturns(c, r)
  PROVE  IInv'
<1>1. PICK from \in {"working", "wrote"}, to \in {"wantIntegrate", "leaving"} :
        Goes(c, from, to) /\ (to = "wantIntegrate" => Isolated(c))
  BY DEF AgentReturns
<1>2. UNCHANGED <<setup, lease, threads, cancelled>>
  BY DEF AgentReturns, lease, threads
<1>3. phase \in [Child -> Phases]
  BY DEF IInv, LeaseTyped
<1>4. PhaseFits(c)'
  BY <1>1, <1>2, <1>3 DEF PhaseFits, Goes, Isolated, Work
<1>5. QED
  BY <1>1, <1>2, <1>4, MoveIInv DEF Movable, Phases, InSlot

\* A child enters its slot; a reading command starts.
LEMMA EntersGateIInv ==
  ASSUME IInv, NEW c \in Child, EntersGate(c)
  PROVE  IInv'
<1>1. phase \in [Child -> Phases] /\ phase[c] = "granted" /\ c \notin writing /\ c \notin commands
  BY DEF EntersGate, Goes, IInv, LeaseTyped, ThreadFits
<1>2. setup' = setup /\ cancelled' = cancelled /\ UNCHANGED lease /\ writing' = writing
  BY DEF EntersGate, lease
<1>3. CASE Work(c).kind # "readTool"
  <2>1. PICK to \in {"wantCommand", "working"} :
          Goes(c, "granted", to) /\ (to = "wantCommand" <=> Work(c).kind = "writeTool")
    BY <1>3 DEF EntersGate
  <2>2. UNCHANGED threads
    BY <1>2, <1>3 DEF EntersGate, threads
  <2>3. PhaseFits(c)'
    BY <1>1, <1>2, <1>3, <2>1 DEF PhaseFits, Goes, IsTool, Work
  <2>4. QED
    BY <1>2, <2>1, <2>2, <2>3, MoveIInv DEF Movable, Phases, InSlot
<1>4. CASE Work(c).kind = "readTool"
  <2>1. Goes(c, "granted", "command") /\ commands' = commands \cup {c}
    BY <1>4 DEF EntersGate
  <2>2. phase' \in [Child -> Phases] /\ phase'[c] = "command"
        /\ \A d \in Child : d # c => phase'[d] = phase[d]
    BY <1>1, <2>1 DEF Goes, Phases, InSlot
  <2>3. ~Serialized(c) /\ IsTool(c) /\ Work(c)' = Work(c)
    BY <1>2, <1>4 DEF Serialized, IsTool, Work
  <2>4. Due(c)' = Due(c)
    BY <1>1, <1>2, <1>4, <2>2, <2>3 DEF Due, Shielded, Brief, Serialized, Work
  <2>5. ThreadFits(c)' /\ PhaseFits(c)' /\ ~Stray(c)'
    BY <1>1, <1>2, <2>1, <2>2, <2>3 DEF ThreadFits, PhaseFits, Stray, IsTool, Work
  <2>6. ~cancelled /\ GoesOn(c)'
    BY <1>1, <1>2, <2>3 DEF IInv, GoesOn, Shielded
  <2>7. writing' \subseteq Child /\ commands' \subseteq Child
    BY <1>2, <2>1 DEF IInv, LeaseTyped
  <2>8. QED
    BY <1>2, <2>1, <2>2, <2>4, <2>5, <2>6, <2>7, OneChildIInv
<1>5. QED
  BY <1>3, <1>4

\* The lease is taken: for an attempt, a file, an integration or a command.
LEMMA TakesIInv ==
  ASSUME IInv, NEW c \in Child,
         GetsLease(c) \/ WriteBegins(c) \/ IntegrationBegins(c) \/ CommandBegins(c)
  PROVE  IInv'
<1>1. /\ phase \in [Child -> Phases] /\ writing \subseteq Child /\ commands \subseteq Child
      /\ PhaseFits(c) /\ ThreadFits(c) /\ GoesOn(c)
  BY DEF IInv, LeaseTyped
<1>2. setup' = setup /\ cancelled' = cancelled /\ Takes(c)
  BY DEF GetsLease, WriteBegins, IntegrationBegins, CommandBegins
<1>3. Work(c)' = Work(c) /\ Serialized(c)' = Serialized(c) /\ Isolated(c)' = Isolated(c)
      /\ IsTool(c)' = IsTool(c)
  BY <1>2 DEF Serialized, Isolated, IsTool, Work
<1>4. PICK to \in {"queued", "writing", "integrating", "command"} : phase' = [phase EXCEPT ![c] = to]
  BY DEF GetsLease, WriteBegins, IntegrationBegins, CommandBegins, Goes
<1>5. /\ phase' \in [Child -> Phases] /\ phase'[c] = to
      /\ \A d \in Child : d # c => phase'[d] = phase[d]
  BY <1>1, <1>4 DEF Phases, InSlot
<1>6. /\ writing' = (IF to = "writing" THEN writing \cup {c} ELSE writing)
      /\ commands' = (IF to = "command" THEN commands \cup {c} ELSE commands)
      /\ phase[c] = (CASE to = "queued" -> "wantLease" [] to = "writing" -> "working"
                       [] to = "integrating" -> "wantIntegrate" [] to = "command" -> "wantCommand")
      /\ to = "writing" => Work(c).kind = "writer"
  BY <1>1, <1>5 DEF GetsLease, WriteBegins, IntegrationBegins, CommandBegins, Goes, threads
<1>7. c \notin writing /\ c \notin commands
  BY <1>1, <1>6 DEF ThreadFits
<1>8. Due(c)' = Due(c) + 1
  <2>1. CASE to = "queued"
    BY <1>1, <1>3, <1>5, <1>6, <1>7, <2>1 DEF Due, Shielded, Brief, PhaseFits, InSlot
  <2>2. CASE to = "writing"
    BY <1>1, <1>3, <1>5, <1>6, <1>7, <2>2 DEF Due, Shielded, Brief, InSlot
  <2>3. CASE to = "integrating"
    BY <1>1, <1>3, <1>5, <1>6, <1>7, <2>3
       DEF Due, Shielded, Brief, PhaseFits, InSlot, Serialized, Isolated
  <2>4. CASE to = "command"
    BY <1>1, <1>3, <1>5, <1>6, <1>7, <2>4
       DEF Due, Shielded, Brief, PhaseFits, InSlot, Serialized
  <2>5. QED
    BY <2>1, <2>2, <2>3, <2>4
<1>9. ThreadFits(c)' /\ PhaseFits(c)' /\ ~Stray(c)'
  BY <1>1, <1>3, <1>5, <1>6, <1>7
     DEF ThreadFits, PhaseFits, Stray, Serialized, Isolated, IsTool
<1>10. cancelled => Shielded(c) /\ holder = c
  <2>1. cancelled => Shielded(c)
    BY <1>1, <1>6 DEF GoesOn
  <2>2. Shielded(c) => Due(c) > 0
    BY DEF Due
  <2>3. QED
    BY <2>1, <2>2 DEF IInv, LeaseFits
<1>11. GoesOn(c)'
  <2>1. cancelled => to = "writing" /\ Serialized(c)
    BY <1>1, <1>6, <1>10 DEF Shielded, PhaseFits, InSlot, Serialized, Isolated
  <2>2. QED
    BY <1>2, <1>3, <1>5, <2>1 DEF GoesOn, Shielded, InSlot
<1>12. cancelled /\ holder = Nobody => holder' = Nobody
  BY <1>10, SetupsAssumption
<1>13. \A d \in Child : d # c => /\ d \in writing' <=> d \in writing
                                 /\ d \in commands' <=> d \in commands
  BY <1>6
<1>14. writing' \subseteq Child /\ commands' \subseteq Child
  BY <1>1, <1>6
<1>15. QED
  BY <1>2, <1>5, <1>8, <1>9, <1>11, <1>12, <1>13, <1>14, OneChildIInv

\* The lease is given back: by a file write, an integration, a command, an attempt.
LEMMA ReleasesIInv ==
  ASSUME IInv, NEW c \in Child, NEW r \in Results,
         WriteEnds(c) \/ IntegrationEnds(c, r) \/ CommandReturns(c, r) \/ LeaseReturned(c)
  PROVE  IInv'
<1>1. /\ phase \in [Child -> Phases] /\ writing \subseteq Child /\ commands \subseteq Child
      /\ PhaseFits(c) /\ ThreadFits(c) /\ GoesOn(c) /\ cancelled \in BOOLEAN
  BY DEF IInv, LeaseTyped
<1>2. setup' = setup /\ cancelled' = cancelled /\ Releases(c)
  BY DEF WriteEnds, IntegrationEnds, CommandReturns, LeaseReturned
<1>3. Work(c)' = Work(c) /\ Serialized(c)' = Serialized(c) /\ Isolated(c)' = Isolated(c)
      /\ IsTool(c)' = IsTool(c)
  BY <1>2 DEF Serialized, Isolated, IsTool, Work
<1>4. Due(c) = 0 => UNCHANGED lease
  BY <1>2 DEF IInv, LeaseFits, Releases
<1>5. cancelled /\ holder = Nobody => holder' = Nobody
  <2>1. c # Nobody
    BY SetupsAssumption
  <2>2. QED
    BY <1>2, <2>1 DEF Releases, lease
<1>6. CASE WriteEnds(c)
  <2>1. /\ c \in writing /\ writing' = writing \ {c} /\ commands' = commands
        /\ phase' = IF phase[c] = "writing" THEN [phase EXCEPT ![c] = "wrote"] ELSE phase
    BY <1>6 DEF WriteEnds
  <2>2. /\ phase' \in [Child -> Phases]
        /\ phase'[c] = IF phase[c] = "writing" THEN "wrote" ELSE phase[c]
        /\ \A d \in Child : d # c => phase'[d] = phase[d]
    BY <1>1, <2>1 DEF Phases, InSlot
  <2>3. Work(c).kind = "writer" /\ ~IsTool(c) /\ c \notin commands
    BY <1>1, <2>1 DEF ThreadFits, IsTool
  <2>4. Due(c)' = Due(c) - 1 /\ Due(c) > 0
    BY <1>1, <1>3, <2>1, <2>2, <2>3 DEF ThreadFits, Due, Shielded, Brief, InSlot
  <2>5. ThreadFits(c)' /\ PhaseFits(c)' /\ ~Stray(c)' /\ GoesOn(c)'
    BY <1>1, <1>2, <1>3, <2>1, <2>2, <2>3
       DEF ThreadFits, PhaseFits, Stray, GoesOn, Shielded, InSlot
  <2>6. QED
    BY <1>1, <1>2, <1>5, <2>1, <2>2, <2>4, <2>5, OneChildIInv
<1>7. CASE ~WriteEnds(c)
  <2>1. PICK from \in {"integrating", "command", "releasing"}, to \in {"leaving", "ended", "deciding"} :
          /\ Goes(c, from, to)
          /\ from = "releasing" => to = IF cancelled THEN "ended" ELSE "deciding"
          /\ from # "releasing" => to = "leaving"
          /\ commands' = IF from = "command" THEN commands \ {c} ELSE commands
          /\ writing' = writing
    BY <1>1, <1>7 DEF IntegrationEnds, CommandReturns, LeaseReturned, threads
  <2>2. /\ phase' \in [Child -> Phases] /\ phase[c] = from /\ phase'[c] = to
        /\ \A d \in Child : d # c => phase'[d] = phase[d]
    BY <1>1, <2>1 DEF Goes, Phases, InSlot
  <2>3. c \notin writing /\ c \notin commands'
    BY <1>1, <2>1, <2>2 DEF ThreadFits
  <2>4. Due(c)' = 0 /\ Due(c) \in {0, 1}
    BY <1>1, <1>3, <2>1, <2>2, <2>3
       DEF Due, Shielded, Brief, PhaseFits, InSlot, IsTool, Isolated, Serialized
  <2>5. \/ UNCHANGED lease /\ Due(c)' = Due(c)
        \/ Releases(c) /\ Due(c)' = Due(c) - 1 /\ Due(c) > 0
    BY <1>2, <1>4, <2>4
  <2>6. ThreadFits(c)' /\ PhaseFits(c)' /\ ~Stray(c)'
    <3>1. ThreadFits(c)' /\ ~Stray(c)'
      BY <2>1, <2>3 DEF ThreadFits, Stray
    <3>2. phase'[c] \in {"leaving", "ended", "deciding"}
      BY <2>2
    <3>3. PhaseFits(c)'
      BY <3>2 DEF PhaseFits
    <3>4. QED
      BY <3>1, <3>3
  <2>7. GoesOn(c)'
    <3>1. Shielded(c) => from = "releasing"
      <4>1. Isolated(c) \/ IsTool(c) => ~Shielded(c)
        BY DEF Shielded, Isolated, IsTool, Serialized
      <4>2. from # "releasing" => Isolated(c) \/ IsTool(c)
        BY <1>1, <2>1, <2>2 DEF PhaseFits
      <4>3. QED
        BY <4>1, <4>2
    <3>2. CASE cancelled
      <4>1. phase'[c] = "ended"
        BY <1>1, <2>1, <2>2, <3>1, <3>2 DEF GoesOn
      <4>2. QED
        BY <4>1 DEF GoesOn
    <3>3. CASE ~cancelled
      BY <1>2, <3>3 DEF GoesOn
    <3>4. QED
      BY <3>2, <3>3
  <2>8. QED
    BY <1>1, <1>2, <1>5, <2>1, <2>2, <2>5, <2>6, <2>7, OneChildIInv
<1>8. QED
  BY <1>6, <1>7

\* A command ends after its coroutine.
LEMMA CommandThreadEndsIInv ==
  ASSUME IInv, NEW c \in Child, CommandThreadEnds(c)
  PROVE  IInv'
<1>1. UNCHANGED <<setup, lease, phase, writing, cancelled>> /\ commands' = commands \ {c}
  BY DEF CommandThreadEnds
<1>2. PhaseFits(c)' /\ ThreadFits(c)' /\ GoesOn(c)' /\ Due(c)' = Due(c) /\ ~Stray(c)'
  BY <1>1 DEF IInv, PhaseFits, ThreadFits, GoesOn, Due, Shielded, Brief, Stray, Serialized,
              Isolated, IsTool, Work
<1>3. LeaseTyped /\ holder' = holder
  BY <1>1 DEF IInv, lease
<1>4. phase' \in [Child -> Phases] /\ writing' \subseteq Child /\ commands' \subseteq Child
  BY <1>1, <1>3 DEF LeaseTyped
<1>5. QED
  BY <1>1, <1>2, <1>3, <1>4, OneChildIInv

\* The pump cancels its tasks: attempts with the lease go on, a command loses it,
\* and a file write keeps it until it is done.
LEMMA CancelIInv ==
  ASSUME IInv, Cancel
  PROVE  IInv'
<1> DEFINE Hit(c) == phase[c] \notin {"idle", "ended"} /\ ~Shielded(c)
<1>1. /\ LeaseTyped /\ LeaseFits
      /\ \A c \in Child : ThreadFits(c) /\ PhaseFits(c) /\ phase[c] # "integrating"
  BY DEF IInv, Cancel
<1>2. /\ ~cancelled /\ cancelled' = TRUE /\ setup' = setup
      /\ writing' = writing /\ commands' = commands
      /\ phase' = [c \in Child |-> IF Hit(c) THEN "ended" ELSE phase[c]]
      /\ IF holder \in Child /\ Hit(holder) /\ phase[holder] = "command"
         THEN holder' = Nobody /\ depth' = 0 ELSE UNCHANGED lease
  BY DEF Cancel, threads
<1>3. \A c \in Child : phase'[c] = IF Hit(c) THEN "ended" ELSE phase[c]
  BY <1>2
<1>4. \A c \in Child : Shielded(c)' = Shielded(c)
  BY <1>2, <1>3 DEF Shielded, InSlot, Serialized, Work
<1>5. \A c \in Child : Brief(c) => phase[c] = "command" /\ Hit(c) /\ c \notin writing /\ ~Shielded(c)
  BY <1>1 DEF Brief, ThreadFits, Shielded, Serialized
<1>6. \A c \in Child : ~Brief(c)'
  BY <1>1, <1>2, <1>3 DEF Brief, Work, Shielded, Serialized
<1>7. \A c \in Child : Due(c)' = IF Brief(c) THEN 0 ELSE Due(c)
  BY <1>2, <1>4, <1>5, <1>6 DEF Due
<1>8. \A c \in Child : Due(c) \in {0, 1, 2} /\ (Brief(c) => Due(c) > 0) /\ c # Nobody
  BY SetupsAssumption DEF Due
<1>9. LeaseFits' /\ holder' \in Child \cup {Nobody} /\ depth' \in Nat
  <2>1. CASE holder \in Child /\ Hit(holder) /\ phase[holder] = "command"
    <3>1. Brief(holder)
      BY <1>1, <2>1 DEF LeaseFits, Due, ThreadFits
    <3>2. \A c \in Child : Due(c)' = 0
      BY <1>1, <1>7, <1>8, <3>1 DEF LeaseFits
    <3>3. QED
      BY <1>2, <1>8, <2>1, <3>2 DEF LeaseFits
  <2>2. CASE ~(holder \in Child /\ Hit(holder) /\ phase[holder] = "command")
    <3>1. \A c \in Child : ~Brief(c)
      BY <1>1, <1>5, <1>8, <2>2 DEF LeaseFits
    <3>2. UNCHANGED lease /\ \A c \in Child : Due(c)' = Due(c)
      BY <1>2, <1>7, <2>2, <3>1
    <3>3. QED
      BY <1>1, <3>2 DEF LeaseFits, LeaseTyped, lease
  <2>3. QED
    BY <2>1, <2>2
<1>10. \A c \in Child : ThreadFits(c)' /\ PhaseFits(c)' /\ GoesOn(c)'
  <2>1. SUFFICES ASSUME NEW c \in Child PROVE ThreadFits(c)' /\ PhaseFits(c)' /\ GoesOn(c)'
    OBVIOUS
  <2>2. Work(c)' = Work(c) /\ Serialized(c)' = Serialized(c) /\ Isolated(c)' = Isolated(c)
        /\ IsTool(c)' = IsTool(c)
    BY <1>2 DEF Serialized, Isolated, IsTool, Work
  <2>3. GoesOn(c)'
    BY <1>3, <1>4 DEF GoesOn
  <2>4. PhaseFits(c)'
    BY <1>1, <1>2, <1>3, <2>2 DEF PhaseFits
  <2>5. ThreadFits(c)'
    BY <1>1, <1>2, <1>3, <2>2 DEF ThreadFits, Shielded, InSlot
  <2>6. QED
    BY <2>3, <2>4, <2>5
<1>11. StraysAreAlone'
  <2>1. \A c \in Child : Stray(c)' => c \in commands /\ phase[c] = "command" /\ Brief(c) /\ Hit(c)
    BY <1>1, <1>2, <1>3 DEF Stray, Brief, Work, ThreadFits
  <2>2. \A c \in Child : Brief(c) => holder = c
    BY <1>1, <1>8 DEF LeaseFits
  <2>3. QED
    BY <1>2, <2>1, <2>2 DEF StraysAreAlone
<1>12. LeaseTyped'
  BY <1>1, <1>2, <1>9 DEF LeaseTyped, Phases, InSlot
<1>13. QED
  BY <1>9, <1>10, <1>11, <1>12 DEF IInv

-----------------------------------------------------------------------------
LEMMA InitIInv == Init => IInv
<1> SUFFICES ASSUME Init PROVE IInv
  OBVIOUS
<1>1. \A c \in Child : phase[c] = "idle" /\ c # Nobody
  BY SetupsAssumption DEF Init
<1>2. writing = {} /\ commands = {} /\ holder = Nobody /\ depth = 0 /\ cancelled = FALSE
  BY DEF Init
<1>3. \A c \in Child : Due(c) = 0
  BY <1>1, <1>2 DEF Due, Shielded, Brief, InSlot
<1>4. LeaseTyped
  <2>1. phase \in [Child -> Phases]
    BY DEF Init, Phases
  <2>2. setup \in Setups /\ holder \in Child \cup {Nobody} /\ depth \in Nat
    BY DEF Init
  <2>3. QED
    BY <1>2, <2>1, <2>2 DEF LeaseTyped
<1>5. LeaseFits /\ StraysAreAlone
  BY <1>1, <1>2, <1>3 DEF LeaseFits, StraysAreAlone, Stray
<1>6. \A c \in Child : ThreadFits(c) /\ PhaseFits(c) /\ GoesOn(c)
  BY <1>1, <1>2 DEF ThreadFits, PhaseFits, GoesOn
<1>7. QED
  BY <1>4, <1>5, <1>6 DEF IInv

\* What a step does not touch keeps the invariant: an admission, or no step at all.
LEMMA IdleIInv ==
  ASSUME IInv, UNCHANGED <<setup, lease, phase, threads, cancelled>>
  PROVE  IInv'
<1>1. /\ setup' = setup /\ holder' = holder /\ depth' = depth /\ phase' = phase
      /\ writing' = writing /\ commands' = commands /\ cancelled' = cancelled
  BY DEF lease, threads
<1>2. \A c \in Child : Due(c)' = Due(c) /\ Stray(c)' = Stray(c)
  BY <1>1 DEF Due, Shielded, Brief, Stray, Serialized, Work
<1>3. LeaseTyped' /\ LeaseFits' /\ StraysAreAlone'
  BY <1>1, <1>2 DEF IInv, LeaseTyped, LeaseFits, StraysAreAlone
<1>4. \A c \in Child : ThreadFits(c)' /\ PhaseFits(c)' /\ GoesOn(c)'
  BY <1>1 DEF IInv, ThreadFits, PhaseFits, GoesOn, Shielded, Serialized, Isolated, IsTool, Work
<1>5. QED
  BY <1>3, <1>4 DEF IInv

LEMMA NextIInv == IInv /\ [Next]_vars => IInv'
<1> SUFFICES ASSUME IInv, [Next]_vars PROVE IInv'
  OBVIOUS
<1>1. CASE Submit \/ UNCHANGED vars
  BY <1>1, IdleIInv DEF Submit, vars
<1>2. CASE Cancel
  BY <1>2, CancelIInv
<1>3. ASSUME NEW c \in Child,
             \/ Spawn(c) \/ ToolSpawns(c) \/ RouteFails(c) \/ AttemptStarts(c) \/ Denied(c)
             \/ Granted(c) \/ Leaves(c) \/ Decides(c)
      PROVE  IInv'
  BY <1>3, MovesIInv
<1>4. ASSUME NEW c \in Child, EntersGate(c) \/ CommandThreadEnds(c) PROVE IInv'
  BY <1>4, EntersGateIInv, CommandThreadEndsIInv
<1>5. ASSUME NEW c \in Child,
             GetsLease(c) \/ WriteBegins(c) \/ IntegrationBegins(c) \/ CommandBegins(c)
      PROVE  IInv'
  BY <1>5, TakesIInv
<1>6. ASSUME NEW c \in Child, NEW r \in Results, AgentReturns(c, r) PROVE IInv'
  BY <1>6, AgentReturnsIInv
<1>7. ASSUME NEW c \in Child, NEW r \in Results,
             WriteEnds(c) \/ IntegrationEnds(c, r) \/ CommandReturns(c, r) \/ LeaseReturned(c)
      PROVE  IInv'
  BY <1>7, ReleasesIInv
<1>8. "failed" \in Results
  BY DEF Results
<1>9. QED
  BY <1>1, <1>2, <1>3, <1>4, <1>5, <1>6, <1>7, <1>8 DEF Next, ChildStep

\* The inductive invariant of the lease holds for every set of children and every
\* workload, in both workspace modes.
THEOREM LeaseInvariance == Spec => []IInv
BY InitIInv, NextIInv, PTL DEF Spec

\* Whoever is in the workspace itself holds the lease, or is a command that outlived
\* the cancellation of its run and is alone there.
LEMMA WorkspaceIsHeld ==
  ASSUME IInv, NEW c \in InWorkspace
  PROVE  c \in Child /\ (holder = c \/ Stray(c))
<1>1. c \in Child
  BY DEF IInv, LeaseTyped, InWorkspace
<1>2. LeaseFits /\ ThreadFits(c) /\ PhaseFits(c)
  BY <1>1 DEF IInv
<1>3. Due(c) > 0 \/ Stray(c)
  BY <1>2 DEF InWorkspace, ThreadFits, Due, Shielded, Brief, Stray, InSlot
<1>4. QED
  BY <1>1, <1>2, <1>3 DEF LeaseFits

\* One writer at a time, and the lease is never stranded, for any number of children
\* and slots and through cancellation.
THEOREM OneWriterAlways == Spec => []OneWriter
<1>1. IInv => OneWriter
  <2> SUFFICES ASSUME IInv PROVE OneWriter
    OBVIOUS
  <2>1. \A c, d \in InWorkspace : c = d
    <3>1. \A c \in Child : Stray(c) => holder = Nobody /\ \A d \in Child : Stray(d) => d = c
      BY DEF IInv, StraysAreAlone
    <3>2. \A c \in Child : c # Nobody
      BY SetupsAssumption
    <3>3. QED
      BY <3>1, <3>2, WorkspaceIsHeld
  <2>2. Cardinality(InWorkspace) <= 1
    <3>1. CASE InWorkspace = {}
      BY <3>1, FS_EmptySet
    <3>2. CASE InWorkspace # {}
      <4>1. PICK c : InWorkspace = {c}
        BY <2>1, <3>2
      <4>2. QED
        BY <4>1, FS_Singleton
    <3>3. QED
      BY <3>1, <3>2
  <2>3. holder # Nobody => phase[holder] \notin {"idle", "ended", "deciding"} \/ holder \in writing
    <3>1. holder # Nobody => holder \in Child /\ Due(holder) > 0
      BY DEF IInv, LeaseTyped, LeaseFits
    <3>2. QED
      BY <3>1 DEF Due, Shielded, Brief, InSlot
  <2>4. QED
    BY <2>2, <2>3 DEF OneWriter
<1>2. QED
  BY <1>1, LeaseInvariance, PTL

-----------------------------------------------------------------------------
(* The verdicts of the scheduler. *)

\* Inside the slot, with the verdict still to come; and after the slot.
Executing == (InSlot \ {"leaving"}) \cup {"integrating"}
AfterVerdict == {"leaving", "releasing", "deciding", "ended"}

VerdictTyped ==
  /\ setup \in Setups
  /\ phase \in [Child -> Phases]
  /\ out \in [Child -> Results \cup {"none"}]
  /\ completed \subseteq Child

\* A child that executes has no verdict, and its dependencies have succeeded.
ExecutesUnjudged(c) ==
  phase[c] \in Executing =>
    c \notin completed \cup failed \cup blocked /\ Work(c).deps \subseteq completed

\* A child that succeeded is never run or judged again, and rests on successes.
SuccessIsFinal(c) ==
  c \in completed =>
    phase[c] \in AfterVerdict /\ out[c] = "succeeded" /\ c \notin failed \cup blocked

\* What succeeded rests on successes.
SuccessesRest == \A c \in completed : Work(c).deps \subseteq completed

VInv == VerdictTyped /\ SuccessesRest /\ \A c \in Child : ExecutesUnjudged(c) /\ SuccessIsFinal(c)

\* _block_dependents reaches nobody whose dependencies have all succeeded.
LEMMA SuccessesAreNotBlocked ==
  ASSUME VInv, NEW S, S \cap completed = {}, NEW c \in Child, Work(c).deps \subseteq completed
  PROVE  c \notin DependentsOf(S)
<1> DEFINE C == {d \in ToSet(submitted) : ~(Work(d).deps \subseteq completed)}
<1> SUFFICES ASSUME c \in DependentsOf(S) PROVE FALSE
  OBVIOUS
<1>1. \A d \in C : d \notin completed
  BY DEF VInv, SuccessesRest
<1>2. \A d \in ToSet(submitted) : Work(d).deps \cap (S \cup C) # {} => d \in C
  BY <1>1
<1>3. C \in SUBSET ToSet(submitted) /\ c \in ToSet(submitted) /\ c \notin C
  BY DEF DependentsOf
<1> HIDE DEF C
<1> QED
  BY <1>2, <1>3 DEF DependentsOf

\* A step of one child that gives no verdict; a second attempt may take back its failure.
LEMMA UnjudgedStep ==
  ASSUME VInv, NEW c \in Child, setup' = setup, VerdictTyped',
         completed' = completed, blocked' = blocked, failed' \subseteq failed,
         \A d \in Child : d # c => phase'[d] = phase[d] /\ out'[d] = out[d],
         ExecutesUnjudged(c)',
         c \in completed => phase'[c] \in AfterVerdict /\ out'[c] = "succeeded"
  PROVE  VInv'
<1>1. \A d \in Child : Work(d)' = Work(d)
  BY DEF Work
<1>2. SuccessesRest'
  BY DEF VInv, SuccessesRest, Work
<1>3. \A d \in Child : SuccessIsFinal(d)'
  BY DEF VInv, SuccessIsFinal
<1>4. \A d \in Child : d # c => ExecutesUnjudged(d)'
  BY <1>1 DEF VInv, ExecutesUnjudged
<1> QED
  BY <1>2, <1>3, <1>4 DEF VInv

\* The verdict on a child that leaves its slot.
LEMMA JudgedStep ==
  ASSUME VInv, NEW c \in Child, NEW r \in Results, Returns(c, r), setup' = setup,
         phase[c] \in Executing, phase' = [phase EXCEPT ![c] = "leaving"]
  PROVE  VInv'
<1>1. /\ \A d \in Child : Work(d)' = Work(d)
      /\ \A d \in completed : Work(d)' = Work(d)
  BY DEF Work
<1>2. /\ phase'[c] = "leaving" /\ \A d \in Child : d # c => phase'[d] = phase[d]
      /\ out'[c] = r /\ \A d \in Child : d # c => out'[d] = out[d]
  BY DEF VInv, VerdictTyped, Returns
<1>3. VerdictTyped'
  <2>1. completed' \subseteq completed \cup {c}
    BY DEF Returns, Verdict, FinishSucceeded, FinishFailed, sets
  <2> QED
    BY <2>1 DEF VInv, VerdictTyped, Returns, Phases, InSlot
<1>4. c \notin completed \cup failed \cup blocked /\ Work(c).deps \subseteq completed
  BY DEF VInv, ExecutesUnjudged
<1>5. CASE r = "succeeded"
  <2>1. completed' = completed \cup {c} /\ failed' = failed /\ blocked' = blocked
    BY <1>5 DEF Returns, Verdict, FinishSucceeded
  <2>2. SuccessesRest'
    BY <1>1, <1>4, <2>1 DEF VInv, SuccessesRest, Work
  <2>3. \A d \in Child : ExecutesUnjudged(d)'
    BY <1>1, <1>2, <2>1 DEF VInv, ExecutesUnjudged, Executing, InSlot
  <2>4. \A d \in Child : SuccessIsFinal(d)'
    BY <1>2, <1>4, <1>5, <2>1 DEF VInv, SuccessIsFinal, AfterVerdict
  <2> QED
    BY <1>3, <2>2, <2>3, <2>4 DEF VInv
<1>6. CASE r # "succeeded"
  <2>1. /\ completed' = completed
        /\ failed' \subseteq failed \cup {c} /\ blocked' \subseteq blocked \cup DependentsOf({c})
    BY <1>6 DEF Returns, Verdict, FinishFailed, sets
  <2>2. \A d \in Child : Work(d).deps \subseteq completed => d \notin DependentsOf({c})
    BY <1>4, SuccessesAreNotBlocked
  <2>3. SuccessesRest'
    BY <2>1 DEF VInv, SuccessesRest, Work
  <2>4. \A d \in Child : ExecutesUnjudged(d)'
    BY <1>1, <1>2, <2>1, <2>2 DEF VInv, ExecutesUnjudged, Executing, InSlot
  <2>5. \A d \in Child : SuccessIsFinal(d)'
    <3> SUFFICES ASSUME NEW d \in Child, d \in completed PROVE SuccessIsFinal(d)'
      BY <2>1 DEF SuccessIsFinal
    <3>1. d # c /\ d \notin DependentsOf({c})
      BY <1>4, <2>2 DEF VInv, SuccessesRest
    <3> QED
      BY <1>2, <2>1, <3>1 DEF VInv, SuccessIsFinal
  <2> QED
    BY <1>3, <2>3, <2>4, <2>5 DEF VInv
<1> QED
  BY <1>5, <1>6

\* The cancellation fails those that are inside their slot.
LEMMA CancelVInv ==
  ASSUME VInv, Cancel
  PROVE  VInv'
<1> DEFINE hit  == {c \in Child : phase[c] \notin {"idle", "ended"} /\ ~Shielded(c)}
           dead == {c \in hit : phase[c] \in InSlot \ {"leaving"}}
<1>1. /\ setup' = setup /\ out' = out /\ completed' = completed
      /\ failed' = failed \cup dead /\ blocked' = blocked \cup DependentsOf(dead)
      /\ phase' = [c \in Child |-> IF c \in hit THEN "ended" ELSE phase[c]]
  BY DEF Cancel, FinishFailed
<1>2. dead \cap completed = {}
  BY DEF VInv, ExecutesUnjudged, Executing
<1>3. \A d \in Child : Work(d).deps \subseteq completed => d \notin DependentsOf(dead)
  BY <1>2, SuccessesAreNotBlocked
<1>4. \A d \in Child : phase'[d] = "ended" \/ (phase'[d] = phase[d] /\ d \notin dead)
  BY <1>1
<1>5. VerdictTyped' /\ SuccessesRest'
  BY <1>1 DEF VInv, VerdictTyped, SuccessesRest, Work, Phases
<1> HIDE DEF hit, dead
<1>6. \A d \in Child : ExecutesUnjudged(d)'
  BY <1>1, <1>3, <1>4 DEF VInv, ExecutesUnjudged, Executing, InSlot, Work
<1>7. \A d \in Child : SuccessIsFinal(d)'
  <2> SUFFICES ASSUME NEW d \in Child, d \in completed PROVE SuccessIsFinal(d)'
    BY <1>1 DEF SuccessIsFinal
  <2>1. d \notin dead /\ d \notin DependentsOf(dead)
    BY <1>2, <1>3 DEF VInv, SuccessesRest
  <2> QED
    BY <1>1, <1>4, <2>1 DEF VInv, SuccessIsFinal, AfterVerdict
<1> QED
  BY <1>5, <1>6, <1>7 DEF VInv

\* The steps before the slot, into it and after it.
LEMMA OutsideVInv ==
  ASSUME VInv, NEW c \in Child,
         \/ Spawn(c) \/ ToolSpawns(c) \/ RouteFails(c) \/ AttemptStarts(c) \/ GetsLease(c)
         \/ Denied(c) \/ Leaves(c) \/ LeaseReturned(c) \/ Decides(c)
  PROVE  VInv'
<1>1. /\ setup' = setup /\ completed' = completed /\ blocked' = blocked
      /\ failed' \subseteq failed
  BY DEF Spawn, ToolSpawns, RouteFails, AttemptStarts, GetsLease, Denied, Leaves, LeaseReturned,
         Decides, sets, Retried
<1>2. PICK from \in {"idle", "assigning", "wantLease", "queued", "leaving", "releasing", "deciding"},
           to \in {"assigning", "wantLease", "queued", "ended", "releasing", "deciding"} :
        Goes(c, from, to)
  BY DEF Spawn, ToolSpawns, RouteFails, AttemptStarts, GetsLease, Denied, Leaves, LeaseReturned,
         Decides, AfterSlot
<1>3. out' = out \/ (c \notin completed /\ out' = [out EXCEPT ![c] = "blocked"])
  <2>1. c \in completed => phase[c] \in AfterVerdict
    BY DEF VInv, SuccessIsFinal
  <2> QED
    BY <2>1 DEF Spawn, ToolSpawns, RouteFails, AttemptStarts, GetsLease, Denied, Leaves,
                LeaseReturned, Decides, Goes, AfterVerdict
<1>4. /\ phase[c] = from /\ phase'[c] = to
      /\ \A d \in Child : d # c => phase'[d] = phase[d] /\ out'[d] = out[d]
  BY <1>2, <1>3 DEF Goes, VInv, VerdictTyped
<1>5. VerdictTyped'
  BY <1>1, <1>2, <1>3 DEF VInv, VerdictTyped, Goes, Phases, Results
<1>6. ExecutesUnjudged(c)'
  BY <1>4 DEF ExecutesUnjudged, Executing, InSlot
<1>7. c \in completed => to \in AfterVerdict /\ out' = out
  <2> SUFFICES ASSUME c \in completed PROVE to \in AfterVerdict /\ out' = out
    OBVIOUS
  <2>1. phase[c] \in AfterVerdict /\ out[c] = "succeeded"
    BY DEF VInv, SuccessIsFinal
  <2>2. CASE Leaves(c)
    BY <1>3, <1>4, <2>2 DEF Leaves, Goes, AfterSlot, AfterVerdict
  <2>3. CASE LeaseReturned(c)
    BY <1>3, <1>4, <2>3 DEF LeaseReturned, Goes, AfterVerdict
  <2>4. CASE Decides(c)
    <3>1. Goes(c, "deciding", "ended") /\ out' = out
      BY <2>1, <2>4 DEF Decides
    <3>2. phase'[c] = "ended"
      BY <3>1 DEF Goes, VInv, VerdictTyped
    <3> QED
      BY <1>4, <3>1, <3>2 DEF AfterVerdict
  <2>5. CASE ~(Leaves(c) \/ LeaseReturned(c) \/ Decides(c))
    <3>1. phase[c] \in {"idle", "assigning", "wantLease", "queued"}
      BY <2>5 DEF Spawn, ToolSpawns, RouteFails, AttemptStarts, GetsLease, Denied, Goes
    <3> QED
      BY <2>1, <3>1 DEF AfterVerdict
  <2> QED
    BY <2>2, <2>3, <2>4, <2>5
<1>8. c \in completed => phase'[c] \in AfterVerdict /\ out'[c] = "succeeded"
  BY <1>4, <1>7 DEF VInv, SuccessIsFinal
<1> QED
  BY <1>1, <1>4, <1>5, <1>6, <1>8, UnjudgedStep

\* A child gets its slot, and goes on inside it.
LEMMA InsideVInv ==
  ASSUME VInv, NEW c \in Child, UNCHANGED <<setup, sets, out>>,
         NEW from, NEW to \in Executing, Goes(c, from, to),
         from \in Executing \/ (from = "queued" /\ c \in Ready /\ c \notin blocked)
  PROVE  VInv'
<1>1. /\ setup' = setup /\ completed' = completed /\ failed' = failed /\ blocked' = blocked
      /\ out' = out
  BY DEF sets
<1>2. /\ phase[c] = from /\ phase'[c] = to /\ \A d \in Child : d # c => phase'[d] = phase[d]
  BY DEF Goes, VInv, VerdictTyped
<1>3. VerdictTyped'
  BY <1>1 DEF VInv, VerdictTyped, Goes, Executing, Phases, InSlot
<1>4. c \notin completed \cup failed \cup blocked /\ Work(c).deps \subseteq completed
  BY <1>2 DEF VInv, ExecutesUnjudged, Ready
<1>5. ExecutesUnjudged(c)'
  BY <1>1, <1>4 DEF ExecutesUnjudged, Work
<1> QED
  BY <1>1, <1>2, <1>3, <1>4, <1>5, UnjudgedStep

\* What leaves phases, outcomes and verdicts alone.
LEMMA StillVInv ==
  ASSUME VInv, UNCHANGED <<setup, sets, phase, out>>
  PROVE  VInv'
<1>1. /\ setup' = setup /\ completed' = completed /\ failed' = failed /\ blocked' = blocked
      /\ phase' = phase /\ out' = out
  BY DEF sets
<1>2. VerdictTyped' /\ SuccessesRest'
  BY <1>1 DEF VInv, VerdictTyped, SuccessesRest, Work
<1>3. \A c \in Child : ExecutesUnjudged(c)' /\ SuccessIsFinal(c)'
  BY <1>1 DEF VInv, ExecutesUnjudged, SuccessIsFinal, Work
<1> QED
  BY <1>2, <1>3 DEF VInv

LEMMA NextVInv == VInv /\ [Next]_vars => VInv'
<1> SUFFICES ASSUME VInv, [Next]_vars PROVE VInv'
  OBVIOUS
<1>1. CASE Submit \/ UNCHANGED vars
  BY <1>1, StillVInv DEF Submit, vars
<1>2. CASE Cancel
  BY <1>2, CancelVInv
<1>3. ASSUME NEW c \in Child,
             \/ Spawn(c) \/ ToolSpawns(c) \/ RouteFails(c) \/ AttemptStarts(c) \/ GetsLease(c)
             \/ Denied(c) \/ Leaves(c) \/ LeaseReturned(c) \/ Decides(c)
      PROVE  VInv'
  BY <1>3, OutsideVInv
<1>4. ASSUME NEW c \in Child,
             \/ Granted(c) \/ EntersGate(c) \/ WriteBegins(c) \/ IntegrationBegins(c)
             \/ CommandBegins(c)
      PROVE  VInv'
  <2>1. UNCHANGED <<setup, sets, out>>
    BY <1>4 DEF Granted, EntersGate, WriteBegins, IntegrationBegins, CommandBegins
  <2>2. CASE Granted(c)
    BY <2>1, <2>2, InsideVInv DEF Granted, HasSlot, Executing, InSlot
  <2>3. CASE ~Granted(c)
    <3>1. PICK from \in Executing, to \in Executing : Goes(c, from, to)
      BY <1>4, <2>3 DEF EntersGate, WriteBegins, IntegrationBegins, CommandBegins, Executing, InSlot
    <3> QED
      BY <2>1, <3>1, InsideVInv
  <2> QED
    BY <2>2, <2>3
<1>5. ASSUME NEW c \in Child, WriteEnds(c) PROVE VInv'
  <2>1. UNCHANGED <<setup, sets, out>>
    BY <1>5 DEF WriteEnds
  <2>2. CASE phase[c] = "writing"
    <3>1. Goes(c, "writing", "wrote")
      BY <1>5, <2>2 DEF WriteEnds, Goes
    <3>2. "writing" \in Executing /\ "wrote" \in Executing
      BY DEF Executing, InSlot
    <3> QED
      BY <2>1, <3>1, <3>2, InsideVInv
  <2>3. CASE phase[c] # "writing"
    BY <1>5, <2>1, <2>3, StillVInv DEF WriteEnds
  <2> QED
    BY <2>2, <2>3
<1>6. ASSUME NEW c \in Child, CommandThreadEnds(c) PROVE VInv'
  BY <1>6, StillVInv DEF CommandThreadEnds
<1>7. ASSUME NEW c \in Child, NEW r \in Results,
             AgentReturns(c, r) \/ IntegrationEnds(c, r) \/ CommandReturns(c, r)
      PROVE  VInv'
  <2>1. setup' = setup
    BY <1>7 DEF AgentReturns, IntegrationEnds, CommandReturns
  <2>2. CASE Returns(c, r) /\ phase' = [phase EXCEPT ![c] = "leaving"]
    <3>1. phase[c] \in Executing
      BY <1>7, <2>2 DEF AgentReturns, IntegrationEnds, CommandReturns, Goes, Executing, InSlot
    <3> QED
      BY <2>1, <2>2, <3>1, JudgedStep
  <2>3. CASE ~(Returns(c, r) /\ phase' = [phase EXCEPT ![c] = "leaving"])
    <3>1. /\ UNCHANGED <<setup, sets, out>>
          /\ \E from \in {"working", "wrote"} : Goes(c, from, "wantIntegrate")
      BY <1>7, <2>3 DEF AgentReturns, IntegrationEnds, CommandReturns, Goes
    <3>2. {"working", "wrote", "wantIntegrate"} \subseteq Executing
      BY DEF Executing, InSlot
    <3> QED
      BY <3>1, <3>2, InsideVInv
  <2> QED
    BY <2>2, <2>3
<1>8. "failed" \in Results
  BY DEF Results
<1> QED
  BY <1>1, <1>2, <1>3, <1>4, <1>5, <1>6, <1>7, <1>8 DEF Next, ChildStep

\* The scheduler never holds two verdicts on one child: a child that succeeded is neither
\* run again nor blocked by a failure, whatever is retried, cancelled or denied.
THEOREM OneVerdictAlways == Spec => []OneVerdict
<1>1. Init => VInv
  <2> SUFFICES ASSUME Init PROVE VInv
    OBVIOUS
  <2>1. VerdictTyped
    BY DEF Init, VerdictTyped, Phases
  <2>2. completed = {} /\ \A c \in Child : phase[c] = "idle"
    BY DEF Init
  <2> QED
    BY <2>1, <2>2 DEF VInv, SuccessesRest, ExecutesUnjudged, SuccessIsFinal, Executing, InSlot
<1>2. VInv => OneVerdict
  BY DEF VInv, VerdictTyped, SuccessIsFinal, OneVerdict
<1> QED
  BY <1>1, <1>2, NextVInv, PTL DEF Spec
=============================================================================
