------------------------------- MODULE Routing -------------------------------
(***************************************************************************)
(* Which model an attempt is given: the requirements that a role, a risk   *)
(* and a routing mode make (routing/requirements.py), the reasons that     *)
(* exclude a candidate, and the choice among those that are left           *)
(* (routing/selector.py).  Pure operators, without state.                  *)
(*                                                                         *)
(* Capabilities are in hundredths.  A candidate is a record whose key is   *)
(* its rank in the order of (provider, model); what a catalog does not say *)
(* is Unknown.                                                             *)
(***************************************************************************)
EXTENDS Integers, Sequences, FiniteSets, FiniteSetsExt

CONSTANT Unknown

RoleFloor == [explorer |-> 35, tester |-> 40, researcher |-> 45, general |-> 50,
              implementer |-> 50, reviewer |-> 55, lead |-> 60]
RiskFloor == [trivial |-> 25, routine |-> 35, bounded |-> 45, complex |-> 60, high |-> 70]
Adjustment == [auto |-> 0, economy |-> -10, quality |-> 15]

\* The floor that the builtin profiles set as role_hard_min is that of their role.
HardMin(role) == RoleFloor[role]

\* RequirementBuilder.build; the floor a task hints at is the one its own
\* validation built from the same role and risk, and changes nothing.
CapabilityFloor(role, risk, mode, escalated) ==
  IF mode = "manual" THEN Unknown
  ELSE Min({Max({Max({RoleFloor[role], RiskFloor[risk]}) + Adjustment[mode]
                   + (IF escalated THEN 15 ELSE 0),
                 HardMin(role)}),
            IF escalated THEN 90 ELSE 85})

\* What the task graph expects of the floor of a second attempt.
EscalationFloor(floor) == Min({floor + 15, 90})

-----------------------------------------------------------------------------
(* A requirement: [mode, floor, tools, context, escalated, failedFit,        *)
(* excluded].                                                                *)
(* A candidate: [key, configured, healthy, enabled, auto, tools, context,    *)
(* fit, reliability, latency, cost].                                         *)

Below(known, needed) == known # Unknown /\ known < needed
NotShown(known, mode) == known = Unknown /\ mode # "manual"

NotStronger(fit, failedFit) == fit <= failedFit

\* The objections of _exclusion_reason, each whatever comes before it.  Structured
\* output, output size and modalities are tested as tools and context are.
Objects(reason, c, need, money, pin) ==
  CASE reason = "manual_model_mismatch" -> need.mode = "manual" /\ c.key # pin
    [] reason = "model_excluded" -> c.key \in need.excluded
    [] reason = "provider_unconfigured" -> ~c.configured
    [] reason = "provider_unhealthy" -> ~c.healthy
    [] reason = "model_disabled" -> ~c.enabled
    [] reason = "auto_ineligible" -> (need.mode # "manual" \/ need.escalated) /\ ~c.auto
    [] reason = "tools_unsupported" ->
         need.tools /\ (c.tools = "no" \/ (need.mode # "manual" /\ c.tools # "yes"))
    [] reason = "context_too_small" ->
         NotShown(c.context, need.mode) \/ Below(c.context, need.context)
    [] reason = "escalation_baseline_unknown" -> need.escalated /\ need.failedFit = Unknown
    [] reason = "escalation_not_stronger" ->
         need.escalated /\ need.failedFit # Unknown
         /\ (c.fit = Unknown \/ NotStronger(c.fit, need.failedFit))
    [] reason = "capability_floor" ->
         need.floor # Unknown /\ (c.fit = Unknown \/ c.fit < need.floor)
    [] reason = "price_unavailable" ->
         c.cost = Unknown /\ (need.mode # "manual" \/ money # Unknown)
    [] reason = "budget_unaffordable" ->
         money # Unknown /\ c.cost # Unknown /\ c.cost > money

\* The order in which the reasons are tried.
Tried == <<"manual_model_mismatch", "model_excluded", "provider_unconfigured",
           "provider_unhealthy", "model_disabled", "auto_ineligible", "tools_unsupported",
           "context_too_small", "escalation_baseline_unknown", "escalation_not_stronger",
           "capability_floor", "price_unavailable", "budget_unaffordable">>

\* Their alphabetical order, which breaks ties between equal counts.
Alphabetical == <<"auto_ineligible", "budget_unaffordable", "capability_floor",
                  "context_too_small", "escalation_baseline_unknown", "escalation_not_stronger",
                  "manual_model_mismatch", "model_disabled", "model_excluded",
                  "price_unavailable", "provider_unconfigured", "provider_unhealthy",
                  "tools_unsupported">>

ExclusionReason(c, need, money, pin) ==
  LET hits == {i \in DOMAIN Tried : Objects(Tried[i], c, need, money, pin)}
  IN IF hits = {} THEN "none" ELSE Tried[Min(hits)]

Before(s, t) == \E i \in DOMAIN s : s[i] < t[i] /\ \A j \in 1..(i - 1) : s[j] = t[j]

\* The rank of a candidate: in quality mode strength comes before cost.
Rank(c, mode) ==
  CASE mode = "manual"  -> <<c.key>>
    [] mode = "quality" -> <<-c.fit, -c.reliability, c.cost, c.key>>
    [] OTHER            -> <<c.cost, -c.fit, -c.reliability, c.latency, c.key>>

\* The reason most candidates fail for, those that are excluded or out of order
\* left aside if there are others; that of the pinned model when there is one.
Binding(candidates, reason, excluded, pin) ==
  LET failed == {c \in candidates : reason[c] # "none"}
      usable == {c \in failed : c.key \notin excluded /\ c.configured /\ c.healthy /\ c.enabled}
      relevant == IF usable = {} THEN failed ELSE usable
      count(r) == Cardinality({c \in relevant : reason[c] = r})
      most == {i \in DOMAIN Alphabetical : count(Alphabetical[i]) > 0
                 /\ \A j \in DOMAIN Alphabetical : count(Alphabetical[j]) <= count(Alphabetical[i])}
      pinned == {c \in failed : c.key = pin}
  IN IF pinned # {} THEN reason[CHOOSE c \in pinned : TRUE]
     ELSE IF most = {} THEN "none" ELSE Alphabetical[Min(most)]

\* select_model: a failure carries the binding constraint, a selection the
\* candidate.  AssignmentService refuses one without a price, unless it was
\* pinned and nothing limits the run or the task.
SelectModel(candidates, need, money, pin) ==
  LET reason == [c \in candidates |-> ExclusionReason(c, need, money, pin)]
      fit == {c \in candidates : reason[c] = "none"}
  IN IF fit = {}
     THEN [found |-> FALSE, binding |-> Binding(candidates, reason, need.excluded, pin)]
     ELSE [found |-> TRUE,
           candidate |-> CHOOSE c \in fit :
             \A d \in fit \ {c} : Before(Rank(c, need.mode), Rank(d, need.mode))]
=============================================================================
