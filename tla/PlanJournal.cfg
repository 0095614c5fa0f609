\* Chains, a fork and a join of agents, a checkpoint and a tool, revised twice; refused plans.
CONSTANTS
  a = a
  b = b
  c = c
  t = t
  Node = {a, b, c, t}
  NoLineage = NoLineage
  Submissions <- MCSubmissions
  MaxRevision = 3
SPECIFICATION Spec
INVARIANTS DependenciesSucceeded NoLostRelease
PROPERTIES DeathReachesDependents HistoryFrozen
CHECK_DEADLOCK FALSE
