\* Two nodes that run side by side, a checkpoint after them, an agent added by a revision.
CONSTANTS
  a = a
  b = b
  c = c
  t = t
  Node = {a, b, c, t}
  NoLineage = NoLineage
  NoNode = NoNode
  Submissions <- MCSubmissions
  MaxRevision = 2
  MaxCrashes = 2
  AgentResults = {"succeeded", "failed", "blocked", "cancelled"}
  ToolResults = {"succeeded", "blocked", "approval"}
SPECIFICATION Spec
INVARIANTS AgentLaunchesOnce TasksMatchPlan
PROPERTIES ImplementsJournal PumpRests
CHECK_DEADLOCK FALSE
