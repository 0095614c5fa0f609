\* Two runs, three calls, one stop; money for a retry of one task.
CONSTANTS
  Unknown = Unknown
  Task = {1, 2, 3}
  Fingerprint = {"a", "b"}
  Packet <- Calls
  Candidates <- Catalog
  Role = "explorer"
  Risk = "routine"
  Mode = "auto"
  Limit = 20
  LeadCost = 2
  Outcomes = {"succeeded", "failed"}
  Accounts = {"measured", "uncertain"}
  MaxRuns = 2
  MaxStops = 1
SPECIFICATION Spec
INVARIANTS VerdictAgrees EndedHoldsNothing
PROPERTIES ExhaustedStaysExhausted CallsAnswered
CHECK_DEADLOCK FALSE
