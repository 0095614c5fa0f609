\* Two runs in one process, against ARCHITECTURE.md:108.
CONSTANTS
  LastRun = 2
  CallLimit = 3
  Responses <- Steps
  Instructions <- Words
  Given <- Modes
  MaxStops = 0
SPECIFICATION Spec
INVARIANT WorkHasDecision
CHECK_DEADLOCK FALSE
