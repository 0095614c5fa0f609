\* Two tasks, two files, one edit by a person or a command, one stop.
CONSTANTS
  x = x
  y = y
  a = a
  b = b
  Absent = Absent
  Task = {x, y}
  Path = {1, 2}
  Content = {a, b}
  Written = {b}
  Scope <- Scopes
  Workspaces <- Base
  Nobody = Nobody
  MaxEdits = 1
  MaxFaults = 1
SPECIFICATION Spec
INVARIANTS AppliesToItsBase InDoubtIsLocated
PROPERTIES UnintegratedWorkKept IntegrationEnds
CHECK_DEADLOCK FALSE
