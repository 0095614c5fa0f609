\* Two attempts of two requests, costs below and above the estimate, one crash.
CONSTANTS
  lead = lead
  Resv = {lead, child}
  Task = {lead, child}
  TaskOf <- MCTaskOf
  TaskLimit <- MCTaskLimit
  Allowance = 0
  Estimates = {2}
  child = child
  Lead = lead
  p = p
  q = q
  Key = {p, q}
  Costs = {1, 3}
  NoRow = NoRow
  Unpriced = Unpriced
  Estimate = 2
  Limit = 4
  Percent = 80
  NoTask = NoTask
  NoLimit = NoLimit
  MaxCrashes = 1
SPECIFICATION Spec
INVARIANTS RequestSentOnce SettledCoversCalls OvershootBounded
PROPERTIES UncertainKeepsMoney
SYMMETRY Requests
CHECK_DEADLOCK FALSE
