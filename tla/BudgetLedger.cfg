\* Limit 5, threshold 4 (80%); attempts estimated at 1 or 2 cost 0 to 3.
CONSTANTS
  lead = lead
  try = try
  retry = retry
  other = other
  t = t
  u = u
  Resv = {lead, try, retry, other}
  Task = {t, u}
  NoTask = NoTask
  NoLimit = NoLimit
  TaskOf <- MCTaskOf
  TaskLimit <- MCTaskLimit
  Limit = 5
  Percent = 80
  Allowance = 2
  Estimates = {1, 2}
  Costs = {0, 1, 3}
SPECIFICATION LedgerSpec
INVARIANTS UsageReplacesReservation
PROPERTIES OnlyCostsOvershoot BookedOnlyImproves
CHECK_DEADLOCK FALSE
