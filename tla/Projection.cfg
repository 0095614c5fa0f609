\* The loop and one thread, three events, a snapshot, a rollback and a restart.
SPECIFICATION ViewSpec
CONSTANTS
  Threads = {w1}
  Tasks = {t1}
  Nodes = {n1}
  Tools = {tool}
  Loop = loop
  Interrupt = question
  FinalAnswer = answer
  MaxEvents = 3
  MaxWrites = 2
  MaxSnapshots = 1
  MaxRollbacks = 1
  MaxCrashes = 1
INVARIANTS ViewTypeOK ShownIsCommitted ViewFollowsJournal
PROPERTIES EventsAreShown
CHECK_DEADLOCK FALSE
