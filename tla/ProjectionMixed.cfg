\* A room and a job whose entries are retried beside each other, and a room
\* event that cannot be mapped: retries, refusals, late applications and a
\* crash, clocks in any order.
SPECIFICATION Spec
CONSTANTS
  Room = {r1}
  Job = {j1}
  Workflow = {}
  Record = {}
  MaxChange = 2
  MaxEntry = 3
  MaxAttempts = 2
  BatchSize = 2
  MaxRestarts = 1
  InOrder = FALSE
  Absent = Absent
INVARIANTS TypeOK RowsKeepUp DeliveredWasApplied PostsAreBounded
PROPERTY SettledIsFinal
