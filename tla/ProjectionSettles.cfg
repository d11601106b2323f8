\* A draft with an entry for each of its audit rows, a request with its single
\* entry and a room with entries that cannot be mapped, two entries in all; a
\* batch smaller than the backlog and a crash.
SPECIFICATION FairSpec
CONSTANTS
  Room = {r1}
  Job = {}
  Workflow = {d1}
  Record = {o1}
  MaxChange = 2
  MaxEntry = 2
  MaxAttempts = 2
  BatchSize = 1
  MaxRestarts = 1
  InOrder = FALSE
  Absent = Absent
INVARIANT DeliveredWasApplied
PROPERTY EverySettles
