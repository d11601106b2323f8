SPECIFICATION Spec
CONSTANTS
  Room = {}
  Job = {}
  Workflow = {d1}
  Record = {}
  MaxChange = 2
  MaxEntry = 2
  MaxAttempts = 2
  BatchSize = 2
  MaxRestarts = 0
  InOrder = TRUE
  Absent = Absent
INVARIANT WorkflowStateIsShown
