\* One task, three processes, two faults.
SPECIFICATION WorkSpec
CONSTANTS
  Procs = {a, b, c}
  MaxNotes = 2
  MaxFaults = 2
CHECK_DEADLOCK FALSE
SYMMETRY Symmetry
INVARIANTS RefusedLeavesNothing RecordMatchesWorktree LoopHasTask LossNeedsOverlap GoneIsDiscarded
