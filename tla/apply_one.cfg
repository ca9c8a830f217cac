\* One command at a time, under fairness: no symmetry, for ApplySettles.
SPECIFICATION ApplyBackFairSpec
CONSTANTS
  Tasks = {t1}
  Task = t1
  Envelopes = {e1}
  Fingerprints = {}
  PendingIds = {}
  PermitIds = {}
  ClaimIds = {}
  WindowIds = {w1, w2}
  Files = {f1, f2}
  Procs = {a}
  None = None
  MaxSteps = 0
  MaxRevision = 7
  WrittenStates = {}
CHECK_DEADLOCK FALSE
INVARIANTS PatchReadyIsUntouched ApplyingIsRecoverable DiscardedIsGone AppliedAsRecorded
PROPERTIES StepsOfStore AppliedIsComplete ApplySettles
