\* Discard over a half-written origin.
SPECIFICATION ApplyBackSpec
CONSTANTS
  Tasks = {t1}
  Task = t1
  Envelopes = {e1}
  Fingerprints = {}
  PendingIds = {}
  PermitIds = {}
  ClaimIds = {}
  WindowIds = {w1, w2}
  Files = {f1, f2}
  Procs = {a}
  None = None
  MaxSteps = 0
  MaxRevision = 7
  WrittenStates = {}
CHECK_DEADLOCK FALSE
SYMMETRY Symmetry
INVARIANT MixedIsReported
