CONSTANTS
  Tasks = {t1}
  Fingerprints = {f1, f2}
  Envelopes = {e1}
  PendingIds = {q1, q2}
  PermitIds = {p1, p2}
  WindowIds = {w1, w2}
  ClaimIds = {c1, c2}
  None = None
  MaxSteps = 2
  MaxRevision = 6
  WrittenStates = {"running", "verifying", "succeeded", "error"}
SPECIFICATION Spec
SYMMETRY Symmetry
CHECK_DEADLOCK FALSE
INVARIANTS
  TypeOK
  OneActiveWindow
  BudgetConserved
  PermitBuysOneWindow
  ApprovalBuysOnePermit
  LivePendingIsAwaited
  LivePermitIsUsable
  LiveWindowIsConsistent
  LaunchesAccounted
PROPERTIES
  KeepsOneShotPromise
  WritesAreVersioned
  OvertakenIsDead
