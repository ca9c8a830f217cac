CONSTANTS
  Tasks = {t1}
  Task = t1
  Procs = {a, b}
  patch = patch
  command = command
  check = check
  look = look
  edit = edit
  leak = leak
  ship = ship
  guess = guess
  Fingerprints = {patch, edit, command, look, ship}
  ActionOf <- Actions
  ProfileIds <- Names
  ArgvOf <- Argvs
  SensorOf <- Code
  VerifyProfiles <- Nothing
  Envelopes = {e1}
  PendingIds = {q1}
  PermitIds = {p1, p2}
  WindowIds = {w1, w2}
  ClaimIds = {c1}
  None = None
  MaxSteps = 2
  MaxRevision = 20
  WrittenStates = {"running", "verifying", "succeeded", "failed", "blocked", "unverified", "exhausted", "error", "awaiting_envelope_revision"}
SPECIFICATION LifecycleSpec
SYMMETRY Symmetry
CHECK_DEADLOCK FALSE
INVARIANTS
  RunsWhatWasPermitted
  WaitingHasQuestion
