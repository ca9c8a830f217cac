CONSTANTS
  Tasks = {t1}
  Task = t1
  Procs = {a}
  patch = patch
  command = command
  check = check
  look = look
  edit = edit
  leak = leak
  ship = ship
  guess = guess
  Fingerprints = {patch, command}
  ActionOf <- Actions
  ProfileIds <- Names
  ArgvOf <- Argvs
  SensorOf <- Junit
  VerifyProfiles <- Unit
  Envelopes = {e1}
  PendingIds = {q1}
  PermitIds = {p1, p2}
  WindowIds = {w1, w2}
  ClaimIds = {c1}
  None = None
  MaxSteps = 2
  MaxRevision = 20
  WrittenStates = {"running", "verifying", "succeeded", "failed", "blocked", "unverified", "exhausted", "error", "awaiting_envelope_revision"}
SPECIFICATION PatientSpec
CHECK_DEADLOCK FALSE
PROPERTIES
  ApprovedLeavesWaiting
