CONSTANTS
  Tasks = {t1}
  Task = t1
  Procs = {a}
  patch = patch
  command = command
  check = check
  look = look
  edit = edit
  leak = leak
  ship = ship
  guess = guess
  Fingerprints = {patch, leak, command, check, guess}
  ActionOf <- Actions
  ProfileIds <- Names
  ArgvOf <- Argvs
  SensorOf <- Junit
  VerifyProfiles <- Both
  Envelopes = {e1}
  PendingIds = {q1}
  PermitIds = {p1, p2, p3}
  WindowIds = {w1, w2, w3}
  ClaimIds = {c1}
  None = None
  MaxSteps = 3
  MaxRevision = 18
  WrittenStates = {"running", "verifying", "succeeded", "failed", "blocked", "unverified", "exhausted", "error", "awaiting_envelope_revision"}
SPECIFICATION LifecycleFairSpec
CHECK_DEADLOCK FALSE
PROPERTIES
  ObeysStore
  SucceededIsVerified
  TerminalIsFinal
  EveryCommandEnds
INVARIANT RunsWhatWasPermitted
