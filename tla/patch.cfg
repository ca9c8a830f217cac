\* One patch of two sections over two files, one kill, one write of another program.
SPECIFICATION PatchSpec
CONSTANTS
  Paths = {a, b}
  Edits = {e1, e2}
  MaxSections = 2
  MaxPatches = 1
  MaxKills = 1
  MaxMeddling = 1
  Absent = Absent
  Torn = Torn
CHECK_DEADLOCK FALSE
SYMMETRY Symmetry
INVARIANTS TypeOK FilesAreOldOrNew TempsAreAccounted DeletionIsAllowed AppliedIsWhole
PROPERTY KeepsPatchPromise
