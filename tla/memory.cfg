\* Two repositories, three records, one summary kept for one tick.
SPECIFICATION MemorySpec
CONSTANTS
  Ids = {1, 2, 3}
  Repos = {r1, r2}
  Drafts <- MCDrafts
  Queries <- MCQueries
  None = None
  MaxSummaries = 1
  MaxAge = 1
  MaxTime = 2
CHECK_DEADLOCK FALSE
SYMMETRY Symmetry
INVARIANTS SupersededByOne AnswerIsBest
PROPERTY OnlyStaleSummariesGo
