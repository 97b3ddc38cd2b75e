SPECIFICATION Spec
CONSTANTS
  Source <- MCSource
  Limits = {1, 2, 5}
  LeastLimit = 2
  PageSize = 2
  MaxPassages = 2
  GroupWidth = 2
  Sizes = {1, 2}
  Concurrency = 2
  Tries = 2
  MaxShifts = 2
  LeastBranches = 3
  MostBranches = 3
  ChapterBranches = 2
  MaxChapters = 2
  LeastSections = 2
  MostSections = 5
  Drafts <- MCDrafts
  MaxRounds = 1
  Iterations = {1, 2}
  ReadingErrors = 1
  MaxErrors = 2
  MaxStarts = 3
  MaxEdits = 1
INVARIANTS
  ReadingIsWhole
  EveryBranchHasAPlace
  JoinedIsOrdered
  OutlineWasAgreed
  OutlineIsGrounded
  SettledIsReviewed
  RepairsAreKept
CHECK_DEADLOCK FALSE
