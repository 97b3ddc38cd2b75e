SPECIFICATION FairSpec
CONSTANTS
  Runs = {r1, r2}
  Walk <- Files
  Texts <- FileTexts
  Filtered = {"x"}
  MaxConflicts = 1
  MaxStarts = 3
CHECK_DEADLOCK FALSE
INVARIANTS
  ChunksOnce
  NoCircularWait
  GraphsAreOfFiles
PROPERTIES
  IndexingEnds
