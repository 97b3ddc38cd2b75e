SPECIFICATION Spec
CONSTANTS
  LeafCount = 3
  SectionCount = 3
  Scores = {0, 1}
  Attempts = 3
  MaxParts = 2
  Given = {0, 2}
  Passages = {p}
  Cuts = {0, 1}
  Found = {1}
  Cited = {1}
  MaxStrays = 1
  MaxAnswers = 3
  MaxStops = 1
CHECK_DEADLOCK FALSE
INVARIANTS
  OwnedOnce
  SectionIsSound
  RejectedStaysOut
