SPECIFICATION FairSpec
CONSTANTS
  Runs = {r1, r2}
  Target = target
  NoJournal = NoJournal
  MaxEdits = 1
  MaxStarts = 2
  MaxStops = 1
  MaxFaults = 1
CHECK_DEADLOCK FALSE
INVARIANTS
  ArtifactsWereWritten
  CompletedIsRecorded
PROPERTIES
  KnownOverwritten
  RecoveredBeforeResumed
  PublishedIsSettled
