SPECIFICATION Spec
CONSTANTS
  Runs = {r1}
  Target = target
  NoJournal = NoJournal
  MaxEdits = 0
  MaxStarts = 2
  MaxStops = 0
  MaxFaults = 1
CHECK_DEADLOCK FALSE
PROPERTIES
  ConflictIsExternal
