SPECIFICATION Spec
CONSTANTS
  Calls = {c1, c2}
  Loop = loop
  Nobody = nobody
  NoJournal = NoJournal
  Prompts = {p1}
  MaxTokens = 100
  Slots = 1
  Rpm = 2
  Tpm = 80
  Retries = 1
  ContextLimit = 40
  SafetyPercent = 10
  MaxOutput = 4
  Overhead = 5
  SamplesNeeded = 1
  Distrusted = Distrusted
  MaxRequests = 2
  MaxStops = 1
  MaxFaults = 1
  MaxOthers = 1
SYMMETRY CallSymmetry
CHECK_DEADLOCK FALSE
INVARIANTS
  SpendingIsCharged
  SpendingIsBounded
  PermitsConserved
  CachedIsWhole
  NothingIsStuck
PROPERTIES
  StoredMarginGrows
  PackedPasses
