SPECIFICATION FairSpec
CONSTANTS
  r1 = r1
  r2 = r2
  t1 = t1
  t2 = t2
  NoRun = NoRun
  Runs = {r1}
  Targets = {t1, t2}
  TargetOf <- Alone
  JobLimits = {1}
  QueueMax = 2
  MaxUserOps = 2
  MaxStops = 1
  MaxFaults = 1
  MaxRecoveries = 1
CHECK_DEADLOCK FALSE
INVARIANTS
  TypeOK
  CancelExcludesPublication
  FirmCancelStands
  JournalOfThisAttempt
PROPERTIES
  CompletedIsFinal
  LiveStatusIsTheWorkers
  ImplementsAttemptGate
  EveryAttemptLeaves
  TerminalApplied
  CancelIsRecorded
  StartupResumes
