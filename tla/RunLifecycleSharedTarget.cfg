SPECIFICATION Spec
CONSTANTS
  r1 = r1
  r2 = r2
  t1 = t1
  t2 = t2
  NoRun = NoRun
  Runs = {r1, r2}
  Targets = {t1, t2}
  TargetOf <- Same
  JobLimits = {1, 2}
  QueueMax = 2
  MaxUserOps = 2
  MaxStops = 0
  MaxFaults = 1
  MaxRecoveries = 1
CHECK_DEADLOCK FALSE
SYMMETRY RunSymmetry
INVARIANTS
  OneWriterPerTarget
  SlotsConserved
