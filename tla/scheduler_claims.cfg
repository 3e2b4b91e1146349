SPECIFICATION Spec
CONSTANTS
  NoTime = NoTime
  Minute = 1
  Sched = {s1}
  Proc = {p1, p2}
  Editor = {e1}
  everyMinute = everyMinute
  everyOther = everyOther
  Cron = {everyMinute}
  Fires <- MCFires
  Starts <- MCNever
  Ends <- MCNever
  Patches <- ClaimPatches
  Keep = Keep
  NoJob = NoJob
  Grace = 0
  BatchSize = 1
  MaxConcurrent = 1
  MaxFailures = 1
  MaxSchedules = 1
  MaxTime = 2
  MaxEdits = 1
  MaxTests = 0
  MaxFaults = 1
  Faults = {"crash", "db"}
INVARIANTS TypeOK NeverSendTwice HistoryTruthful EveryClaimAccounted FailureCountExact
CHECK_DEADLOCK FALSE
SYMMETRY ProcSymmetry
PROPERTY KeepsPromise
