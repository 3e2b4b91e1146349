SPECIFICATION Spec
CONSTANTS
  NoTime = NoTime
  Minute = 1
  Sched = {s1}
  Proc = {p1}
  Editor = {e1}
  everyMinute = everyMinute
  everyOther = everyOther
  Cron = {everyMinute}
  Fires <- MCFires
  Starts <- MCNever
  Ends <- MCEnds
  Patches <- LoopPatches
  Keep = Keep
  NoJob = NoJob
  Grace = 0
  BatchSize = 1
  MaxConcurrent = 1
  MaxFailures = 2
  MaxSchedules = 1
  Faults = {"crash", "stop", "db"}
  MaxTime = 2
  MaxEdits = 2
  MaxTests = 0
  MaxFaults = 1
INVARIANTS FailureCountExact NeverStranded
CHECK_DEADLOCK FALSE
