SPECIFICATION Spec
CONSTANTS
  NoTime = NoTime
  Minute = 1
  Sched = {s1}
  Proc = {p1}
  Editor = {e1}
  everyMinute = everyMinute
  everyOther = everyOther
  Cron = {everyMinute}
  Fires <- MCFires
  Starts <- MCNever
  Ends <- MCNever
  Patches <- ClaimPatches
  Keep = Keep
  NoJob = NoJob
  Grace = 1
  BatchSize = 1
  MaxConcurrent = 1
  MaxFailures = 2
  MaxSchedules = 1
  Faults = {}
  MaxTime = 2
  MaxEdits = 1
  MaxTests = 0
  MaxFaults = 0
INVARIANT NeverSendTwiceAtAll
CHECK_DEADLOCK FALSE
