SPECIFICATION Spec
CONSTANTS
  NoTime = NoTime
  Minute = 2
  Sched = {s1}
  Proc = {p1}
  Editor = {e1}
  everyMinute = everyMinute
  everyOther = everyOther
  Cron = {everyMinute}
  Fires <- MCFires
  Starts <- MCStarts
  Ends <- MCNever
  Patches <- ClaimPatches
  Keep = Keep
  NoJob = NoJob
  Grace = 1
  BatchSize = 1
  MaxConcurrent = 1
  MaxFailures = 2
  MaxSchedules = 1
  Faults = {}
  MaxTime = 4
  MaxEdits = 0
  MaxTests = 0
  MaxFaults = 0
INVARIANT NeverSendTwice
CHECK_DEADLOCK FALSE
