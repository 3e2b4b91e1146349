SPECIFICATION LiveSpec
CONSTANTS
  NoTime = NoTime
  Minute = 1
  Sched = {s1, s2}
  Proc = {p1}
  Editor = {e1}
  everyMinute = everyMinute
  everyOther = everyOther
  Cron = {everyMinute}
  Fires <- MCFires
  Starts <- MCNever
  Ends <- MCNever
  Patches <- LoopPatches
  Keep = Keep
  NoJob = NoJob
  Grace = 1
  BatchSize = 2
  MaxConcurrent = 1
  MaxFailures = 2
  MaxSchedules = 2
  Faults = {"crash", "db"}
  MaxTime = 1
  MaxEdits = 0
  MaxTests = 1
  MaxFaults = 1
CHECK_DEADLOCK FALSE
PROPERTIES DueIsServed RunsFinish
