--------------------------- MODULE AccountingProofs ---------------------------
(***************************************************************************)
(* What the run history and the failure counter say of the scheduler, for  *)
(* any number of schedules, processes, occurrences and faults.             *)
(*                                                                         *)
(* A tick handles a schedule once: as a row it has yet to claim, as the    *)
(* row in hand, or as a run, and never as two of them (TickGood).  So      *)
(* nothing it starts overwrites a run whose end is not recorded, and a     *)
(* copy of the failure counter is not used twice.                          *)
(***************************************************************************)
EXTENDS SchedulerProofs

\* A tick k and the runs r it has started.
TickGood(k, r) ==
  /\ k.st \in {"idle", "listing"} => \A s \in Sched : r[s].st = "none"
  /\ k.st \in {"claiming", "retiring", "settling"} =>
       \A s \in Sched : r[s].st \in {"none", "appended"}
  /\ \A j \in k.todo : r[j.sid].st = "none"
  /\ k.cur # NoJob => /\ r[k.cur.sid].st = "none"
                      /\ \A j \in k.todo : j.sid # k.cur.sid
  /\ \A i, j \in k.todo : i.sid = j.sid => i = j

TicksGood == \A p \in Proc : TickGood(tick[p], run[p])

-----------------------------------------------------------------------------
(* What each step of a tick does to it.                                    *)

LEMMA TickValues ==
  ASSUME TypeOK, JobsInHand, NEW p \in Proc
  PROVE  /\ tick[p] \in TickType /\ run[p] \in [Sched -> RunType]
         /\ tick[p].todo \subseteq Job /\ tick[p].cur \in Job \cup {NoJob}
         /\ tick[p].st \in {"retiring", "settling"} <=> tick[p].cur # NoJob
         /\ tick[p].st \in {"idle", "listing", "running"} => tick[p].todo = {}
         /\ \A j \in tick[p].todo : j \in Job /\ j.sid \in Sched /\ j # NoJob
         /\ tick[p].cur # NoJob => tick[p].cur \in Job /\ tick[p].cur.sid \in Sched
  BY TickFields, SchedulerAssumption DEF TypeOK, JobsInHand, HeldOK, Job

\* Nothing but its own steps changes what a process has in memory.
LEMMA OthersApart ==
  ASSUME TypeOK, [Next]_vars, NEW p \in Proc
  PROVE  \/ tick'[p] = tick[p] /\ run'[p] = run[p]
         \/ TickStep(p) \/ Crash(p) \/ Shutdown(p)
         \/ \E s \in Sched : RunStep(p, s) /\ tick' = tick
<1> DEFINE Apart == tick'[p] = tick[p] /\ run'[p] = run[p]
<1>1. ASSUME NEW e \in Editor, EditStep(e) PROVE Apart
  BY <1>1 DEF EditStep, BeginCreate, FinishCreate, BeginPatch, FinishPatch
<1>2. ASSUME NEW q \in Proc, q # p, TickStep(q) PROVE Apart
  <2>1. tick \in [Proc -> TickType] /\ run \in [Proc -> [Sched -> RunType]]
    BY DEF TypeOK
  <2>2. CASE TickStart(q) \/ ListFailed(q) \/ TickEnd(q) \/ Retire(q)
    BY <1>2, <2>1, <2>2 DEF TickStart, ListFailed, TickEnd, Retire
  <2>3. CASE SkipMisfire(q) \/ AppendRun(q) \/ StartRuns(q)
    BY <1>2, <2>1, <2>3 DEF SkipMisfire, AppendRun, StartRuns
  <2>4. CASE ListDue(q)
    BY <1>2, <2>1, <2>4 DEF ListDue
  <2>5. CASE ClaimWon(q)
    BY <1>2, <2>1, <2>5 DEF ClaimWon
  <2>6. CASE ClaimLost(q) \/ ClaimFailed(q)
    BY <1>2, <2>1, <2>6 DEF ClaimLost, ClaimFailed
  <2>7. QED
    BY <1>2, <2>2, <2>3, <2>4, <2>5, <2>6 DEF TickStep
<1>3. ASSUME NEW q \in Proc, q # p, Crash(q) \/ Shutdown(q) PROVE Apart
  BY <1>3 DEF Crash, Shutdown, Forget, TypeOK
<1>4. ASSUME NEW q \in Proc, NEW s \in Sched, RunStep(q, s) PROVE tick' = tick
  BY <1>4 DEF RunStep, RunAcquire, RunDeliver, RunEnd, RunRecord, RunWriteBack
<1>5. ASSUME NEW q \in Proc, q # p, NEW s \in Sched, RunStep(q, s) PROVE Apart
  <2>1. run'[p] = run[p]
    BY <1>5 DEF RunStep, RunAcquire, RunDeliver, RunEnd, RunRecord, RunWriteBack, TypeOK
  <2>2. QED
    BY <1>4, <1>5, <2>1
<1>6. ASSUME NEW q \in Proc, NEW s \in Sched, TestStep(q, s) PROVE Apart
  BY <1>6 DEF TestStep, BeginTest, AcquireTest, EndTest
<1>7. CASE Pass \/ UNCHANGED vars \/ \E s \in Sched : Delete(s)
  BY <1>7 DEF Pass, vars, Delete
<1>8. QED
  BY <1>1, <1>2, <1>3, <1>4, <1>5, <1>6, <1>7 DEF Next

\* The forms a step of a tick can take.
LEMMA TickForms ==
  ASSUME TypeOK, JobsInHand, NEW p \in Proc, TickStep(p)
  PROVE  \/ /\ tick[p].cur = NoJob /\ tick'[p].cur = NoJob
            /\ tick[p].st = "idle" /\ tick'[p].st = "listing"
            /\ tick'[p].todo = {} /\ run' = run
         \/ /\ tick[p].st \in {"listing", "running"} /\ tick'[p] = IdleTick /\ run' = run
            /\ tick[p].st = "running" => \A s \in Sched : run[p][s] = NoRun
         \/ /\ tick[p].st = "listing" /\ tick'[p].st = "claiming" /\ run' = run
            /\ tick[p].cur = NoJob /\ tick'[p].cur = NoJob
            /\ \E batch \in SUBSET live :
                 tick'[p].todo = {[sid |-> s, row |-> row[s]] : s \in batch}
         \/ /\ tick[p].st = "claiming" /\ tick'[p].st \in {"retiring", "settling"}
            /\ tick'[p].cur \in tick[p].todo
            /\ tick'[p].todo = tick[p].todo \ {tick'[p].cur} /\ run' = run
         \/ /\ tick[p].st = "claiming" /\ tick'[p].st = "claiming"
            /\ tick'[p].cur = tick[p].cur /\ tick'[p].todo \subseteq tick[p].todo
            /\ run' = run
         \/ /\ tick[p].st = "retiring" /\ tick'[p].st = "settling"
            /\ tick'[p].cur = tick[p].cur /\ tick'[p].todo = tick[p].todo /\ run' = run
         \/ /\ SkipMisfire(p)
            /\ tick[p].st = "settling" /\ tick'[p].st = "claiming"
            /\ tick'[p].cur = NoJob /\ tick'[p].todo = tick[p].todo /\ run' = run
         \/ /\ AppendRun(p)
            /\ tick[p].st = "settling" /\ tick'[p].st = "claiming"
            /\ tick'[p].cur = NoJob /\ tick'[p].todo = tick[p].todo
            /\ run'[p] = [run[p] EXCEPT ![tick[p].cur.sid] =
                 [st |-> "appended", slot |-> tick[p].cur.row.next,
                  failures |-> tick[p].cur.row.failures, status |-> "failed"]]
         \/ /\ tick[p].st = "claiming" /\ tick'[p].st = "running"
            /\ tick[p].cur = NoJob /\ tick'[p].cur = NoJob
            /\ tick[p].todo = {} /\ tick'[p].todo = {}
            /\ run'[p] = [s \in Sched |-> IF run[p][s].st = "appended"
                 THEN [run[p][s] EXCEPT !.st = "queued"] ELSE run[p][s]]
<1>0. /\ tick \in [Proc -> TickType] /\ run \in [Proc -> [Sched -> RunType]]
      /\ tick[p] \in TickType
  BY DEF TypeOK
<1>1. CASE TickStart(p)
  <2>1. tick'[p] = [tick[p] EXCEPT !.st = "listing", !.moment = now] /\ run' = run
          /\ tick[p].st = "idle"
    BY <1>0, <1>1 DEF TickStart
  <2>2. QED
    BY <1>0, <2>1, TickValues DEF TickType
<1>2. CASE ListFailed(p) \/ TickEnd(p)
  BY <1>0, <1>2 DEF ListFailed, TickEnd
<1>3. CASE ListDue(p)
  <2>1. CASE tick' = [tick EXCEPT ![p] = IdleTick]
    BY <1>0, <1>3, <2>1 DEF ListDue
  <2>2. CASE \E batch \in SUBSET Due(tick[p].moment) :
               tick' = [tick EXCEPT ![p].st = "claiming",
                          ![p].todo = {[sid |-> s, row |-> row[s]] : s \in batch}]
    <3>1. PICK batch \in SUBSET Due(tick[p].moment) :
            tick' = [tick EXCEPT ![p].st = "claiming",
                       ![p].todo = {[sid |-> s, row |-> row[s]] : s \in batch}]
      BY <2>2
    <3> DEFINE listed == {[sid |-> s, row |-> row[s]] : s \in batch}
    <3>2. batch \in SUBSET live
      BY DEF Due
    <3>3. tick' = [tick EXCEPT ![p].st = "claiming", ![p].todo = listed]
      BY <3>1
    <3>4. tick[p].st = "listing" /\ run' = run /\ tick[p].cur = NoJob
      BY <1>3, TickValues DEF ListDue
    <3> HIDE DEF listed
    <3>5. tick'[p] = [tick[p] EXCEPT !.st = "claiming", !.todo = listed]
      BY <1>0, <3>3
    <3>6. tick'[p].st = "claiming" /\ tick'[p].cur = tick[p].cur /\ tick'[p].todo = listed
      BY <1>0, <3>5 DEF TickType
    <3>7. QED
      BY <3>2, <3>4, <3>6 DEF listed
  <2>3. QED
    BY <1>3, <2>1, <2>2 DEF ListDue
<1>4. CASE ClaimWon(p)
  <2>1. PICK j \in tick[p].todo, st \in {"retiring", "settling"} :
          tick' = [tick EXCEPT ![p].st = st, ![p].todo = @ \ {j}, ![p].cur = j]
    BY <1>4 DEF ClaimWon
  <2>2. tick'[p] = [tick[p] EXCEPT !.st = st, !.todo = @ \ {j}, !.cur = j]
    BY <1>0, <2>1
  <2>3. tick'[p].st = st /\ tick'[p].cur = j /\ tick'[p].todo = tick[p].todo \ {j}
    BY <1>0, <2>2 DEF TickType
  <2>4. tick[p].st = "claiming" /\ run' = run
    BY <1>4 DEF ClaimWon, NextJob
  <2>5. QED
    BY <2>3, <2>4
<1>5. CASE ClaimLost(p) \/ ClaimFailed(p)
  <2>1. PICK j \in tick[p].todo : tick' = [tick EXCEPT ![p].todo = @ \ {j}]
    BY <1>5 DEF ClaimLost, ClaimFailed
  <2>2. tick'[p] = [tick[p] EXCEPT !.todo = @ \ {j}]
    BY <1>0, <2>1
  <2>3. /\ tick'[p].st = tick[p].st /\ tick'[p].cur = tick[p].cur
        /\ tick'[p].todo = tick[p].todo \ {j}
    BY <1>0, <2>2 DEF TickType
  <2>4. tick[p].st = "claiming" /\ run' = run
    BY <1>5 DEF ClaimLost, ClaimFailed, NextJob
  <2>5. QED
    BY <2>3, <2>4
<1>6. CASE Retire(p)
  <2>1. tick'[p] = [tick[p] EXCEPT !.st = "settling"]
    BY <1>0, <1>6 DEF Retire
  <2>2. tick[p].st = "retiring" /\ run' = run
    BY <1>6 DEF Retire
  <2>3. QED
    BY <1>0, <2>1, <2>2 DEF TickType
<1>7. CASE SkipMisfire(p) \/ AppendRun(p)
  <2>1. tick'[p] = [tick[p] EXCEPT !.st = "claiming", !.cur = NoJob]
          /\ tick[p].st = "settling"
    BY <1>0, <1>7 DEF SkipMisfire, AppendRun
  <2>2. /\ tick'[p].st = "claiming" /\ tick'[p].cur = NoJob
        /\ tick'[p].todo = tick[p].todo
    BY <1>0, <2>1 DEF TickType
  <2>3. SkipMisfire(p) => run' = run
    BY DEF SkipMisfire
  <2>4. AppendRun(p) => run'[p] = [run[p] EXCEPT ![tick[p].cur.sid] =
                 [st |-> "appended", slot |-> tick[p].cur.row.next,
                  failures |-> tick[p].cur.row.failures, status |-> "failed"]]
    BY <1>0 DEF AppendRun
  <2>5. QED
    BY <1>7, <2>1, <2>2, <2>3, <2>4
<1>8. CASE StartRuns(p)
  <2>1. /\ tick'[p] = [tick[p] EXCEPT !.st = "running"]
        /\ tick[p].st = "claiming" /\ tick[p].todo = {}
        /\ run'[p] = [s \in Sched |-> IF run[p][s].st = "appended"
             THEN [run[p][s] EXCEPT !.st = "queued"] ELSE run[p][s]]
    BY <1>0, <1>8 DEF StartRuns
  <2>2. /\ tick'[p].st = "running" /\ tick'[p].cur = tick[p].cur
        /\ tick'[p].todo = tick[p].todo
    BY <1>0, <2>1 DEF TickType
  <2>3. tick[p].cur = NoJob
    BY <2>1, TickValues
  <2>4. QED
    BY <2>1, <2>2, <2>3
<1>9. QED
  BY <1>1, <1>2, <1>3, <1>4, <1>5, <1>6, <1>7, <1>8 DEF TickStep

\* The forms a step of a run can take.
LEMMA RunForms ==
  ASSUME TypeOK, NEW p \in Proc, NEW s \in Sched, RunStep(p, s)
  PROVE  /\ tick' = tick
         /\ run[p][s].st \notin {"none", "appended"}
         /\ \A u \in Sched \ {s} : run'[p][u] = run[p][u]
         /\ \/ /\ RunWriteBack(p, s)
               /\ run[p][s].st = "writing" /\ run'[p][s] = NoRun
            \/ /\ run'[p][s].slot = run[p][s].slot
               /\ run'[p][s].failures = run[p][s].failures
               /\ \/ RunAcquire(p, s) /\ run'[p][s].st = "executing"
                  \/ RunDeliver(p, s) /\ run'[p][s].st = "delivered"
                  \/ /\ RunEnd(p, s) /\ run'[p][s].st = "recording"
                     /\ run'[p][s].status \in Outcome(run[p][s].st)
                  \/ RunRecord(p, s) /\ run'[p][s].st = "writing"
<1>1. tick' = tick /\ run[p][s].st \notin {"none", "appended"}
  BY DEF RunStep, RunAcquire, RunDeliver, RunEnd, RunRecord, RunWriteBack
<1>2. run[p][s] \in Begun /\ run \in [Proc -> [Sched -> RunType]]
  BY <1>1, BegunType DEF TypeOK
<1>3. \A u \in Sched \ {s} : run'[p][u] = run[p][u]
  BY <1>2 DEF RunStep, RunAcquire, RunDeliver, RunEnd, RunRecord, RunWriteBack
<1>4. CASE RunAcquire(p, s)
  <2>1. run'[p][s] = [run[p][s] EXCEPT !.st = "executing"]
    BY <1>2, <1>4 DEF RunAcquire
  <2>2. QED
    BY <1>1, <1>2, <1>3, <1>4, <2>1 DEF Begun
<1>5. CASE RunDeliver(p, s)
  <2>1. run'[p][s] = [run[p][s] EXCEPT !.st = "delivered"]
    BY <1>2, <1>5 DEF RunDeliver
  <2>2. QED
    BY <1>1, <1>2, <1>3, <1>5, <2>1 DEF Begun
<1>6. CASE RunEnd(p, s)
  <2>1. PICK status \in Outcome(run[p][s].st) :
          run' = [run EXCEPT ![p][s].st = "recording", ![p][s].status = status]
    BY <1>6 DEF RunEnd
  <2>2. run'[p][s] = [run[p][s] EXCEPT !.st = "recording", !.status = status]
    BY <1>2, <2>1
  <2>3. QED
    BY <1>1, <1>2, <1>3, <1>6, <2>2 DEF Begun
<1>7. CASE RunRecord(p, s)
  <2>1. run'[p][s] = [run[p][s] EXCEPT !.st = "writing"]
    BY <1>2, <1>7 DEF RunRecord
  <2>2. QED
    BY <1>1, <1>2, <1>3, <1>7, <2>1 DEF Begun
<1>8. CASE RunWriteBack(p, s)
  <2>1. run'[p][s] = NoRun /\ run[p][s].st = "writing"
    BY <1>2, <1>8 DEF RunWriteBack
  <2>2. QED
    BY <1>1, <1>3, <1>8, <2>1
<1>9. QED
  BY <1>4, <1>5, <1>6, <1>7, <1>8 DEF RunStep

-----------------------------------------------------------------------------
(* A tick handles a schedule once.                                         *)

LEMMA TicksGoodInit == Init => TicksGood
  BY DEF Init, TicksGood, TickGood, IdleTick, NoRun

LEMMA TickStepGood ==
  ASSUME TypeOK, JobsInHand, NEW p \in Proc, TickGood(tick[p], run[p]), TickStep(p)
  PROVE  TickGood(tick'[p], run'[p])
<1>1. /\ run[p] \in [Sched -> RunType]
      /\ tick[p].todo \subseteq Job /\ tick[p].cur \in Job \cup {NoJob}
      /\ \A j \in tick[p].todo : j.sid \in Sched /\ j # NoJob
      /\ tick[p].cur # NoJob => tick[p].cur.sid \in Sched
      /\ tick[p].st \in {"retiring", "settling"} <=> tick[p].cur # NoJob
      /\ tick[p].st \in {"idle", "listing", "running"} => tick[p].todo = {}
  BY TickValues
<1> DEFINE Started == /\ tick[p].st = "idle" /\ tick'[p].st = "listing"
                      /\ tick'[p].todo = {} /\ tick'[p].cur = NoJob /\ run' = run
           Over == /\ tick[p].st \in {"listing", "running"} /\ tick'[p] = IdleTick /\ run' = run
                   /\ tick[p].st = "running" => \A s \in Sched : run[p][s] = NoRun
           Listed == /\ tick[p].st = "listing" /\ tick'[p].st = "claiming" /\ run' = run
                     /\ tick'[p].cur = NoJob
                     /\ \E batch \in SUBSET live :
                          tick'[p].todo = {[sid |-> s, row |-> row[s]] : s \in batch}
           Taken == /\ tick[p].st = "claiming" /\ tick'[p].st \in {"retiring", "settling"}
                    /\ tick'[p].cur \in tick[p].todo
                    /\ tick'[p].todo = tick[p].todo \ {tick'[p].cur} /\ run' = run
           Passed == /\ tick[p].st = "claiming" /\ tick'[p].st = "claiming"
                     /\ tick'[p].cur = tick[p].cur /\ tick'[p].todo \subseteq tick[p].todo
                     /\ run' = run
           Retired == /\ tick[p].st = "retiring" /\ tick'[p].st = "settling"
                      /\ tick'[p].cur = tick[p].cur /\ tick'[p].todo = tick[p].todo /\ run' = run
           Settled == /\ tick[p].st = "settling" /\ tick'[p].st = "claiming"
                      /\ tick'[p].cur = NoJob /\ tick'[p].todo = tick[p].todo /\ run' = run
           Appended == /\ tick[p].st = "settling" /\ tick'[p].st = "claiming"
                       /\ tick'[p].cur = NoJob /\ tick'[p].todo = tick[p].todo
                       /\ run'[p] = [run[p] EXCEPT ![tick[p].cur.sid] =
                            [st |-> "appended", slot |-> tick[p].cur.row.next,
                             failures |-> tick[p].cur.row.failures, status |-> "failed"]]
           Closed == /\ tick[p].st = "claiming" /\ tick'[p].st = "running"
                     /\ tick'[p].cur = NoJob /\ tick'[p].todo = {}
<1>2. CASE Started
  BY <1>2 DEF TickGood
<1>3. CASE Over
  BY <1>3 DEF TickGood, IdleTick, NoRun
<1>4. CASE Listed
  <2>1. PICK batch \in SUBSET live :
          tick'[p].todo = {[sid |-> s, row |-> row[s]] : s \in batch}
    BY <1>4
  <2>2. \A s \in Sched : run'[p][s].st = "none"
    BY <1>4 DEF TickGood
  <2>3. \A j \in tick'[p].todo : j.sid \in Sched /\ j = [sid |-> j.sid, row |-> row[j.sid]]
    BY <2>1 DEF TypeOK
  <2>4. QED
    BY <1>4, <2>2, <2>3 DEF TickGood
<1>5. CASE Taken
  BY <1>1, <1>5 DEF TickGood
<1>6. CASE Passed
  BY <1>1, <1>6 DEF TickGood
<1>7. CASE Retired
  BY <1>1, <1>7 DEF TickGood
<1>8. CASE Settled
  BY <1>1, <1>8 DEF TickGood
<1>9. CASE Appended
  <2>1. \A s \in Sched : s # tick[p].cur.sid => run'[p][s] = run[p][s]
    BY <1>1, <1>9
  <2>2. tick[p].cur.sid \in Sched /\ run'[p][tick[p].cur.sid].st = "appended"
    BY <1>1, <1>9
  <2>3. \A s \in Sched : run'[p][s].st \in {"none", "appended"}
    BY <1>9, <2>1, <2>2 DEF TickGood
  <2>4. \A j \in tick'[p].todo : run'[p][j.sid].st = "none"
    BY <1>1, <1>9, <2>1 DEF TickGood
  <2>5. QED
    BY <1>9, <2>3, <2>4 DEF TickGood
<1>10. CASE Closed
  BY <1>10 DEF TickGood
<1>11. \/ Started \/ Over \/ Listed \/ Taken \/ Passed
       \/ Retired \/ Settled \/ Appended \/ Closed
  BY TickForms
<1> HIDE DEF Started, Over, Listed, Taken, Passed, Retired, Settled, Appended, Closed
<1>12. QED
  BY <1>2, <1>3, <1>4, <1>5, <1>6, <1>7, <1>8, <1>9, <1>10, <1>11

LEMMA Forgotten ==
  ASSUME TypeOK, NEW p \in Proc, Crash(p) \/ Shutdown(p)
  PROVE  tick'[p] = IdleTick /\ \A s \in Sched : run'[p][s] = NoRun
  BY DEF Crash, Shutdown, Forget, TypeOK

LEMMA TicksGoodStep ==
  ASSUME TypeOK, JobsInHand, TicksGood, [Next]_vars PROVE TicksGood'
<1> SUFFICES ASSUME NEW p \in Proc PROVE TickGood(tick'[p], run'[p])
  BY DEF TicksGood
<1>1. TickGood(tick[p], run[p])
  BY DEF TicksGood
<1>2. CASE tick'[p] = tick[p] /\ run'[p] = run[p]
  BY <1>1, <1>2
<1>3. CASE TickStep(p)
  BY <1>1, <1>3, TickStepGood
<1>4. CASE Crash(p) \/ Shutdown(p)
  BY <1>4, Forgotten DEF TickGood, IdleTick, NoRun
<1>5. ASSUME NEW s \in Sched, RunStep(p, s) PROVE TickGood(tick'[p], run'[p])
  <2>1. tick' = tick /\ run[p][s].st \notin {"none", "appended"}
    BY <1>5, RunForms
  <2>2. tick[p].st = "running"
    BY <1>1, <2>1 DEF TickGood, TypeOK, TickType
  <2>3. tick[p].todo = {} /\ tick[p].cur = NoJob
    BY <2>2, TickValues
  <2>4. QED
    BY <2>1, <2>2, <2>3 DEF TickGood
<1>6. QED
  BY <1>2, <1>3, <1>4, <1>5, OthersApart

-----------------------------------------------------------------------------
(* What reaches the run history.                                           *)

(* Only a run's own record adds a success; a misfire and a shutdown add    *)
(* rows that say the occurrence was skipped or failed.                     *)
LEMMA LogForms ==
  ASSUME TypeOK, JobsInHand, [Next]_vars, NEW s \in Sched, NEW x \in logged'[s]
  PROVE  \/ x \in logged[s] \/ x[2] \in {"skipped", "failed"}
         \/ \E p \in Proc : RunRecord(p, s) /\ x = <<run[p][s].slot, run[p][s].status>>
<1> DEFINE Old == x \in logged[s]
<1>1. CASE logged' = logged
  BY <1>1
<1>2. ASSUME NEW u \in Sched, Delete(u) PROVE Old
  BY <1>2 DEF Delete, TypeOK
<1>3. ASSUME NEW p \in Proc, SkipMisfire(p) PROVE Old \/ x[2] = "skipped"
  <2>1. \/ logged' = logged
        \/ logged' = [logged EXCEPT ![tick[p].cur.sid] =
                       @ \cup {<<tick[p].cur.row.next, "skipped">>}]
    BY <1>3 DEF SkipMisfire, Record
  <2>2. PICK u \in Sched : u = tick[p].cur.sid
    BY <1>3, CurFields DEF SkipMisfire
  <2>3. PICK y : y = <<tick[p].cur.row.next, "skipped">>
    OBVIOUS
  <2>4. logged' = logged \/ logged' = [logged EXCEPT ![u] = @ \cup {y}]
    BY <2>1, <2>2, <2>3
  <2>5. logged'[s] = logged[s] \/ logged'[s] = logged[s] \cup {y}
    BY <2>4 DEF TypeOK
  <2>6. QED
    BY <2>3, <2>5
<1>4. ASSUME NEW p \in Proc, Shutdown(p) PROVE Old \/ x[2] = "failed"
  BY <1>4 DEF Shutdown
<1>5. ASSUME NEW p \in Proc, NEW u \in Sched, RunRecord(p, u)
      PROVE  Old \/ (u = s /\ x = <<run[p][u].slot, run[p][u].status>>)
  <2>1. \/ logged' = logged
        \/ logged' = [logged EXCEPT ![u] = @ \cup {<<run[p][u].slot, run[p][u].status>>}]
    BY <1>5 DEF RunRecord, Record
  <2>2. PICK y : y = <<run[p][u].slot, run[p][u].status>>
    OBVIOUS
  <2>3. logged' = logged \/ logged' = [logged EXCEPT ![u] = @ \cup {y}]
    BY <2>1, <2>2
  <2>4. logged'[s] = logged[s] \/ (u = s /\ logged'[s] = logged[s] \cup {y})
    BY <2>3 DEF TypeOK
  <2>5. QED
    BY <2>2, <2>4
<1>6. ASSUME NEW e \in Editor, EditStep(e) PROVE logged' = logged
  BY <1>6 DEF EditStep, BeginCreate, FinishCreate, BeginPatch, FinishPatch
<1>7. ASSUME NEW p \in Proc, TickStep(p) PROVE logged' = logged \/ SkipMisfire(p)
  BY <1>7 DEF TickStep, TickStart, ListDue, ListFailed, ClaimWon, ClaimLost, ClaimFailed,
     Retire, AppendRun, StartRuns, TickEnd
<1>8. ASSUME NEW p \in Proc, NEW u \in Sched, RunStep(p, u)
      PROVE  logged' = logged \/ RunRecord(p, u)
  BY <1>8 DEF RunStep, RunAcquire, RunDeliver, RunEnd, RunWriteBack
<1>9. ASSUME NEW p \in Proc, NEW u \in Sched, TestStep(p, u) PROVE logged' = logged
  BY <1>9 DEF TestStep, BeginTest, AcquireTest, EndTest
<1>10. CASE \E p \in Proc : Crash(p)
  BY <1>1, <1>10 DEF Crash
<1>11. CASE Pass \/ UNCHANGED vars
  BY <1>1, <1>11 DEF Pass, vars
<1>12. QED
  BY <1>1, <1>2, <1>3, <1>4, <1>5, <1>6, <1>7, <1>8, <1>9, <1>10, <1>11 DEF Next

\* A run that is about to be called a success has sent its mail.
Delivered(r, s) ==
  r.st = "delivered" \/ (r.st = "recording" /\ r.status = "success") => sent[s][r.slot] > 0

TruthInv == HistoryTruthful /\ \A p \in Proc, s \in Sched : Delivered(run[p][s], s)

LEMMA SentGrows ==
  ASSUME TypeOK, [Next]_vars, NEW s \in Sched, NEW t \in Slot, sent[s][t] > 0
  PROVE  sent'[s][t] > 0
<1>1. CASE sent' = sent
  BY <1>1
<1>2. ASSUME NEW p \in Proc, NEW u \in Sched, RunDeliver(p, u) PROVE sent'[s][t] > 0
  <2>1. sent' = [sent EXCEPT ![u][run[p][u].slot] = @ + 1] /\ sent[s][t] \in Nat
    BY <1>2 DEF RunDeliver, TypeOK
  <2>2. sent'[s][t] \in {sent[s][t], sent[s][t] + 1}
    BY <2>1 DEF TypeOK
  <2>3. QED
    BY <2>1, <2>2
<1>3. QED
  BY <1>1, <1>2, CountersKept

LEMMA TruthStep ==
  ASSUME TypeOK, JobsInHand, TruthInv, [Next]_vars PROVE TruthInv'
<1>1. HistoryTruthful'
  <2> SUFFICES ASSUME NEW s \in Sched, NEW t \in Slot, <<t, "success">> \in logged'[s]
               PROVE  sent'[s][t] > 0
    BY DEF HistoryTruthful
  <2>1. CASE <<t, "success">> \in logged[s]
    BY <2>1, SentGrows DEF TruthInv, HistoryTruthful
  <2>2. ASSUME NEW p \in Proc, RunRecord(p, s),
               <<t, "success">> = <<run[p][s].slot, run[p][s].status>>
        PROVE  sent'[s][t] > 0
    <3>1. run[p][s].st = "recording" /\ run[p][s].status = "success" /\ run[p][s].slot = t
      BY <2>2 DEF RunRecord
    <3>2. QED
      BY <3>1, SentGrows DEF TruthInv, Delivered
  <2>3. QED
    BY <2>1, <2>2, LogForms
<1>2. ASSUME NEW p \in Proc, NEW s \in Sched PROVE Delivered(run[p][s], s)'
  <2>1. Delivered(run[p][s], s) /\ run[p][s] \in RunType
    BY DEF TruthInv, TypeOK
  <2>2. CASE run'[p][s] = run[p][s]
    <3>1. run[p][s].st # "none" => run[p][s].slot \in Slot
      BY <2>1 DEF RunType, NoRun
    <3>2. QED
      BY <2>1, <2>2, <3>1, SentGrows DEF Delivered
  <2>3. CASE run'[p][s].st \in {"none", "appended", "queued", "executing", "writing"}
    BY <2>3 DEF Delivered
  <2>4. CASE TickStep(p)
    <3>1. CASE run' = run
      BY <2>2, <3>1
    <3>2. CASE AppendRun(p)
      <4>1. run'[p][s] # run[p][s] => run'[p][s].st = "appended"
        BY <3>2 DEF AppendRun, TypeOK
      <4>2. QED
        BY <2>2, <2>3, <4>1
    <3>3. CASE StartRuns(p)
      <4>1. run'[p][s] = IF run[p][s].st = "appended"
              THEN [run[p][s] EXCEPT !.st = "queued"] ELSE run[p][s]
        BY <3>3 DEF StartRuns, TypeOK
      <4>2. run[p][s].st = "appended" => run'[p][s].st = "queued"
        BY <2>1, <4>1, BegunType DEF Begun
      <4>3. QED
        BY <2>2, <2>3, <4>1, <4>2
    <3>4. QED
      BY <2>4, <3>1, <3>2, <3>3 DEF TickStep, TickStart, ListDue, ListFailed, ClaimWon,
         ClaimLost, ClaimFailed, Retire, SkipMisfire, TickEnd
  <2>5. CASE Crash(p) \/ Shutdown(p)
    BY <2>3, <2>5, Forgotten DEF NoRun
  <2>6. ASSUME NEW u \in Sched, RunStep(p, u) PROVE Delivered(run[p][s], s)'
    <3>1. CASE u # s
      BY <2>2, <2>6, <3>1, RunForms
    <3>2. CASE RunDeliver(p, s) /\ run'[p][s].st = "delivered"
                 /\ run'[p][s].slot = run[p][s].slot
      <4>1. run[p][s].slot \in Slot
        BY <3>2, RunFields DEF RunDeliver
      <4>2. sent'[s][run[p][s].slot] = sent[s][run[p][s].slot] + 1
              /\ sent[s][run[p][s].slot] \in Nat
        BY <3>2, <4>1 DEF RunDeliver, TypeOK
      <4>3. QED
        BY <3>2, <4>2 DEF Delivered
    <3>3. CASE /\ RunEnd(p, s) /\ run'[p][s].st = "recording"
               /\ run'[p][s].slot = run[p][s].slot
               /\ run'[p][s].status \in Outcome(run[p][s].st)
      <4>1. run'[p][s].status = "success" => run[p][s].st = "delivered"
        BY <3>3 DEF Outcome
      <4>2. sent' = sent
        BY <3>3 DEF RunEnd, history
      <4>3. QED
        BY <2>1, <3>3, <4>1, <4>2 DEF Delivered
    <3>4. QED
      BY <2>3, <2>6, <3>1, <3>2, <3>3, RunForms DEF NoRun
  <2>7. QED
    BY <2>2, <2>4, <2>5, <2>6, OthersApart
<1>3. QED
  BY <1>1, <1>2 DEF TruthInv

(* A run the history calls a success did hand its mail to the provider:    *)
(* the row is written by the run that sent it, after it sent it.           *)
THEOREM TruthfulHistory == Spec => []HistoryTruthful
<1>1. Init => TruthInv
  BY DEF Init, TruthInv, HistoryTruthful, Delivered, NoRun
<1>2. TypeOK /\ JobsInHand /\ TruthInv /\ [Next]_vars => TruthInv'
  BY TruthStep
<1>3. TruthInv => HistoryTruthful
  BY DEF TruthInv
<1>4. QED
  BY <1>1, <1>2, <1>3, TypeCorrect, PTL DEF Spec

-----------------------------------------------------------------------------
(* What becomes of an occurrence that was claimed.                         *)

AccountInv == FreshUnclaimed /\ TicksGood /\ EveryClaimAccounted

\* Rows stay in the history while their schedule does, and a loss is a loss.
LEMMA LogKept ==
  ASSUME TypeOK, JobsInHand, [Next]_vars, NEW s \in Sched, s \in live'
  PROVE  /\ s \in live \/ s \in fresh
         /\ logged[s] \subseteq logged'[s]
         /\ dropped[s] \subseteq dropped'[s]
<1> DEFINE Kept == logged[s] \subseteq logged'[s] /\ dropped[s] \subseteq dropped'[s]
           Known == s \in live \/ s \in fresh
<1>1. ASSUME NEW u \in Sched, NEW t, NEW status, Record(u, t, status) PROVE Kept
  <2>1. logged' = logged \/ logged' = [logged EXCEPT ![u] = @ \cup {<<t, status>>}]
    BY <1>1 DEF Record
  <2>2. dropped' = dropped \/ dropped' = [dropped EXCEPT ![u] = @ \cup {t}]
    BY <1>1 DEF Record
  <2>3. logged[s] \subseteq logged'[s]
    BY <2>1 DEF TypeOK
  <2>4. dropped[s] \subseteq dropped'[s]
    BY <2>2 DEF TypeOK
  <2>5. QED
    BY <2>3, <2>4
<1>2. ASSUME NEW e \in Editor, EditStep(e) PROVE Kept /\ Known
  BY <1>2 DEF EditStep, BeginCreate, FinishCreate, BeginPatch, FinishPatch, table, history
<1>3. ASSUME NEW u \in Sched, Delete(u) PROVE Kept /\ Known
  BY <1>3 DEF Delete, TypeOK, history
<1>4. ASSUME NEW p \in Proc, TickStep(p) PROVE Kept /\ Known
  <2>1. CASE SkipMisfire(p)
    <3>1. PICK u \in Sched : u = tick[p].cur.sid
      BY <2>1, CurFields DEF SkipMisfire
    <3>2. live' = live /\ Record(u, tick[p].cur.row.next, "skipped")
      BY <2>1, <3>1 DEF SkipMisfire, table
    <3>3. QED
      BY <1>1, <3>2
  <2>2. CASE ~SkipMisfire(p)
    BY <1>4, <2>2 DEF TickStep, TickStart, ListDue, ListFailed, ClaimWon, ClaimLost,
       ClaimFailed, Retire, AppendRun, StartRuns, TickEnd, table, history
  <2>3. QED
    BY <2>1, <2>2
<1>5. ASSUME NEW p \in Proc, NEW u \in Sched, RunStep(p, u) PROVE Kept /\ Known
  <2>1. CASE RunRecord(p, u)
    BY <1>1, <2>1 DEF RunRecord, table
  <2>2. CASE ~RunRecord(p, u)
    BY <1>5, <2>2 DEF RunStep, RunAcquire, RunDeliver, RunEnd, RunWriteBack, table, history
  <2>3. QED
    BY <2>1, <2>2
<1>6. ASSUME NEW p \in Proc, NEW u \in Sched, TestStep(p, u) PROVE Kept /\ Known
  BY <1>6 DEF TestStep, BeginTest, AcquireTest, EndTest, table, history
<1>7. ASSUME NEW p \in Proc, Crash(p) \/ Shutdown(p) PROVE Kept /\ Known
  <2>1. Known
    BY <1>7 DEF Crash, Shutdown, Forget, table
  <2>2. Kept
    BY <1>7 DEF Crash, Shutdown
  <2>3. QED
    BY <2>1, <2>2
<1>8. CASE Pass \/ UNCHANGED vars
  BY <1>8 DEF Pass, vars, table, history
<1>9. QED
  BY <1>2, <1>3, <1>4, <1>5, <1>6, <1>7, <1>8 DEF Next

\* What a record of occurrence t does for a schedule that is still there.
LEMMA RecordKeeps ==
  ASSUME TypeOK, NEW s \in Sched, NEW t \in Slot, NEW status \in Status,
         s \in live, Record(s, t, status)
  PROVE  InHistory(s, t)' \/ t \in dropped'[s]
<1>1. CASE logged' = [logged EXCEPT ![s] = @ \cup {<<t, status>>}]
  <2>1. <<t, status>> \in logged'[s]
    BY <1>1 DEF TypeOK
  <2>2. QED
    BY <2>1 DEF InHistory
<1>2. CASE dropped' = [dropped EXCEPT ![s] = @ \cup {t}]
  BY <1>2 DEF TypeOK
<1>3. QED
  BY <1>1, <1>2 DEF Record

LEMMA StagesOf ==
  ASSUME NEW p \in Proc, NEW s \in Sched, NEW t \in Slot
  PROVE  t \in Unrecorded(p, s) <=>
           \/ InHand(p, s, t)
           \/ /\ run[p][s].slot = t
              /\ run[p][s].st \in
                   {"appended", "queued", "executing", "delivered", "recording"}
  BY DEF Unrecorded, InRun, Underway, Unsent

\* A claimed occurrence leaves a process's hands through the history, or is
\* lost to a fault.
LEMMA TickKeepsTrack ==
  ASSUME TypeOK, JobsInHand, TicksGood, NEW p \in Proc, TickStep(p),
         NEW s \in Sched, NEW t \in Slot, s \in live, t \in Unrecorded(p, s)
  PROVE  t \in Unrecorded(p, s)' \/ InHistory(s, t)' \/ t \in dropped'[s]
<1> DEFINE Goal == t \in Unrecorded(p, s)' \/ InHistory(s, t)' \/ t \in dropped'[s]
           Stages == {"appended", "queued", "executing", "delivered", "recording"}
<1>1. /\ InHand(p, s, t) \/ (run[p][s].slot = t /\ run[p][s].st \in Stages)
      /\ t \in Unrecorded(p, s)' <=>
           InHand(p, s, t)' \/ (run'[p][s].slot = t /\ run'[p][s].st \in Stages)
  BY StagesOf DEF Unrecorded, InRun, Underway, Unsent
<1>2. CASE tick'[p].cur = tick[p].cur /\ run' = run
  BY <1>1, <1>2 DEF InHand
<1>3. CASE tick[p].cur = NoJob /\ run' = run
  BY <1>1, <1>3 DEF InHand
<1>4. CASE /\ SkipMisfire(p) /\ run' = run
  <2>1. CASE InHand(p, s, t)
    <3>1. Record(s, t, "skipped")
      BY <1>4, <2>1 DEF SkipMisfire, InHand
    <3>2. QED
      BY <3>1, RecordKeeps DEF Status
  <2>2. QED
    BY <1>1, <1>4, <2>1
<1>5. CASE /\ AppendRun(p) /\ tick[p].st = "settling"
           /\ run'[p] = [run[p] EXCEPT ![tick[p].cur.sid] =
                [st |-> "appended", slot |-> tick[p].cur.row.next,
                 failures |-> tick[p].cur.row.failures, status |-> "failed"]]
  <2>1. CASE InHand(p, s, t)
    <3>1. run'[p][s].st = "appended" /\ run'[p][s].slot = t
      BY <1>5, <2>1 DEF InHand, TypeOK
    <3>2. QED
      BY <1>1, <3>1
  <2>2. CASE run[p][s].slot = t /\ run[p][s].st \in Stages
    <3>1. tick[p].cur.sid # s
      BY <1>5, <2>2, TickValues DEF TicksGood, TickGood
    <3>2. run'[p][s] = run[p][s]
      BY <1>5, <3>1 DEF TypeOK
    <3>3. QED
      BY <1>1, <2>2, <3>2
  <2>3. QED
    BY <1>1, <2>1, <2>2
<1>6. CASE /\ tick[p].st = "claiming" /\ tick[p].cur = NoJob
           /\ run'[p] = [u \in Sched |-> IF run[p][u].st = "appended"
                THEN [run[p][u] EXCEPT !.st = "queued"] ELSE run[p][u]]
  <2>1. run[p][s].slot = t /\ run[p][s].st \in Stages
    BY <1>1, <1>6 DEF InHand
  <2>2. run[p][s] \in Begun
    BY <2>1, BegunType DEF TypeOK
  <2>3. run'[p][s].slot = t /\ run'[p][s].st \in Stages
    BY <1>6, <2>1, <2>2 DEF Begun
  <2>4. QED
    BY <1>1, <2>3
<1>7. tick[p].st \in {"claiming", "listing", "running", "idle"} => tick[p].cur = NoJob
  BY TickValues
<1>8. QED
  BY <1>2, <1>3, <1>4, <1>5, <1>6, <1>7, TickForms

LEMMA RunKeepsTrack ==
  ASSUME TypeOK, NEW p \in Proc, NEW u \in Sched, RunStep(p, u),
         NEW s \in Sched, NEW t \in Slot, s \in live, t \in Unrecorded(p, s)
  PROVE  t \in Unrecorded(p, s)' \/ InHistory(s, t)' \/ t \in dropped'[s]
<1> DEFINE Stages == {"appended", "queued", "executing", "delivered", "recording"}
<1>1. /\ InHand(p, s, t) \/ (run[p][s].slot = t /\ run[p][s].st \in Stages)
      /\ t \in Unrecorded(p, s)' <=>
           InHand(p, s, t)' \/ (run'[p][s].slot = t /\ run'[p][s].st \in Stages)
  BY StagesOf DEF Unrecorded, InRun, Underway, Unsent
<1>2. tick' = tick
  BY RunForms
<1>3. CASE InHand(p, s, t) \/ u # s
  <2>1. u # s => run'[p][s] = run[p][s]
    BY RunForms
  <2>2. QED
    BY <1>1, <1>2, <1>3, <2>1 DEF InHand
<1>4. CASE u = s /\ run[p][s].slot = t /\ run[p][s].st \in Stages
  <2>1. CASE RunRecord(p, s)
    <3>1. Record(s, t, run[p][s].status) /\ run[p][s].status \in Status
      BY <1>4, <2>1, RunFields DEF RunRecord
    <3>2. QED
      BY <3>1, RecordKeeps
  <2>2. CASE run'[p][s].slot = t /\ run'[p][s].st \in {"executing", "delivered", "recording"}
    BY <1>1, <2>2
  <2>3. QED
    BY <1>4, <2>1, <2>2, RunForms
<1>5. QED
  BY <1>1, <1>3, <1>4

LEMMA EndKeepsTrack ==
  ASSUME TypeOK, JobsInHand, TicksGood, NEW p \in Proc, Crash(p) \/ Shutdown(p),
         NEW s \in Sched, NEW t \in Slot, s \in live, t \in Unrecorded(p, s)
  PROVE  InHistory(s, t)' \/ t \in dropped'[s]
<1>1. CASE Crash(p)
  BY <1>1 DEF Crash
<1>2. CASE Shutdown(p) /\ run[p][s].st \in {"queued", "executing", "delivered"}
  <2>1. tick[p].st = "running"
    <3>1. TickGood(tick[p], run[p])
      BY DEF TicksGood
    <3>2. tick[p].st \in
            {"idle", "listing", "claiming", "retiring", "settling", "running"}
      BY DEF TypeOK, TickType
    <3>3. QED
      BY <1>2, <3>1, <3>2 DEF TickGood
  <2>2. ~InHand(p, s, t)
    BY <2>1, TickValues DEF InHand
  <2>3. run[p][s].slot = t
    BY <2>2, StagesOf
  <2>4. <<t, "failed">> \in logged'[s]
    BY <1>2, <2>3 DEF Shutdown
  <2>5. QED
    BY <2>4 DEF InHistory, Status
<1>3. CASE Shutdown(p) /\ run[p][s].st \notin {"queued", "executing", "delivered"}
  BY <1>3 DEF Shutdown
<1>4. QED
  BY <1>1, <1>2, <1>3

LEMMA AccountStep ==
  ASSUME TypeOK, JobsInHand, AccountInv, [Next]_vars PROVE AccountInv'
<1>1. FreshUnclaimed' /\ TicksGood'
  BY FreshStep, TicksGoodStep DEF AccountInv
<1>2. ASSUME NEW s \in live', NEW t \in Slot, claims'[s][t] > 0
      PROVE  \/ \E p \in Proc : t \in Unrecorded(p, s)'
             \/ InHistory(s, t)' \/ t \in dropped'[s]
  <2>1. s \in Sched
    BY <1>1, TypeStep DEF TypeOK
  <2>2. /\ s \in live \/ s \in fresh
        /\ logged[s] \subseteq logged'[s] /\ dropped[s] \subseteq dropped'[s]
    BY <2>1, LogKept
  <2>3. ASSUME NEW p \in Proc, ClaimWon(p), claims'[s][t] # claims[s][t]
        PROVE  t \in Unrecorded(p, s)'
    <3>1. PICK j \in tick[p].todo, st \in {"retiring", "settling"} :
            /\ tick' = [tick EXCEPT ![p].st = st, ![p].todo = @ \ {j}, ![p].cur = j]
            /\ claims' = [claims EXCEPT ![j.sid][j.row.next] = @ + 1]
      BY <2>3 DEF ClaimWon
    <3>2. j.sid = s /\ j.row.next = t
      BY <2>1, <2>3, <3>1 DEF TypeOK
    <3>3. tick'[p].cur = j
      BY <3>1 DEF TypeOK, TickType
    <3>4. j # NoJob
      BY TickValues
    <3>5. QED
      BY <3>2, <3>3, <3>4 DEF Unrecorded, InHand
  <2>4. CASE claims'[s][t] = claims[s][t]
    <3>1. s \in live
      BY <1>2, <2>1, <2>2, <2>4 DEF AccountInv, FreshUnclaimed
    <3>2. CASE InHistory(s, t) \/ t \in dropped[s]
      BY <2>2, <3>2 DEF InHistory
    <3>3. ASSUME NEW p \in Proc, t \in Unrecorded(p, s)
          PROVE  t \in Unrecorded(p, s)' \/ InHistory(s, t)' \/ t \in dropped'[s]
      <4>1. CASE tick'[p] = tick[p] /\ run'[p] = run[p]
        BY <3>3, <4>1 DEF Unrecorded, InHand, InRun, Underway, Unsent
      <4>2. CASE TickStep(p)
        BY <2>1, <3>1, <3>3, <4>2, TickKeepsTrack DEF AccountInv
      <4>3. CASE Crash(p) \/ Shutdown(p)
        BY <2>1, <3>1, <3>3, <4>3, EndKeepsTrack DEF AccountInv
      <4>4. ASSUME NEW u \in Sched, RunStep(p, u)
            PROVE  t \in Unrecorded(p, s)' \/ InHistory(s, t)' \/ t \in dropped'[s]
        BY <2>1, <3>1, <3>3, <4>4, RunKeepsTrack
      <4>5. QED
        BY <4>1, <4>2, <4>3, <4>4, OthersApart
    <3>4. claims[s][t] > 0
      BY <1>2, <2>4
    <3>5. QED
      BY <3>1, <3>2, <3>3, <3>4 DEF AccountInv, EveryClaimAccounted
  <2>5. QED
    BY <2>3, <2>4, CountersKept
<1>3. EveryClaimAccounted'
  BY <1>2 DEF EveryClaimAccounted
<1>4. QED
  BY <1>1, <1>3 DEF AccountInv

(* An occurrence that was claimed is still in some process's hands, or has *)
(* its row in the run history, or was lost to a crash, a shutdown or a     *)
(* write that failed.                                                      *)
THEOREM NoClaimLost == Spec => []EveryClaimAccounted
<1>1. Init => AccountInv
  <2>1. Init => EveryClaimAccounted
    BY DEF Init, EveryClaimAccounted
  <2>2. Init => FreshUnclaimed
    BY DEF Init, FreshUnclaimed
  <2>3. QED
    BY <2>1, <2>2, TicksGoodInit DEF AccountInv
<1>2. TypeOK /\ JobsInHand /\ AccountInv /\ [Next]_vars => AccountInv'
  BY AccountStep
<1>3. AccountInv => EveryClaimAccounted
  BY DEF AccountInv
<1>4. QED
  BY <1>1, <1>2, <1>3, TypeCorrect, PTL DEF Spec

-----------------------------------------------------------------------------
(* Why an active schedule always has a slot to come.                       *)

\* At most one request at a time edits schedules.
OneEditor == \A d, e \in Editor : d = e

\* What a request read of is_active still holds of a paused row, and a row
\* about to be inserted active has its first slot.
EditAgrees(e) ==
  /\ edit[e].st = "patching" =>
       /\ edit[e].sid \notin fresh
       /\ edit[e].sid \in live /\ ~edit[e].old.active => ~row[edit[e].sid].active
  /\ edit[e].st = "creating" => (edit[e].new.active => edit[e].new.next # NoTime)

StrandInv ==
  /\ FreshUnclaimed
  /\ faults = 0 => \A e \in Editor : EditAgrees(e)
  /\ NeverStranded

LEMMA NoFault ==
  ASSUME TypeOK, [Next]_vars, faults' = 0
  PROVE  /\ faults = 0
         /\ \A kind \in {"crash", "stop", "db"} : ~Fault(kind)
<1>1. faults \in Nat
  BY SchedulerAssumption DEF TypeOK
<1>2. \A kind \in {"crash", "stop", "db"} : ~Fault(kind)
  BY <1>1 DEF Fault
<1>3. ASSUME NEW u, NEW t, NEW status, Record(u, t, status) PROVE faults' = faults
  BY <1>2, <1>3 DEF Record
<1>4. ASSUME NEW e \in Editor, EditStep(e) PROVE faults' = faults
  BY <1>4 DEF EditStep, BeginCreate, FinishCreate, BeginPatch, FinishPatch
<1>5. ASSUME NEW p \in Proc, TickStep(p) PROVE faults' = faults
  BY <1>2, <1>3, <1>5 DEF TickStep, TickStart, ListDue, ListFailed, ClaimWon, ClaimLost,
     ClaimFailed, Retire, SkipMisfire, AppendRun, StartRuns, TickEnd
<1>6. ASSUME NEW p \in Proc, NEW s \in Sched, RunStep(p, s) \/ TestStep(p, s)
      PROVE  faults' = faults
  BY <1>2, <1>3, <1>6 DEF RunStep, RunAcquire, RunDeliver, RunEnd, RunRecord,
     RunWriteBack, TestStep, BeginTest, AcquireTest, EndTest
<1>7. ASSUME NEW p \in Proc, Crash(p) \/ Shutdown(p) PROVE FALSE
  BY <1>2, <1>7 DEF Crash, Shutdown
<1>8. faults' = faults
  BY <1>4, <1>5, <1>6, <1>7 DEF Next, Delete, Pass, vars
<1>9. QED
  BY <1>2, <1>8

\* The UPDATE of a PATCH that was not refused.
PatchWritten(e, s) ==
  /\ edit[e].st = "patching" /\ edit[e].sid = s
  /\ \E m \in edit[e].at..now :
       LET next == ComputeNextRun(Merge(edit[e].old, edit[e].pay), m)
       IN  /\ ~(/\ MovesFiring(edit[e].pay) /\ next = NoTime
                /\ Merge(edit[e].old, edit[e].pay).active)
           /\ row'[s] = Patched(row[s], edit[e].pay, edit[e].old, next)

LEMMA FinishedActive ==
  ASSUME NEW r \in Row, NEW n, NEW pause \in BOOLEAN, Finished(r, n, pause).active
  PROVE  r.active /\ ~pause /\ Finished(r, n, pause).next = r.next
  BY DEF Finished, Row

\* What a step that no fault touches does to a row.
LEMMA RowForms ==
  ASSUME TypeOK, JobsInHand, [Next]_vars, faults' = 0, NEW s \in Sched, s \in live'
  PROVE  \/ s \in live /\ row'[s] = row[s]
         \/ s \in fresh /\ \E e \in Editor : edit[e].st = "creating" /\ row'[s] = edit[e].new
         \/ s \in live /\ \E e \in Editor : FinishPatch(e) /\ PatchWritten(e, s)
         \/ /\ s \in live
            /\ row'[s].active => row[s].active
            /\ \/ row'[s].active => row'[s].next = row[s].next
               \/ row'[s].next # NoTime
               \/ \E p \in Proc : tick'[p].st = "retiring" /\ tick'[p].cur.sid = s
<1> DEFINE Same == s \in live /\ row'[s] = row[s]
           Weaker == /\ s \in live
                     /\ row'[s].active => row[s].active
                     /\ \/ row'[s].active => row'[s].next = row[s].next
                        \/ row'[s].next # NoTime
                        \/ \E p \in Proc : tick'[p].st = "retiring" /\ tick'[p].cur.sid = s
<1>1. ASSUME row' = row, live' \subseteq live PROVE Same
  BY <1>1
<1>2. ASSUME NEW e \in Editor, FinishCreate(e)
      PROVE  Same \/ (s \in fresh /\ edit[e].st = "creating" /\ row'[s] = edit[e].new)
  BY <1>2 DEF FinishCreate, TypeOK, table
<1>3. ASSUME NEW e \in Editor, FinishPatch(e)
      PROVE  Same \/ (s \in live /\ FinishPatch(e) /\ PatchWritten(e, s))
  <2>1. live' = live
    BY <1>3 DEF FinishPatch
  <2>2. CASE row'[s] # row[s]
    BY <1>3, <2>1, <2>2 DEF FinishPatch, PatchWritten, TypeOK
  <2>3. QED
    BY <2>1, <2>2
<1>4. ASSUME NEW u \in Sched, Delete(u) PROVE Same
  BY <1>4 DEF Delete, TypeOK
<1>5. ASSUME NEW p \in Proc, ClaimWon(p) PROVE Weaker
  <2>1. PICK j \in tick[p].todo :
          /\ row' = [row EXCEPT ![j.sid].next = Upcoming(j, tick[p].moment)]
          /\ tick' = [tick EXCEPT
               ![p].st = IF Upcoming(j, tick[p].moment) = NoTime THEN "retiring" ELSE "settling",
               ![p].todo = @ \ {j},
               ![p].cur = j]
    BY <1>5 DEF ClaimWon
  <2>2. PICK next : next = Upcoming(j, tick[p].moment)
    OBVIOUS
  <2>3. live' = live
    BY <1>5 DEF ClaimWon
  <2>4. CASE j.sid = s
    <3>1. row'[s].active = row[s].active /\ row'[s].next = next
      BY <2>1, <2>2, <2>4 DEF TypeOK, Row
    <3>2. tick'[p].cur = j /\ (next = NoTime => tick'[p].st = "retiring")
      BY <2>1, <2>2 DEF TypeOK, TickType
    <3>3. QED
      BY <2>3, <2>4, <3>1, <3>2
  <2>5. CASE j.sid # s
    BY <2>1, <2>3, <2>5 DEF TypeOK
  <2>6. QED
    BY <2>4, <2>5
<1>6. ASSUME NEW p \in Proc, TickStep(p) PROVE Weaker
  <2>1. ~ClaimFailed(p) /\ ~ListFailed(p)
    BY NoFault DEF ClaimFailed, ListFailed
  <2>2. CASE Retire(p)
    <3>1. PICK u \in Sched, n \in Nat : u = tick[p].cur.sid /\ n = tick[p].cur.row.failures
      BY <2>2, CurFields DEF Retire
    <3>2. live' = live /\ (row' = row \/ row' = [row EXCEPT ![u] = Finished(@, n, TRUE)])
      BY <2>2, <3>1 DEF Retire
    <3>3. row'[s] = row[s] \/ row'[s] = Finished(row[s], n, TRUE)
      BY <3>2 DEF TypeOK
    <3>4. ~Finished(row[s], n, TRUE).active
      BY FinishedActive DEF TypeOK
    <3>5. QED
      BY <3>2, <3>3, <3>4
  <2>3. CASE ~Retire(p) /\ ~ClaimWon(p)
    BY <1>6, <2>1, <2>3 DEF TickStep, TickStart, ListDue, ClaimLost, SkipMisfire, AppendRun,
       StartRuns, TickEnd, table
  <2>4. QED
    BY <1>5, <2>2, <2>3
<1>7. ASSUME NEW p \in Proc, NEW u \in Sched, RunStep(p, u) PROVE Weaker
  <2>1. CASE RunWriteBack(p, u)
    <3>1. PICK n : n = Failures(run[p][u])
      OBVIOUS
    <3>2. PICK pause \in BOOLEAN : pause = ShouldPause(run[p][u])
      BY DEF ShouldPause
    <3>3. live' = live /\ (row' = row \/ row' = [row EXCEPT ![u] = Finished(@, n, pause)])
      BY <2>1, <3>1, <3>2 DEF RunWriteBack
    <3>4. row'[s] = row[s] \/ row'[s] = Finished(row[s], n, pause)
      BY <3>3 DEF TypeOK
    <3>5. QED
      BY <3>3, <3>4, FinishedActive DEF TypeOK
  <2>2. CASE ~RunWriteBack(p, u)
    BY <1>7, <2>2 DEF RunStep, RunAcquire, RunDeliver, RunEnd, RunRecord, table
  <2>3. QED
    BY <2>1, <2>2
<1>8. ASSUME NEW e \in Editor, BeginCreate(e) \/ BeginPatch(e) PROVE Same
  BY <1>8 DEF BeginCreate, BeginPatch, table
<1>9. ASSUME NEW p \in Proc, NEW u \in Sched, TestStep(p, u) PROVE Same
  BY <1>9 DEF TestStep, BeginTest, AcquireTest, EndTest, table
<1>10. ASSUME NEW p \in Proc, Crash(p) \/ Shutdown(p) PROVE FALSE
  BY <1>10, NoFault DEF Crash, Shutdown
<1>11. CASE Pass \/ UNCHANGED vars
  BY <1>11 DEF Pass, vars, table
<1>12. QED
  BY <1>2, <1>3, <1>4, <1>6, <1>7, <1>8, <1>9, <1>10, <1>11 DEF Next, EditStep

\* Only a request changes what a request has read.
LEMMA EditsApart ==
  ASSUME [Next]_vars PROVE edit' = edit \/ \E e \in Editor : EditStep(e)
<1>1. ASSUME NEW p \in Proc, TickStep(p) PROVE edit' = edit
  BY <1>1 DEF TickStep, TickStart, ListDue, ListFailed, ClaimWon, ClaimLost, ClaimFailed,
     Retire, SkipMisfire, AppendRun, StartRuns, TickEnd, clients
<1>2. ASSUME NEW p \in Proc, NEW s \in Sched, RunStep(p, s) \/ TestStep(p, s)
      PROVE  edit' = edit
  BY <1>2 DEF RunStep, RunAcquire, RunDeliver, RunEnd, RunRecord, RunWriteBack,
     TestStep, BeginTest, AcquireTest, EndTest, clients
<1>3. ASSUME NEW p \in Proc, Crash(p) \/ Shutdown(p) PROVE edit' = edit
  BY <1>3 DEF Crash, Shutdown, Forget
<1>4. QED
  BY <1>1, <1>2, <1>3 DEF Next, Delete, Pass, vars, clients

LEMMA EditsAgreeStep ==
  ASSUME OneEditor, TypeOK, JobsInHand, StrandInv, [Next]_vars, faults' = 0,
         NEW e \in Editor
  PROVE  EditAgrees(e)'
<1>1. FreshUnclaimed /\ FreshUnclaimed' /\ EditAgrees(e)
  BY FreshStep, NoFault DEF StrandInv
<1>2. fresh' \subseteq fresh
  BY CountersKept
<1>3. CASE edit' = edit
  <2>1. ASSUME edit[e].st = "patching"
        PROVE  /\ edit[e].sid \notin fresh'
               /\ edit[e].sid \in live' /\ ~edit[e].old.active =>
                    ~row'[edit[e].sid].active
    <3>1. edit[e].sid \in Sched /\ edit[e].sid \notin fresh
      BY <1>1, <2>1, PatchingType DEF EditAgrees
    <3>2. ~\E d \in Editor : FinishPatch(d)
      BY <1>3, <2>1 DEF OneEditor, FinishPatch, IdleEdit, TypeOK
    <3>3. edit[e].sid \in live' =>
            /\ edit[e].sid \in live
            /\ row'[edit[e].sid].active => row[edit[e].sid].active
      BY <3>1, <3>2, RowForms
    <3>4. QED
      BY <1>1, <1>2, <2>1, <3>1, <3>3 DEF EditAgrees
  <2>2. QED
    BY <1>1, <1>3, <2>1 DEF EditAgrees
<1>4. CASE BeginCreate(e)
  <2>1. \E c \in Cron, b \in Starts, z \in Ends, a \in BOOLEAN : \E first :
          /\ a => first # NoTime
          /\ edit' = [edit EXCEPT ![e] =
               [st |-> "creating", new |-> WithNext(Draft(c, b, z, a), first)]]
    BY <1>4 DEF BeginCreate
  <2> PICK c, b, z, a, first :
          /\ a => first # NoTime
          /\ edit' = [edit EXCEPT ![e] =
               [st |-> "creating", new |-> WithNext(Draft(c, b, z, a), first)]]
    BY <2>1
  <2>2. edit'[e] = [st |-> "creating", new |-> WithNext(Draft(c, b, z, a), first)]
    BY DEF TypeOK
  <2>3. /\ WithNext(Draft(c, b, z, a), first).active = a
        /\ WithNext(Draft(c, b, z, a), first).next = first
    BY DEF WithNext, Draft
  <2>4. QED
    BY <2>2, <2>3 DEF EditAgrees
<1>5. CASE FinishCreate(e) \/ FinishPatch(e)
  <2>1. edit'[e] = IdleEdit
    BY <1>5 DEF FinishCreate, FinishPatch, TypeOK
  <2>2. QED
    BY <2>1 DEF EditAgrees, IdleEdit
<1>6. CASE BeginPatch(e)
  <2>1. PICK s \in live, pay \in Patches :
          edit' = [edit EXCEPT ![e] =
            [st |-> "patching", sid |-> s, pay |-> pay, old |-> row[s], at |-> now]]
    BY <1>6 DEF BeginPatch
  <2>2. edit'[e].st = "patching" /\ edit'[e].sid = s /\ edit'[e].old = row[s]
    BY <2>1 DEF TypeOK
  <2>3. live' = live /\ row' = row
    BY <1>6 DEF BeginPatch, table
  <2>4. QED
    BY <1>1, <2>2, <2>3 DEF EditAgrees, FreshUnclaimed
<1>7. ASSUME NEW d \in Editor, EditStep(d) PROVE EditStep(e)
  BY <1>7 DEF OneEditor
<1>8. edit' = edit \/ EditStep(e)
  BY <1>7, EditsApart
<1>9. QED
  BY <1>3, <1>4, <1>5, <1>6, <1>8 DEF EditStep

\* A PATCH that leaves a row active leaves it a slot, or the one it had.
LEMMA PatchLeavesSlot ==
  ASSUME TypeOK, NEW e \in Editor, EditAgrees(e), NEW s \in Sched, s \in live,
         PatchWritten(e, s), row'[s].active
  PROVE  row'[s] = row[s] \/ row'[s].next # NoTime
<1> DEFINE pay == edit[e].pay
           old == edit[e].old
           Slot0(m) == ComputeNextRun(Merge(old, pay), m)
<1>1. PICK m \in edit[e].at..now :
        /\ ~(MovesFiring(pay) /\ Slot0(m) = NoTime /\ Merge(old, pay).active)
        /\ row'[s] = Patched(row[s], pay, old, Slot0(m))
  BY DEF PatchWritten
<1>2. edit[e].sid = s /\ pay \in Patches /\ old \in Row /\ edit[e].at \in Time
  BY PatchingType DEF PatchWritten
<1>3. m \in Nat /\ row[s] \in Row
  BY <1>2 DEF TypeOK, Time
<1>4. Slot0(m) \in Slot \cup {NoTime}
  BY <1>2, <1>3, MergeType, ComputeNextRunType
<1> HIDE DEF Slot0
<1>5. CASE ~MovesFiring(pay)
  BY <1>1, <1>5 DEF Patched
<1>6. CASE MovesFiring(pay)
  <2>1. row'[s].next = Slot0(m)
    BY <1>1, <1>2, <1>3, <1>4, <1>6, PatchedNext
  <2>2. Merge(row[s], pay).active
    BY <1>1, <1>2, <1>3, <1>6, MergeType DEF Patched, Row
  <2>3. Merge(old, pay).active
    <3>1. \A r \in Row : Merge(r, pay).active = IF pay.active = Keep THEN r.active ELSE pay.active
      BY DEF Merge, Row
    <3>2. row[s].active => old.active
      BY <1>2 DEF EditAgrees, PatchWritten, Row
    <3>3. QED
      BY <1>2, <1>3, <2>2, <3>1, <3>2
  <2>4. QED
    BY <1>1, <1>6, <2>1, <2>3
<1>7. QED
  BY <1>5, <1>6

\* A retirement stays to be done until it is done, or a fault prevents it.
LEMMA RetirementStays ==
  ASSUME TypeOK, JobsInHand, [Next]_vars, faults' = 0, NEW p \in Proc, NEW s \in Sched,
         s \in live, tick[p].st = "retiring", tick[p].cur.sid = s
  PROVE  \/ tick'[p].st = "retiring" /\ tick'[p].cur.sid = s
         \/ ~row'[s].active
<1>1. CASE tick'[p] = tick[p]
  BY <1>1
<1>2. CASE TickStep(p)
  <2>1. Retire(p)
    BY <1>2 DEF TickStep, TickStart, ListDue, ListFailed, ClaimWon, ClaimLost, ClaimFailed,
       NextJob, SkipMisfire, AppendRun, StartRuns, TickEnd
  <2>2. PICK n : n = tick[p].cur.row.failures
    OBVIOUS
  <2>3. row' = [row EXCEPT ![s] = Finished(@, n, TRUE)]
    BY <2>1, <2>2, NoFault DEF Retire
  <2>4. row'[s] = Finished(row[s], n, TRUE)
    BY <2>3 DEF TypeOK
  <2>5. ~Finished(row[s], n, TRUE).active
    BY FinishedActive DEF TypeOK
  <2>6. QED
    BY <2>4, <2>5
<1>3. ~Crash(p) /\ ~Shutdown(p)
  BY NoFault DEF Crash, Shutdown
<1>4. tick'[p] = tick[p] \/ TickStep(p) \/ Crash(p) \/ Shutdown(p)
  BY OthersApart
<1>5. QED
  BY <1>1, <1>2, <1>3, <1>4

LEMMA StrandStep ==
  ASSUME OneEditor, TypeOK, JobsInHand, StrandInv, [Next]_vars PROVE StrandInv'
<1>1. FreshUnclaimed'
  BY FreshStep DEF StrandInv
<1>2. ASSUME faults' = 0, NEW e \in Editor PROVE EditAgrees(e)'
  BY <1>2, EditsAgreeStep
<1>3. ASSUME faults' = 0, NEW s \in live', row'[s].active, row'[s].next = NoTime
      PROVE  \E p \in Proc : tick'[p].st = "retiring" /\ tick'[p].cur.sid = s
  <2>1. s \in Sched
    BY TypeStep DEF TypeOK
  <2>2. CASE s \in live /\ row[s].active /\ row[s].next = NoTime
    <3>1. PICK p \in Proc : tick[p].st = "retiring" /\ tick[p].cur.sid = s
      BY <1>3, <2>2, NoFault DEF StrandInv, NeverStranded
    <3>2. (tick'[p].st = "retiring" /\ tick'[p].cur.sid = s) \/ ~row'[s].active
      BY <1>3, <2>1, <2>2, <3>1, RetirementStays
    <3>3. QED
      BY <1>3, <3>1, <3>2
  <2>3. ASSUME NEW e \in Editor, edit[e].st = "creating", row'[s] = edit[e].new PROVE FALSE
    BY <1>3, <2>3, NoFault DEF StrandInv, EditAgrees
  <2>4. ASSUME NEW e \in Editor, s \in live, PatchWritten(e, s) PROVE row'[s] = row[s]
    BY <1>3, <2>1, <2>4, PatchLeavesSlot, NoFault DEF StrandInv
  <2>5. QED
    BY <1>3, <2>1, <2>2, <2>3, <2>4, RowForms
<1>4. QED
  BY <1>1, <1>2, <1>3 DEF StrandInv, NeverStranded

(* While nothing fails and edits come one at a time, an active schedule    *)
(* has a slot to come or a tick is about to retire it, whatever the edits  *)
(* are and however late the ticks that touch it.                           *)
THEOREM NoneStranded == ASSUME OneEditor PROVE Spec => []NeverStranded
<1>1. Init => StrandInv
  BY DEF Init, StrandInv, FreshUnclaimed, EditAgrees, IdleEdit, NeverStranded
<1>2. TypeOK /\ JobsInHand /\ StrandInv /\ [Next]_vars => StrandInv'
  BY StrandStep
<1>3. StrandInv => NeverStranded
  BY DEF StrandInv
<1>4. QED
  BY <1>1, <1>2, <1>3, TypeCorrect, PTL DEF Spec

-----------------------------------------------------------------------------
(* Why the failure counter is exact: a claim that overlaps nothing takes   *)
(* the counter as the row has it, nobody else writes the row's until that  *)
(* claim is done with, and what its run ends with is the only thing that   *)
(* adds to the streak meanwhile.                                           *)

\* p has claimed s, and its copy of the failure counter says n.
ClaimedCopy(p, s, n) ==
  \/ tick[p].cur # NoJob /\ tick[p].cur.sid = s /\ tick[p].cur.row.failures = n
  \/ run[p][s].st # "none" /\ run[p][s].failures = n

\* The end of a run counts: the failures it is about to write, or none.
EndCounts(p, s) ==
  run[p][s].st \in Ended =>
    IF run[p][s].status = "failed"
      THEN s \in unwritten \/ streak[s] = run[p][s].failures + 1
      ELSE streak[s] = 0

Counted(s) ==
  /\ \A p, q \in Proc : Claimed(p, s) /\ Claimed(q, s) => p = q
  /\ \A p \in Proc, n \in Nat : ClaimedCopy(p, s, n) => n = row[s].failures
  /\ \A p \in Proc : EndCounts(p, s)
  /\ s \notin unwritten /\ WrittenBack(s) => row[s].failures = streak[s]

CountInv ==
  /\ FreshUnclaimed /\ TicksGood
  /\ \A s \in fresh : streak[s] = 0 /\ \A p \in Proc : ~Claimed(p, s)
  /\ \A e \in Editor : edit[e].st = "creating" => edit[e].new.failures = 0
  /\ \A s \in live \ raced : Counted(s)

\* A write-back ends the claim.
LEMMA WriteBackEnds ==
  ASSUME TypeOK, JobsInHand, TicksGood, NEW p \in Proc, NEW s \in Sched, RunWriteBack(p, s)
  PROVE  Claimed(p, s) /\ ~Claimed(p, s)'
<1>1. RunStep(p, s)
  BY DEF RunStep
<1>2. tick' = tick /\ run[p][s].st \notin {"none", "appended"}
  BY <1>1, RunForms
<1>3. run'[p][s].st = "none"
  BY DEF RunWriteBack, NoRun, TypeOK
<1>4. tick[p].cur # NoJob => tick[p].cur.sid # s
  BY <1>2 DEF TicksGood, TickGood
<1>5. QED
  BY <1>2, <1>3, <1>4 DEF Claimed

\* Only ClaimWon takes a tick on to a row.
LEMMA TakenIsWon ==
  ASSUME TypeOK, NEW p \in Proc, TickStep(p),
         tick[p].st = "claiming", tick'[p].st \in {"retiring", "settling"}
  PROVE  ClaimWon(p)
<1>1. CASE ClaimLost(p) \/ ClaimFailed(p)
  <2>1. PICK j \in tick[p].todo : tick' = [tick EXCEPT ![p].todo = @ \ {j}]
    BY <1>1 DEF ClaimLost, ClaimFailed
  <2>2. tick'[p].st = tick[p].st
    BY <2>1 DEF TypeOK, TickType
  <2>3. QED
    BY <2>2
<1>2. CASE StartRuns(p)
  <2>1. tick'[p].st = "running"
    BY <1>2 DEF StartRuns, TypeOK, TickType
  <2>2. QED
    BY <2>1
<1>3. CASE ~ClaimLost(p) /\ ~ClaimFailed(p) /\ ~StartRuns(p)
  BY <1>3 DEF TickStep, TickStart, ListDue, ListFailed, Retire, SkipMisfire, AppendRun, TickEnd
<1>4. QED
  BY <1>1, <1>2, <1>3

\* A claim was there before, with the copy it had, or has just been won; a run
\* that has ended had ended before, or ends with this step.
LEMMA ClaimForms ==
  ASSUME TypeOK, JobsInHand, TicksGood, [Next]_vars, NEW p \in Proc, NEW s \in Sched,
         Claimed(p, s)'
  PROVE  \/ /\ Claimed(p, s)
            /\ \A n \in Nat : ClaimedCopy(p, s, n)' => ClaimedCopy(p, s, n)
            /\ run'[p][s].st \in Ended =>
                 \/ RunEnd(p, s)
                 \/ /\ run[p][s].st \in Ended
                    /\ run'[p][s].status = run[p][s].status
                    /\ run'[p][s].failures = run[p][s].failures
         \/ /\ ClaimWon(p) /\ tick'[p].cur \in tick[p].todo /\ tick'[p].cur.sid = s
            /\ run[p][s].st = "none"
<1> DEFINE Kept == /\ Claimed(p, s)
                   /\ \A n \in Nat : ClaimedCopy(p, s, n)' => ClaimedCopy(p, s, n)
                   /\ run'[p][s].st \in Ended =>
                        \/ RunEnd(p, s)
                        \/ /\ run[p][s].st \in Ended
                           /\ run'[p][s].status = run[p][s].status
                           /\ run'[p][s].failures = run[p][s].failures
           Won == /\ ClaimWon(p) /\ tick'[p].cur \in tick[p].todo /\ tick'[p].cur.sid = s
                  /\ run[p][s].st = "none"
<1>1. CASE tick'[p].cur \in {tick[p].cur, NoJob} /\ run'[p][s] = run[p][s]
  BY <1>1 DEF Claimed, ClaimedCopy
<1>2. CASE TickStep(p)
  <2>1. CASE run' = run /\ tick'[p].cur \in {tick[p].cur, NoJob}
    BY <1>1, <2>1
  <2>2. CASE /\ tick[p].st = "claiming" /\ tick'[p].st \in {"retiring", "settling"}
             /\ tick'[p].cur \in tick[p].todo /\ run' = run
    <3>1. ClaimWon(p)
      BY <1>2, <2>2, TakenIsWon
    <3>2. run[p][tick'[p].cur.sid].st = "none"
      BY <2>2 DEF TicksGood, TickGood
    <3>3. CASE tick'[p].cur.sid = s
      BY <2>2, <3>1, <3>2, <3>3
    <3>4. CASE tick'[p].cur.sid # s
      BY <2>2, <3>4 DEF Claimed, ClaimedCopy
    <3>5. QED
      BY <3>3, <3>4
  <2>3. CASE /\ tick[p].st = "settling" /\ tick'[p].cur = NoJob
             /\ run'[p] = [run[p] EXCEPT ![tick[p].cur.sid] =
                  [st |-> "appended", slot |-> tick[p].cur.row.next,
                   failures |-> tick[p].cur.row.failures, status |-> "failed"]]
    <3>1. tick[p].cur # NoJob
      BY <2>3, TickValues
    <3>2. CASE s = tick[p].cur.sid
      <4>1. run'[p][s].failures = tick[p].cur.row.failures /\ run'[p][s].st = "appended"
        BY <2>3, <3>2 DEF TypeOK
      <4>2. QED
        BY <2>3, <3>1, <3>2, <4>1 DEF Claimed, ClaimedCopy, Ended
    <3>3. CASE s # tick[p].cur.sid
      <4>1. run'[p][s] = run[p][s]
        BY <2>3, <3>3 DEF TypeOK
      <4>2. QED
        BY <1>1, <2>3, <4>1
    <3>4. QED
      BY <3>2, <3>3
  <2>4. CASE /\ tick'[p].cur = NoJob
             /\ run'[p] = [u \in Sched |-> IF run[p][u].st = "appended"
                  THEN [run[p][u] EXCEPT !.st = "queued"] ELSE run[p][u]]
    <3>1. CASE run[p][s].st = "appended"
      <4>1. run[p][s] \in Begun
        BY <3>1, BegunType DEF TypeOK
      <4>2. run'[p][s] = [run[p][s] EXCEPT !.st = "queued"]
        BY <2>4, <3>1
      <4>3. run'[p][s].st = "queued" /\ run'[p][s].failures = run[p][s].failures
        BY <4>1, <4>2 DEF Begun
      <4>4. QED
        BY <2>4, <3>1, <4>3 DEF Claimed, ClaimedCopy, Ended
    <3>2. CASE run[p][s].st # "appended"
      BY <1>1, <2>4, <3>2
    <3>3. QED
      BY <3>1, <3>2
  <2>5. IdleTick.cur = NoJob
    BY DEF IdleTick
  <2>6. QED
    BY <1>2, <2>1, <2>2, <2>3, <2>4, <2>5, TickForms
<1>3. CASE Crash(p) \/ Shutdown(p)
  BY <1>3, Forgotten DEF Claimed, IdleTick, NoRun
<1>4. ASSUME NEW u \in Sched, RunStep(p, u) PROVE Kept \/ Won
  <2>1. tick' = tick /\ run[p][u].st \notin {"none", "appended"}
    BY <1>4, RunForms
  <2>2. CASE u # s
    <3>1. run'[p][s] = run[p][s]
      BY <1>4, <2>2, RunForms
    <3>2. QED
      BY <1>1, <2>1, <3>1
  <2>3. CASE u = s
    <3>1. ~RunWriteBack(p, s)
      BY WriteBackEnds
    <3>2. /\ run'[p][s].failures = run[p][s].failures
          /\ \/ run'[p][s].st \in {"executing", "delivered"}
             \/ RunEnd(p, s)
             \/ RunRecord(p, s)
      BY <1>4, <2>3, <3>1, RunForms
    <3>3. CASE RunRecord(p, s)
      <4>1. run[p][s].st = "recording" /\ run[p][s] \in Begun
        BY <3>3, BegunType DEF RunRecord, TypeOK
      <4>2. run'[p][s] = [run[p][s] EXCEPT !.st = "writing"]
        BY <3>3 DEF RunRecord, TypeOK
      <4>3. run'[p][s].status = run[p][s].status
        BY <4>1, <4>2 DEF Begun
      <4>4. QED
        BY <2>1, <2>3, <3>2, <4>1, <4>3 DEF Claimed, ClaimedCopy, Ended
    <3>4. CASE ~RunRecord(p, s)
      BY <2>1, <2>3, <3>2, <3>4 DEF Claimed, ClaimedCopy, Ended
    <3>5. QED
      BY <3>3, <3>4
  <2>4. QED
    BY <2>2, <2>3
<1>5. CASE tick'[p] = tick[p] /\ run'[p] = run[p]
  BY <1>1, <1>5
<1>6. QED
  BY <1>2, <1>3, <1>4, <1>5, OthersApart

\* A claim that overlaps nothing takes the counter as it is.
LEMMA WonForms ==
  ASSUME TypeOK, JobsInHand, NEW p \in Proc, NEW s \in Sched, ClaimWon(p),
         tick'[p].cur \in tick[p].todo, tick'[p].cur.sid = s
  PROVE  /\ s \in live /\ run' = run /\ UNCHANGED <<live, streak, unwritten>>
         /\ row'[s].failures = row[s].failures
         /\ \A q \in Proc \ {p} : tick'[q] = tick[q]
         /\ \/ s \in raced'
            \/ /\ \A q \in Proc : ~Claimed(q, s)
               /\ tick'[p].cur.row.failures = row[s].failures
<1>1. PICK j, st, next :
        /\ j \in tick[p].todo /\ st \in {"retiring", "settling"}
        /\ Claimable(j)
        /\ row' = [row EXCEPT ![j.sid].next = next]
        /\ tick' = [tick EXCEPT ![p].st = st, ![p].todo = @ \ {j}, ![p].cur = j]
        /\ raced' = IF \/ \E q \in Proc : Claimed(q, j.sid)
                       \/ j.row.failures # row[j.sid].failures
                      THEN raced \cup {j.sid} ELSE raced
        /\ run' = run /\ UNCHANGED <<live, streak, unwritten>>
  BY DEF ClaimWon
<1>2. tick \in [Proc -> TickType] /\ tick[p] \in TickType
  BY DEF TypeOK
<1>3. tick'[p] = [tick[p] EXCEPT !.st = st, !.todo = @ \ {j}, !.cur = j]
  BY <1>1, <1>2
<1>4. tick'[p].cur = j /\ \A q \in Proc \ {p} : tick'[q] = tick[q]
  BY <1>1, <1>2, <1>3 DEF TickType
<1>5. j.sid = s /\ s \in live
  BY <1>1, <1>4 DEF Claimable
<1>6. row'[s].failures = row[s].failures
  BY <1>1, <1>5 DEF TypeOK, Row
<1>7. QED
  BY <1>1, <1>4, <1>5, <1>6

\* What the write-back of a run of a schedule that is still there does.
LEMMA WriteForms ==
  ASSUME TypeOK, NEW p \in Proc, NEW s \in live, RunWriteBack(p, s)
  PROVE  /\ run[p][s].st = "writing" /\ streak' = streak /\ raced' = raced
         /\ \/ s \in unwritten' /\ row' = row
            \/ /\ row'[s].failures = Failures(run[p][s])
               /\ IF run[p][s].status = "failed"
                    THEN s \in unwritten' <=> s \in unwritten ELSE s \notin unwritten'
<1>1. PICK n, pause : n = Failures(run[p][s]) /\ pause = ShouldPause(run[p][s])
  OBVIOUS
<1>2. s \in Sched /\ row[s] \in Row
  BY DEF TypeOK
<1>3. CASE unwritten' = unwritten \cup {s} /\ row' = row
  BY <1>3 DEF RunWriteBack
<1>4. CASE /\ row' = [row EXCEPT ![s] = Finished(@, n, pause)]
           /\ unwritten' = IF run[p][s].status = "failed" THEN unwritten ELSE unwritten \ {s}
  <2>1. row'[s] = Finished(row[s], n, pause)
    BY <1>2, <1>4 DEF TypeOK
  <2>2. row'[s].failures = n
    BY <1>2, <2>1 DEF Finished, Row
  <2>3. QED
    BY <1>1, <1>4, <2>2 DEF RunWriteBack
<1>5. QED
  BY <1>1, <1>3, <1>4 DEF RunWriteBack

\* A run that has ended stays so until it is written back or its process goes,
\* which leaves its outcome unwritten.
LEMMA EndedKept ==
  ASSUME TypeOK, JobsInHand, TicksGood, [Next]_vars, NEW p \in Proc, NEW s \in Sched,
         run[p][s].st \in Ended
  PROVE  run'[p][s].st \in Ended \/ RunWriteBack(p, s) \/ s \in unwritten'
<1>1. CASE run'[p] = run[p]
  BY <1>1
<1>2. CASE TickStep(p)
  <2>1. TickGood(tick[p], run[p]) /\ run[p][s].st \notin {"none", "appended"}
    BY DEF TicksGood, Ended
  <2>2. tick[p].st \notin {"claiming", "settling"}
    BY <2>1 DEF TickGood
  <2>3. run' = run
    BY <1>2, <2>2, TickForms
  <2>4. QED
    BY <1>1, <2>3
<1>3. CASE Crash(p) \/ Shutdown(p)
  BY <1>3 DEF Crash, Shutdown
<1>4. ASSUME NEW u \in Sched, RunStep(p, u)
      PROVE  run'[p][s].st \in Ended \/ RunWriteBack(p, s)
  <2>1. CASE u # s
    BY <1>4, <2>1, RunForms
  <2>2. CASE u = s
    <3>1. ~RunAcquire(p, s) /\ ~RunDeliver(p, s) /\ ~RunEnd(p, s)
      BY DEF RunAcquire, RunDeliver, RunEnd, Ended
    <3>2. QED
      BY <1>4, <2>2, <3>1, RunForms DEF Ended
  <2>3. QED
    BY <2>1, <2>2
<1>5. QED
  BY <1>1, <1>2, <1>3, <1>4, OthersApart

\* What a step does to the counter of a row, to the true count and to what is
\* known of outcomes that were not written.
LEMMA CounterForms ==
  ASSUME TypeOK, JobsInHand, [Next]_vars, NEW s \in Sched
  PROVE  /\ raced \subseteq raced'
         /\ streak'[s] # streak[s] => s \in live \/ \E p \in Proc : Claimed(p, s)
         /\ s \in live' =>
            \/ \E p \in Proc : RunWriteBack(p, s)
            \/ /\ s \in live /\ row'[s].failures = row[s].failures
               /\ streak'[s] = streak[s] /\ (s \in unwritten' <=> s \in unwritten)
            \/ /\ s \in fresh /\ streak'[s] = streak[s]
               /\ \E e \in Editor : edit[e].st = "creating" /\ row'[s] = edit[e].new
            \/ /\ s \in live /\ row'[s].failures = 0 /\ streak'[s] = 0
               /\ s \in raced' \/ \A p \in Proc : ~Claimed(p, s)
            \/ /\ s \in live /\ streak'[s] = streak[s] /\ (s \in unwritten' <=> s \in unwritten)
               /\ \E p \in Proc : /\ tick[p].cur # NoJob /\ tick[p].cur.sid = s
                                  /\ row'[s].failures = tick[p].cur.row.failures
            \/ /\ s \in live /\ row'[s].failures = row[s].failures
               /\ \E p \in Proc : RunEnd(p, s)
            \/ /\ s \in live /\ row'[s].failures = row[s].failures /\ s \in unwritten'
               /\ \/ streak'[s] = streak[s]
                  \/ \E p \in Proc : Claimed(p, s) /\ ~Claimed(p, s)'
<1> DEFINE Same == streak'[s] = streak[s] /\ (s \in unwritten' <=> s \in unwritten)
           Still == s \in live' => s \in live /\ row'[s].failures = row[s].failures
           Quiet == raced \subseteq raced' /\ Same /\ Still
           Created(e) == /\ raced' = raced /\ streak'[s] = streak[s]
                         /\ s \in fresh /\ edit[e].st = "creating" /\ row'[s] = edit[e].new
           Resumed == /\ raced \subseteq raced'
                      /\ s \in live /\ row'[s].failures = 0 /\ streak'[s] = 0
                      /\ s \in raced' \/ \A p \in Proc : ~Claimed(p, s)
           Retired(p) == /\ raced' = raced /\ Same /\ s \in live
                         /\ tick[p].cur # NoJob /\ tick[p].cur.sid = s
                         /\ row'[s].failures = tick[p].cur.row.failures
           Written(p) == raced' = raced /\ streak'[s] = streak[s] /\ RunWriteBack(p, s)
           EndedHere(p) == raced' = raced /\ Still /\ RunEnd(p, s) /\ Claimed(p, s)
           Lost(p) == /\ raced' = raced /\ Still /\ s \in unwritten'
                      /\ streak'[s] = streak[s] \/ (Claimed(p, s) /\ ~Claimed(p, s)')
<1>1. ASSUME UNCHANGED <<raced, streak, unwritten, row>>, live' \subseteq live PROVE Quiet
  BY <1>1
<1>2. ASSUME NEW e \in Editor, FinishCreate(e) PROVE Quiet \/ Created(e)
  BY <1>2 DEF FinishCreate, TypeOK, table, history
<1>3. ASSUME NEW e \in Editor, FinishPatch(e) PROVE Quiet \/ Resumed
  <2> DEFINE pay == edit[e].pay
             old == edit[e].old
  <2>1. PICK next :
          \/ UNCHANGED <<row, streak, unwritten, raced>>
          \/ /\ edit[e].sid \in live
             /\ row' = [row EXCEPT ![edit[e].sid] = Patched(@, pay, old, next)]
             /\ streak' = IF Reactivates(pay, old)
                            THEN [streak EXCEPT ![edit[e].sid] = 0] ELSE streak
             /\ unwritten' = IF Reactivates(pay, old)
                               THEN unwritten \ {edit[e].sid} ELSE unwritten
             /\ raced' = IF Reactivates(pay, old) /\ \E p \in Proc : Claimed(p, edit[e].sid)
                           THEN raced \cup {edit[e].sid} ELSE raced
    BY <1>3 DEF FinishPatch
  <2>2. live' = live
    BY <1>3 DEF FinishPatch
  <2>3. /\ pay \in Patches /\ pay \in Patch
    BY <1>3, PatchingType, SchedulerAssumption DEF FinishPatch
  <2>4. CASE UNCHANGED <<row, streak, unwritten, raced>>
    BY <2>2, <2>4, <1>1
  <2>5. CASE edit[e].sid # s /\ ~UNCHANGED <<row, streak, unwritten, raced>>
    <3>1. row'[s] = row[s] /\ streak'[s] = streak[s]
      BY <2>1, <2>5 DEF TypeOK
    <3>2. QED
      BY <2>1, <2>2, <2>5, <3>1
  <2>6. CASE edit[e].sid = s /\ ~UNCHANGED <<row, streak, unwritten, raced>>
    <3>1. s \in live /\ row'[s] = Patched(row[s], pay, old, next) /\ row[s] \in Row
      BY <2>1, <2>6 DEF TypeOK
    <3>2. Merge(row[s], pay) \in Row /\ Merge(row[s], pay).failures = row[s].failures
      <4>1. Merge(row[s], pay) \in Row
        BY <2>3, <3>1, MergeType
      <4>2. PICK old1 \in Row : old1 = row[s]
        BY <3>1
      <4>3. Merge(old1, pay).failures = old1.failures
        BY DEF Merge, Row
      <4>4. QED
        BY <4>1, <4>2, <4>3
    <3>3. CASE Reactivates(pay, old)
      <4>1. MovesFiring(pay)
        BY <3>3, SchedulerAssumption DEF Reactivates, MovesFiring
      <4>2. row'[s].failures = 0
        BY <3>1, <3>2, <3>3, <4>1 DEF Patched, Row
      <4>3. streak'[s] = 0
        BY <2>1, <2>6, <3>3 DEF TypeOK
      <4>4. /\ raced \subseteq raced'
            /\ s \in raced' \/ \A p \in Proc : ~Claimed(p, s)
        BY <2>1, <2>6, <3>3
      <4>5. QED
        BY <3>1, <4>2, <4>3, <4>4
    <3>4. CASE ~Reactivates(pay, old)
      <4>1. row'[s].failures = row[s].failures
        BY <3>1, <3>2, <3>4 DEF Patched, Row
      <4>2. QED
        BY <2>1, <2>6, <3>1, <3>4, <4>1
    <3>5. QED
      BY <3>3, <3>4
  <2>7. QED
    BY <2>4, <2>5, <2>6
<1>4. ASSUME NEW u \in Sched, Delete(u) PROVE Quiet
  BY <1>4 DEF Delete, TypeOK, history
<1>5. ASSUME NEW p \in Proc, TickStep(p) PROVE Quiet \/ Retired(p)
  <2>1. live' = live /\ streak' = streak /\ unwritten' = unwritten /\ raced \subseteq raced'
    BY <1>5 DEF TickStep, TickStart, ListDue, ListFailed, ClaimWon, ClaimLost, ClaimFailed,
       Retire, SkipMisfire, AppendRun, StartRuns, TickEnd, table, history
  <2>2. CASE ClaimWon(p) \/ ClaimFailed(p)
    <3>1. PICK j \in tick[p].todo :
            \/ row' = row
            \/ row' = [row EXCEPT ![j.sid].next = Upcoming(j, tick[p].moment)]
      BY <2>2 DEF ClaimWon, ClaimFailed
    <3>2. PICK next : next = Upcoming(j, tick[p].moment)
      OBVIOUS
    <3>3. row'[s] = row[s] \/ row'[s] = [row[s] EXCEPT !.next = next]
      BY <3>1, <3>2 DEF TypeOK
    <3>4. row'[s].failures = row[s].failures
      BY <3>3 DEF TypeOK, Row
    <3>5. QED
      BY <2>1, <3>4
  <2>3. CASE Retire(p)
    <3>1. tick[p].cur # NoJob /\ tick[p].cur.sid \in Sched
      BY <2>3, CurFields, SchedulerAssumption DEF Retire
    <3>2. \E u \in Sched : \E n : u = tick[p].cur.sid /\ n = tick[p].cur.row.failures
      BY <3>1
    <3> PICK u \in Sched : \E n : u = tick[p].cur.sid /\ n = tick[p].cur.row.failures
      BY <3>2
    <3> PICK n : u = tick[p].cur.sid /\ n = tick[p].cur.row.failures
      OBVIOUS
    <3>3. row' = row \/ (u \in live /\ row' = [row EXCEPT ![u] = Finished(@, n, TRUE)])
      BY <2>3 DEF Retire
    <3>4. Finished(row[u], n, TRUE).failures = n
      BY DEF Finished, TypeOK, Row
    <3>5. raced' = raced
      BY <2>3 DEF Retire, history
    <3>6. QED
      BY <2>1, <3>1, <3>3, <3>4, <3>5 DEF TypeOK
  <2>4. CASE ~ClaimWon(p) /\ ~ClaimFailed(p) /\ ~Retire(p)
    <3>1. row' = row
      BY <1>5, <2>4 DEF TickStep, TickStart, ListDue, ListFailed, ClaimLost, SkipMisfire,
         AppendRun, StartRuns, TickEnd, table
    <3>2. QED
      BY <2>1, <3>1
  <2>5. QED
    BY <2>2, <2>3, <2>4
<1>6. ASSUME NEW p \in Proc, NEW u \in Sched, RunStep(p, u)
      PROVE  Quiet \/ Written(p) \/ EndedHere(p)
  <2>1. live' = live /\ raced' = raced
    BY <1>6 DEF RunStep, RunAcquire, RunDeliver, RunEnd, RunRecord, RunWriteBack, table, history
  <2>2. CASE RunWriteBack(p, u)
    <3>1. streak' = streak
      BY <2>2 DEF RunWriteBack
    <3>2. CASE u # s
      <4>1. PICK n, pause : n = Failures(run[p][u]) /\ pause = ShouldPause(run[p][u])
        OBVIOUS
      <4>2. /\ row' = row \/ row' = [row EXCEPT ![u] = Finished(@, n, pause)]
            /\ unwritten' \in {unwritten, unwritten \ {u}, unwritten \cup {u}}
        BY <2>2, <4>1 DEF RunWriteBack
      <4>3. row'[s] = row[s]
        BY <3>2, <4>2 DEF TypeOK
      <4>4. s \in unwritten' <=> s \in unwritten
        BY <3>2, <4>2
      <4>5. QED
        BY <2>1, <3>1, <4>3, <4>4
    <3>3. CASE u = s
      BY <2>1, <2>2, <3>1, <3>3
    <3>4. QED
      BY <3>2, <3>3
  <2>3. CASE RunEnd(p, u)
    <3>1. row' = row /\ unwritten' = unwritten
      BY <2>3 DEF RunEnd, table
    <3>2. CASE u # s
      <4>1. streak'[s] = streak[s]
        BY <2>3, <3>2 DEF RunEnd, TypeOK
      <4>2. QED
        BY <2>1, <3>1, <4>1
    <3>3. CASE u = s
      <4>1. Claimed(p, s)
        BY <2>3, <3>3 DEF RunEnd, Claimed
      <4>2. QED
        BY <2>1, <2>3, <3>1, <3>3, <4>1
    <3>4. QED
      BY <3>2, <3>3
  <2>4. CASE ~RunWriteBack(p, u) /\ ~RunEnd(p, u)
    <3>1. row' = row /\ streak' = streak /\ unwritten' = unwritten
      BY <1>6, <2>4 DEF RunStep, RunAcquire, RunDeliver, RunRecord, table, history
    <3>2. QED
      BY <2>1, <3>1
  <2>5. QED
    BY <2>2, <2>3, <2>4
<1>7. ASSUME NEW e \in Editor, BeginCreate(e) \/ BeginPatch(e) PROVE Quiet
  BY <1>7 DEF BeginCreate, BeginPatch, table, history
<1>8. ASSUME NEW p \in Proc, NEW u \in Sched, TestStep(p, u) PROVE Quiet
  BY <1>8 DEF TestStep, BeginTest, AcquireTest, EndTest, table, history
<1>9. ASSUME NEW p \in Proc, Crash(p) \/ Shutdown(p) PROVE Quiet \/ Lost(p)
  <2>1. live' = live /\ row' = row /\ raced' = raced
    BY <1>9 DEF Crash, Shutdown, Forget, table
  <2>2. ~Claimed(p, s)'
    BY <1>9, Forgotten DEF Claimed, IdleTick, NoRun
  <2>3. PICK caught \in SUBSET live :
          /\ \A u \in caught : run[p][u].st \in {"queued", "executing", "delivered"}
          /\ streak' = [u \in Sched |-> IF u \in caught THEN streak[u] + 1 ELSE streak[u]]
          /\ unwritten' = unwritten \cup caught \cup {u \in Sched : run[p][u].st \in Ended}
    <3>1. CASE Crash(p)
      <4>1. streak = [u \in Sched |-> IF u \in {} THEN streak[u] + 1 ELSE streak[u]]
        BY DEF TypeOK
      <4> WITNESS {} \in SUBSET live
      <4>3. QED
        BY <3>1, <4>1 DEF Crash
    <3>2. CASE Shutdown(p)
      <4> DEFINE taken == {u \in live : run[p][u].st \in {"queued", "executing", "delivered"}}
      <4> WITNESS taken \in SUBSET live
      <4>1. QED
        BY <3>2 DEF Shutdown
    <3>3. QED
      BY <1>9, <3>1, <3>2
  <2>4. CASE s \in caught
    <3>1. Claimed(p, s)
      BY <2>3, <2>4 DEF Claimed
    <3>2. QED
      BY <2>1, <2>2, <2>3, <2>4, <3>1
  <2>5. CASE s \notin caught
    BY <2>1, <2>3, <2>5
  <2>6. QED
    BY <2>4, <2>5
<1>10. ASSUME Pass \/ UNCHANGED vars PROVE Quiet
  BY <1>10 DEF Pass, vars, table, history
<1> DEFINE Sum == \/ Quiet \/ Resumed \/ \E e \in Editor : Created(e)
                  \/ \E p \in Proc : Retired(p) \/ Written(p) \/ EndedHere(p) \/ Lost(p)
<1>11. Sum
  <2> HIDE DEF Quiet, Created, Resumed, Retired, Written, EndedHere, Lost
  <2>1. ASSUME NEW e \in Editor, EditStep(e) PROVE Sum
    BY <2>1, <1>2, <1>3, <1>7 DEF EditStep
  <2>2. ASSUME NEW p \in Proc, TickStep(p) PROVE Sum
    BY <2>2, <1>5
  <2>3. ASSUME NEW p \in Proc, NEW u \in Sched, RunStep(p, u) PROVE Sum
    BY <2>3, <1>6
  <2>4. ASSUME NEW u \in Sched, Delete(u) PROVE Quiet
    BY <2>4, <1>4
  <2>5. ASSUME NEW p \in Proc, Crash(p) \/ Shutdown(p) PROVE Sum
    BY <2>5, <1>9
  <2>6. ASSUME NEW p \in Proc, NEW u \in Sched, TestStep(p, u) PROVE Quiet
    BY <2>6, <1>8
  <2>7. CASE Pass \/ UNCHANGED vars
    BY <2>7, <1>10
  <2>8. QED
    BY <2>1, <2>2, <2>3, <2>4, <2>5, <2>6, <2>7 DEF Next
<1>12. ASSUME NEW p \in Proc, Written(p) PROVE Claimed(p, s)
  BY <1>12 DEF RunWriteBack, Claimed
<1>13. QED
  BY <1>11, <1>12

\* The row of a schedule that is not raced stays true to every copy of it.
LEMMA CountedStep ==
  ASSUME TypeOK, JobsInHand, CountInv, [Next]_vars, NEW s \in live', s \notin raced'
  PROVE  Counted(s)'
<1>1. TicksGood /\ s \in Sched /\ s \notin raced
  <2>1. s \in Sched
    BY TypeStep DEF TypeOK
  <2>2. QED
    BY <2>1, CounterForms DEF CountInv
<1>2. s \in fresh => \A p \in Proc : ~Claimed(p, s)
  BY DEF CountInv
<1>3. s \in live => Counted(s)
  BY <1>1 DEF CountInv
<1>4. s \in live \/ s \in fresh
  <2>1. (\E p \in Proc : RunWriteBack(p, s)) => s \in live
    BY DEF RunWriteBack, table
  <2>2. QED
    BY <1>1, <2>1, CounterForms
<1>5. ASSUME NEW p \in Proc, NEW q \in Proc, Claimed(p, s), Claimed(q, s) PROVE p = q
  BY <1>2, <1>3, <1>4, <1>5 DEF Counted
<1>6. ASSUME NEW p \in Proc, NEW n \in Nat, ClaimedCopy(p, s, n) PROVE n = row[s].failures /\ s \in live
  BY <1>2, <1>3, <1>4, <1>6 DEF Counted, ClaimedCopy, Claimed
<1>7. ASSUME NEW p \in Proc, ClaimWon(p), tick'[p].cur \in tick[p].todo, tick'[p].cur.sid = s
      PROVE  /\ run' = run /\ row'[s].failures = row[s].failures
             /\ \A q \in Proc \ {p} : tick'[q] = tick[q]
             /\ \A q \in Proc : ~Claimed(q, s)
             /\ tick'[p].cur.row.failures = row[s].failures
  BY <1>1, <1>7, WonForms
<1>8. ASSUME NEW p \in Proc, Claimed(p, s)', Claimed(p, s) PROVE ~\E q \in Proc : RunWriteBack(q, s)
  <2> SUFFICES ASSUME NEW q \in Proc, RunWriteBack(q, s) PROVE FALSE
    OBVIOUS
  <2>1. Claimed(q, s) /\ ~Claimed(q, s)'
    BY <1>1, WriteBackEnds
  <2>2. p = q
    BY <1>5, <1>8, <2>1
  <2>3. QED
    BY <1>8, <2>1, <2>2
<1>9. ASSUME NEW p \in Proc, NEW q \in Proc, Claimed(p, s)', Claimed(q, s)' PROVE p = q
  <2>1. CASE Claimed(p, s) /\ Claimed(q, s)
    BY <1>5, <2>1
  <2>2. ASSUME NEW d \in Proc, NEW g \in Proc, d # g, Claimed(g, s)', ClaimWon(d),
               tick'[d].cur \in tick[d].todo, tick'[d].cur.sid = s
        PROVE  FALSE
    <3>1. run' = run /\ tick'[g] = tick[g] /\ ~Claimed(g, s)
      BY <1>7, <2>2
    <3>2. QED
      BY <2>2, <3>1 DEF Claimed
  <2>3. QED
    BY <1>1, <1>9, <2>1, <2>2, ClaimForms
<1>10. ASSUME NEW p \in Proc, NEW n \in Nat, ClaimedCopy(p, s, n)' PROVE n = row'[s].failures
  <2>1. Claimed(p, s)'
    BY <1>10 DEF ClaimedCopy, Claimed
  <2>2. CASE Claimed(p, s) /\ ClaimedCopy(p, s, n)
    <3>1. n = row[s].failures /\ s \in live /\ s \notin fresh
      BY <1>2, <1>6, <2>2
    <3>2. ASSUME NEW q \in Proc, tick[q].cur # NoJob, tick[q].cur.sid = s
          PROVE  tick[q].cur.row.failures = row[s].failures
      <4>1. tick[q].cur.row.failures \in Nat
        BY <3>2, TickFields DEF Job, Row
      <4>2. ClaimedCopy(q, s, tick[q].cur.row.failures)
        BY <3>2 DEF ClaimedCopy
      <4>3. QED
        BY <1>6, <4>1, <4>2
    <3>3. ~\E q \in Proc : RunWriteBack(q, s)
      BY <1>8, <2>1, <2>2
    <3>4. row'[s].failures = row[s].failures
      BY <1>1, <2>2, <3>1, <3>2, <3>3, CounterForms
    <3>5. QED
      BY <3>1, <3>4
  <2>3. CASE /\ ClaimWon(p) /\ tick'[p].cur \in tick[p].todo /\ tick'[p].cur.sid = s
             /\ run[p][s].st = "none"
    BY <1>7, <1>10, <2>3 DEF ClaimedCopy
  <2>4. QED
    BY <1>1, <1>10, <2>1, <2>2, <2>3, ClaimForms
<1>11. ASSUME NEW p \in Proc PROVE EndCounts(p, s)'
  <2> SUFFICES ASSUME run'[p][s].st \in Ended
               PROVE  IF run'[p][s].status = "failed"
                        THEN s \in unwritten' \/ streak'[s] = run'[p][s].failures + 1
                        ELSE streak'[s] = 0
    BY DEF EndCounts
  <2>1. Claimed(p, s)'
    BY DEF Claimed, Ended
  <2>2. CASE RunEnd(p, s)
    <3>1. PICK status \in Outcome(run[p][s].st) :
            /\ run' = [run EXCEPT ![p][s].st = "recording", ![p][s].status = status]
            /\ streak' = [streak EXCEPT ![s] = IF status = "failed" THEN @ + 1 ELSE 0]
      BY <2>2 DEF RunEnd
    <3>2. /\ run[p][s].st \in {"executing", "delivered"} /\ unwritten' = unwritten
      BY <2>2 DEF RunEnd
    <3>3. run[p][s] \in Begun /\ run[p][s].failures \in Nat
      BY <1>1, <3>2, BegunType DEF TypeOK, Begun
    <3>4. run'[p][s].status = status /\ run'[p][s].failures = run[p][s].failures
      BY <1>1, <3>1, <3>3 DEF TypeOK, Begun
    <3>5. streak'[s] = IF status = "failed" THEN streak[s] + 1 ELSE 0
      BY <1>1, <3>1 DEF TypeOK
    <3>6. s \notin unwritten => streak[s] = run[p][s].failures
      <4>1. Claimed(p, s) /\ ClaimedCopy(p, s, run[p][s].failures)
        BY <3>2 DEF Claimed, ClaimedCopy
      <4>2. run[p][s].failures = row[s].failures /\ s \in live
        BY <1>6, <3>3, <4>1
      <4>3. ASSUME NEW q \in Proc PROVE run[q][s].st \notin Ended
        <5>1. Claimed(q, s) => q = p
          BY <1>5, <4>1
        <5>2. QED
          BY <3>2, <5>1 DEF Claimed, Ended
      <4>4. QED
        BY <1>3, <4>2, <4>3 DEF Counted, WrittenBack
    <3>7. QED
      BY <3>2, <3>4, <3>5, <3>6
  <2>3. CASE /\ Claimed(p, s) /\ run[p][s].st \in Ended
             /\ run'[p][s].status = run[p][s].status
             /\ run'[p][s].failures = run[p][s].failures
    <3>1. s \in live /\ s \notin fresh /\ EndCounts(p, s)
      BY <1>2, <1>3, <1>4, <2>3 DEF Counted
    <3>2. ~\E q \in Proc : RunWriteBack(q, s)
      BY <1>8, <2>1, <2>3
    <3>3. ~\E q \in Proc : RunEnd(q, s)
      <4> SUFFICES ASSUME NEW q \in Proc, RunEnd(q, s) PROVE FALSE
        OBVIOUS
      <4>1. Claimed(q, s) /\ run[q][s].st \notin Ended
        BY DEF RunEnd, Claimed, Ended
      <4>2. QED
        BY <1>5, <2>3, <4>1
    <3>4. ~\E q \in Proc : Claimed(q, s) /\ ~Claimed(q, s)'
      BY <1>5, <2>1, <2>3
    <3>5. \/ streak'[s] = streak[s] /\ (s \in unwritten' <=> s \in unwritten)
          \/ streak'[s] = streak[s] /\ s \in unwritten'
      BY <1>1, <2>3, <3>1, <3>2, <3>3, <3>4, CounterForms
    <3>6. QED
      BY <2>3, <3>1, <3>5 DEF EndCounts
  <2>4. CASE ClaimWon(p) /\ run[p][s].st = "none"
    BY <2>4 DEF ClaimWon, Ended
  <2>5. QED
    BY <1>1, <2>1, <2>2, <2>3, <2>4, ClaimForms
<1>12. ASSUME s \notin unwritten', WrittenBack(s)' PROVE row'[s].failures = streak'[s]
  <2>1. CASE \E q \in Proc : RunWriteBack(q, s)
    <3>1. PICK q \in Proc : RunWriteBack(q, s)
      BY <2>1
    <3>2. s \in live
      BY <3>1 DEF RunWriteBack, table
    <3>3. /\ run[q][s].st = "writing" /\ streak' = streak
          /\ row'[s].failures = Failures(run[q][s])
          /\ run[q][s].status = "failed" => s \notin unwritten
      BY <1>12, <3>1, <3>2, WriteForms
    <3>4. EndCounts(q, s)
      BY <1>3, <3>2 DEF Counted
    <3>5. QED
      BY <3>3, <3>4 DEF EndCounts, Ended, Failures
  <2>2. CASE ~\E q \in Proc : RunWriteBack(q, s)
    <3>1. ASSUME s \in live, s \notin unwritten PROVE row[s].failures = streak[s]
      <4>1. ASSUME NEW q \in Proc PROVE run[q][s].st \notin Ended
        BY <1>1, <1>12, <2>2, EndedKept DEF WrittenBack
      <4>2. QED
        BY <1>3, <3>1, <4>1 DEF Counted, WrittenBack
    <3>2. ASSUME NEW q \in Proc, s \in live, tick[q].cur # NoJob, tick[q].cur.sid = s
          PROVE  tick[q].cur.row.failures = row[s].failures
      <4>1. tick[q].cur.row.failures \in Nat
        BY <3>2, TickFields DEF Job, Row
      <4>2. ClaimedCopy(q, s, tick[q].cur.row.failures)
        BY <3>2 DEF ClaimedCopy
      <4>3. QED
        BY <1>6, <4>1, <4>2
    <3>3. ~\E q \in Proc : RunEnd(q, s)
      <4> SUFFICES ASSUME NEW q \in Proc, RunEnd(q, s) PROVE FALSE
        OBVIOUS
      <4>1. run'[q][s].st = "recording"
        <5>1. PICK status : run' = [run EXCEPT ![q][s].st = "recording", ![q][s].status = status]
          BY DEF RunEnd
        <5>2. run[q][s] \in Begun
          BY <1>1, BegunType DEF RunEnd, TypeOK
        <5>3. QED
          BY <1>1, <5>1, <5>2 DEF TypeOK, Begun
      <4>2. QED
        BY <1>12, <4>1 DEF WrittenBack, Ended
    <3>4. s \in fresh => streak[s] = 0
      BY DEF CountInv
    <3>5. ASSUME NEW e \in Editor, edit[e].st = "creating" PROVE edit[e].new.failures = 0
      BY <3>5 DEF CountInv
    <3>6. QED
      BY <1>1, <1>12, <2>2, <3>1, <3>2, <3>3, <3>4, <3>5, CounterForms
  <2>3. QED
    BY <2>1, <2>2
<1>13. QED
  BY <1>9, <1>10, <1>11, <1>12 DEF Counted

LEMMA CountStep ==
  ASSUME TypeOK, JobsInHand, CountInv, [Next]_vars PROVE CountInv'
<1>1. FreshUnclaimed' /\ TicksGood'
  BY FreshStep, TicksGoodStep DEF CountInv
<1>2. ASSUME NEW s \in fresh' PROVE streak'[s] = 0 /\ \A p \in Proc : ~Claimed(p, s)'
  <2>1. s \in fresh /\ s \in Sched /\ s \notin live
    BY CountersKept DEF CountInv, FreshUnclaimed, TypeOK
  <2>2. streak[s] = 0 /\ \A p \in Proc : ~Claimed(p, s)
    BY <2>1 DEF CountInv
  <2>3. streak'[s] = 0
    BY <2>1, <2>2, CounterForms
  <2>4. ASSUME NEW p \in Proc PROVE ~Claimed(p, s)'
    BY <2>1, <2>2, ClaimForms, WonForms DEF CountInv
  <2>5. QED
    BY <2>3, <2>4
<1>3. ASSUME NEW e \in Editor, edit'[e].st = "creating" PROVE edit'[e].new.failures = 0
  <2>1. CASE edit'[e] = edit[e]
    BY <1>3, <2>1 DEF CountInv
  <2>2. ASSUME NEW d \in Editor, BeginCreate(d) PROVE edit'[e] = edit[e] \/ edit'[e].new.failures = 0
    <3>1. PICK c \in Cron, b \in Starts, z \in Ends, a \in BOOLEAN :
            edit' = [edit EXCEPT ![d] =
              [st |-> "creating",
               new |-> WithNext(Draft(c, b, z, a), ComputeNextRun(Draft(c, b, z, a), now))]]
      BY <2>2 DEF BeginCreate
    <3>2. PICK first : first = ComputeNextRun(Draft(c, b, z, a), now)
      OBVIOUS
    <3>3. WithNext(Draft(c, b, z, a), first).failures = 0
      BY DEF WithNext, Draft
    <3>4. QED
      BY <3>1, <3>2, <3>3 DEF TypeOK
  <2>3. ASSUME NEW d \in Editor, BeginPatch(d) \/ FinishPatch(d) \/ FinishCreate(d)
        PROVE  edit'[e] = edit[e] \/ edit'[e].st # "creating"
    BY <2>3 DEF BeginPatch, FinishPatch, FinishCreate, IdleEdit, TypeOK
  <2>4. edit' = edit \/ \E d \in Editor : EditStep(d)
    BY EditsApart
  <2>5. QED
    BY <1>3, <2>1, <2>2, <2>3, <2>4 DEF EditStep
<1>4. ASSUME NEW s \in live' \ raced' PROVE Counted(s)'
  BY <1>4, CountedStep
<1>5. QED
  BY <1>1, <1>2, <1>3, <1>4 DEF CountInv

(* consecutive_failures counts the runs that failed in a row, for any number *)
(* of processes: although every run writes it from a copy, it is exact but   *)
(* where an outcome was lost (a write that raised, a crash or a shutdown     *)
(* between a run's end and its write) and not yet made up for, or where a    *)
(* claim overlapped another claim, a resume or a write it had not seen.      *)
THEOREM CountsFailures == Spec => []FailureCountExact
<1>1. Init => CountInv
  BY TicksGoodInit DEF Init, CountInv, FreshUnclaimed, Claimed, IdleTick, NoRun, IdleEdit
<1>2. TypeOK /\ JobsInHand /\ CountInv /\ [Next]_vars => CountInv'
  BY CountStep
<1>3. CountInv => FailureCountExact
  BY DEF CountInv, Counted, FailureCountExact
<1>4. QED
  BY <1>1, <1>2, <1>3, TypeCorrect, PTL DEF Spec

-----------------------------------------------------------------------------
(* A tick ends: whatever a process does takes its tick to fewer rows, or to  *)
(* a later stage with the rows it has, or takes one of its runs to a later   *)
(* stage.  A tick holds finitely many rows, so it takes so many steps and no *)
(* more; that they are taken is up to fairness.                              *)

\* A tick has its rows once they are listed, and goes around with each.
TickStage(k) ==
  CASE k.st = "retiring" -> 0 [] k.st = "settling" -> 1 [] k.st = "claiming" -> 2
    [] OTHER -> 3

\* A run that is no more is past every stage.
RunStage(r) ==
  CASE r.st = "appended" -> 0 [] r.st = "queued" -> 1 [] r.st = "executing" -> 2
    [] r.st = "delivered" -> 3 [] r.st = "recording" -> 4 [] r.st = "writing" -> 5
    [] OTHER -> 6

RowsDescend(k, l) ==
  \/ k.st = "listing" /\ l.st = "claiming"
  \/ /\ k.st # "listing" /\ l.st # "listing"
     /\ \/ l.todo \subseteq k.todo /\ l.todo # k.todo
        \/ l.todo = k.todo /\ TickStage(l) > TickStage(k)

RunsDescend(p) == \E s \in Sched :
  /\ RunStage(run'[p][s]) > RunStage(run[p][s])
  /\ \A u \in Sched \ {s} : run'[p][u] = run[p][u]

ProcessDescends(p) ==
  \/ tick'[p] = tick[p] /\ (run'[p] = run[p] \/ RunsDescend(p))
  \/ tick[p].st = "idle"
  \/ tick'[p] = IdleTick
  \/ RowsDescend(tick[p], tick'[p])

\* A row that was lost is not tried again.
LEMMA PassesDescend ==
  ASSUME TypeOK, NEW p \in Proc, ClaimLost(p) \/ ClaimFailed(p)
  PROVE  RowsDescend(tick[p], tick'[p])
<1>1. PICK j \in tick[p].todo : tick' = [tick EXCEPT ![p].todo = @ \ {j}]
  BY DEF ClaimLost, ClaimFailed
<1>2. tick \in [Proc -> TickType] /\ tick[p] \in TickType
  BY DEF TypeOK
<1>3. tick'[p].st = tick[p].st /\ tick'[p].todo = tick[p].todo \ {j}
  BY <1>1, <1>2 DEF TickType
<1>4. tick[p].st = "claiming"
  BY DEF ClaimLost, ClaimFailed, NextJob
<1>5. QED
  BY <1>1, <1>3, <1>4 DEF RowsDescend

LEMMA TickDescends ==
  ASSUME TypeOK, JobsInHand, NEW p \in Proc, TickStep(p)
  PROVE  ProcessDescends(p)
<1>1. CASE ClaimLost(p) \/ ClaimFailed(p)
  BY <1>1, PassesDescend DEF ProcessDescends
<1>2. CASE ~(ClaimLost(p) \/ ClaimFailed(p))
  <2>1. \/ tick[p].st = "idle" \/ tick'[p] = IdleTick
        \/ tick[p].st = "listing" /\ tick'[p].st = "claiming"
        \/ /\ tick[p].st = "claiming" /\ tick'[p].st \in {"retiring", "settling"}
           /\ tick'[p].cur \in tick[p].todo
           /\ tick'[p].todo = tick[p].todo \ {tick'[p].cur}
        \/ /\ tick[p].st = "retiring" /\ tick'[p].st = "settling"
           /\ tick'[p].todo = tick[p].todo
        \/ /\ tick[p].st = "settling" /\ tick'[p].st = "claiming"
           /\ tick'[p].todo = tick[p].todo
        \/ /\ tick[p].st = "claiming" /\ tick'[p].st = "running"
           /\ tick'[p].todo = tick[p].todo
        \/ tick[p].st = "claiming" /\ tick'[p].st = "claiming"
    BY TickForms
  <2>2. ~(tick[p].st = "claiming" /\ tick'[p].st = "claiming")
    <3>1. CASE ClaimWon(p)
      <4>1. PICK j \in tick[p].todo, st \in {"retiring", "settling"} :
              tick' = [tick EXCEPT ![p].st = st, ![p].todo = @ \ {j}, ![p].cur = j]
        BY <3>1 DEF ClaimWon
      <4>2. tick'[p].st = st
        BY <4>1 DEF TypeOK, TickType
      <4>3. QED
        BY <4>2
    <3>2. CASE StartRuns(p)
      <4>1. tick'[p].st = "running"
        BY <3>2 DEF StartRuns, TypeOK, TickType
      <4>2. QED
        BY <4>1
    <3>3. CASE ~ClaimWon(p) /\ ~StartRuns(p)
      BY <1>2, <3>3 DEF TickStep, TickStart, ListDue, ListFailed, Retire, SkipMisfire,
         AppendRun, TickEnd
    <3>4. QED
      BY <3>1, <3>2, <3>3
  <2>3. QED
    BY <2>1, <2>2 DEF ProcessDescends, RowsDescend, TickStage
<1>3. QED
  BY <1>1, <1>2

LEMMA RunDescends ==
  ASSUME TypeOK, NEW p \in Proc, NEW s \in Sched, RunStep(p, s)
  PROVE  RunsDescend(p)
<1>1. \A u \in Sched \ {s} : run'[p][u] = run[p][u]
  BY RunForms
<1>2. \/ run[p][s].st = "writing" /\ run'[p][s].st = "none"
      \/ run[p][s].st = "queued" /\ run'[p][s].st = "executing"
      \/ run[p][s].st = "executing" /\ run'[p][s].st = "delivered"
      \/ run[p][s].st \in {"executing", "delivered"} /\ run'[p][s].st = "recording"
      \/ run[p][s].st = "recording" /\ run'[p][s].st = "writing"
  <2>1. /\ RunAcquire(p, s) => run[p][s].st = "queued"
        /\ RunDeliver(p, s) => run[p][s].st = "executing"
        /\ RunEnd(p, s) => run[p][s].st \in {"executing", "delivered"}
        /\ RunRecord(p, s) => run[p][s].st = "recording"
    BY DEF RunAcquire, RunDeliver, RunEnd, RunRecord
  <2>2. \/ run[p][s].st = "writing" /\ run'[p][s] = NoRun
        \/ RunAcquire(p, s) /\ run'[p][s].st = "executing"
        \/ RunDeliver(p, s) /\ run'[p][s].st = "delivered"
        \/ RunEnd(p, s) /\ run'[p][s].st = "recording"
        \/ RunRecord(p, s) /\ run'[p][s].st = "writing"
    BY RunForms
  <2>3. NoRun.st = "none"
    BY DEF NoRun
  <2>4. QED
    BY <2>1, <2>2, <2>3
<1>3. RunStage(run'[p][s]) > RunStage(run[p][s])
  BY <1>2 DEF RunStage
<1>4. QED
  BY <1>1, <1>3 DEF RunsDescend

\* No tick goes back, to a row it has passed over or to a run it has made,
\* whichever claims are lost and whichever writes fail.
THEOREM TicksDescend == Spec => [][\A p \in Proc : ProcessDescends(p)]_vars
<1>1. ASSUME TypeOK, JobsInHand, Next, NEW p \in Proc PROVE ProcessDescends(p)
  <2>1. CASE tick'[p] = tick[p] /\ run'[p] = run[p]
    BY <2>1 DEF ProcessDescends
  <2>2. CASE TickStep(p)
    BY <1>1, <2>2, TickDescends
  <2>3. CASE Crash(p) \/ Shutdown(p)
    BY <1>1, <2>3, Forgotten DEF ProcessDescends
  <2>4. ASSUME NEW s \in Sched, RunStep(p, s), tick' = tick PROVE ProcessDescends(p)
    BY <1>1, <2>4, RunDescends DEF ProcessDescends
  <2>5. QED
    BY <1>1, <2>1, <2>2, <2>3, <2>4, OthersApart
<1> DEFINE Descend == \A p \in Proc : ProcessDescends(p)
<1>2. TypeOK /\ JobsInHand /\ Next => Descend
  BY <1>1
<1> HIDE DEF Descend
<1>3. TypeOK /\ JobsInHand /\ [Next]_vars => [Descend]_vars
  BY <1>2
<1>4. QED
  BY <1>3, TypeCorrect, PTL DEF Spec, Descend
=============================================================================
