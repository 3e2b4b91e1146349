--------------------------- MODULE SchedulerProofs ---------------------------
(***************************************************************************)
(* Theorems about Scheduler, for any number of schedules, processes and    *)
(* editors, any cron expressions and any bounds.                           *)
(***************************************************************************)
EXTENDS Scheduler, TLAPS

(* The search for the next firing time answers within the expression's     *)
(* set, with an instant after the one it starts from.                      *)
LEMMA NextAfterForward ==
  ASSUME NEW fires \in SUBSET Nat, NEW t \in Int
  PROVE  /\ NextAfter(fires, t) \in fires \cup {NoTime}
         /\ NextAfter(fires, t) # NoTime => NextAfter(fires, t) > t
  BY DEF NextAfter, IsNext

(* So does next_run, and when no firing time falls in the minute before    *)
(* the start, its answer is also after the instant it was asked for.       *)
LEMMA NextRunForward ==
  ASSUME NEW fires \in SUBSET Nat, NEW after \in Nat,
         NEW starts \in Nat \cup {NoTime}, NEW ends \in Nat \cup {NoTime}
  PROVE  /\ NextRun(fires, after, starts, ends) \in fires \cup {NoTime}
         /\ (starts # NoTime => \A u \in fires : u > starts - Minute => u >= starts) =>
              (NextRun(fires, after, starts, ends) # NoTime =>
                 NextRun(fires, after, starts, ends) > after)
<1>1. PICK c \in Int : c = Cursor(after, starts)
  BY FiringTimesAssumption DEF Cursor
<1>2. PICK u : u = NextAfter(fires, c)
  OBVIOUS
<1>3. u \in fires \cup {NoTime} /\ (u # NoTime => u > c)
  BY <1>2, NextAfterForward
<1>4. NextRun(fires, after, starts, ends) \in {NoTime, u}
  BY <1>1, <1>2 DEF NextRun
<1>5. CASE starts # NoTime /\ starts > after
  <2>1. c = starts - Minute
    BY <1>1, <1>5 DEF Cursor
  <2>2. QED
    BY <1>3, <1>4, <1>5, <2>1, FiringTimesAssumption
<1>6. CASE ~(starts # NoTime /\ starts > after)
  <2>1. c = after
    BY <1>1, <1>6 DEF Cursor
  <2>2. QED
    BY <1>3, <1>4, <2>1
<1>7. QED
  BY <1>5, <1>6

LEMMA SlotsAreNat == Slot \subseteq Nat
  BY SchedulerAssumption DEF Slot

LEMMA FiresAreNat ==
  ASSUME NEW c \in Cron
  PROVE  Fires[c] \in SUBSET Nat /\ Fires[c] \subseteq Slot
  BY SchedulerAssumption DEF Slot

(* compute_next_run yields a slot of the table.                            *)
LEMMA ComputeNextRunType ==
  ASSUME NEW r \in Row, NEW moment \in Nat
  PROVE  ComputeNextRun(r, moment) \in Slot \cup {NoTime}
<1>1. /\ Fires[r.cron] \in SUBSET Nat
      /\ Fires[r.cron] \subseteq Slot
      /\ r.starts \in Nat \cup {NoTime}
      /\ r.ends \in Nat \cup {NoTime}
  BY FiresAreNat, SchedulerAssumption DEF Row
<1>2. QED
  BY <1>1, NextRunForward DEF ComputeNextRun

(* So does a claim.                                                        *)
LEMMA UpcomingType ==
  ASSUME NEW j \in Job, NEW moment \in Nat
  PROVE  Upcoming(j, moment) \in Slot \cup {NoTime}
<1>1. /\ Fires[j.row.cron] \in SUBSET Nat
      /\ Fires[j.row.cron] \subseteq Slot
      /\ j.row.starts \in Nat \cup {NoTime}
      /\ j.row.ends \in Nat \cup {NoTime}
  BY FiresAreNat, SchedulerAssumption DEF Job, Row
<1>2. QED
  BY <1>1, NextRunForward DEF Upcoming

(* The slot a claim writes is later than the tick that makes it: this is   *)
(* where a start within a minute would let an occurrence come back.        *)
LEMMA UpcomingForward ==
  ASSUME StartsOnTheMinute, NEW j \in Job, NEW moment \in Nat
  PROVE  Upcoming(j, moment) # NoTime => Upcoming(j, moment) > moment
<1>1. /\ Fires[j.row.cron] \in SUBSET Nat
      /\ j.row.starts \in Nat \cup {NoTime}
      /\ j.row.ends \in Nat \cup {NoTime}
  BY FiresAreNat, SchedulerAssumption DEF Job, Row
<1>2. j.row.starts # NoTime =>
        \A u \in Fires[j.row.cron] : u > j.row.starts - Minute => u >= j.row.starts
  BY DEF StartsOnTheMinute, Job, Row
<1>3. QED
  BY <1>1, <1>2, NextRunForward DEF Upcoming

-----------------------------------------------------------------------------
(* Types.                                                                  *)

LEMMA BlankRowType == BlankRow \in Row
  BY SchedulerAssumption DEF BlankRow, Row

LEMMA MergeType ==
  ASSUME NEW r \in Row, NEW pay \in Patches
  PROVE  Merge(r, pay) \in Row
  BY SchedulerAssumption DEF Merge, Row, Patch

LEMMA PatchedType ==
  ASSUME NEW r \in Row, NEW pay \in Patches, NEW old \in Row,
         NEW next \in Slot \cup {NoTime}
  PROVE  Patched(r, pay, old, next) \in Row
  BY MergeType DEF Patched, Row

LEMMA WithNextType ==
  ASSUME NEW r \in Row, NEW next \in Slot \cup {NoTime}
  PROVE  WithNext(r, next) \in Row
  BY DEF WithNext, Row

(* What a request holds between its read and its write.                    *)
LEMMA PatchingType ==
  ASSUME TypeOK, NEW e \in Editor, edit[e].st = "patching"
  PROVE  /\ edit[e].sid \in Sched
         /\ edit[e].pay \in Patches
         /\ edit[e].old \in Row
         /\ edit[e].at \in Time
  BY DEF TypeOK, EditType, IdleEdit

LEMMA CreatingType ==
  ASSUME TypeOK, NEW e \in Editor, edit[e].st = "creating"
  PROVE  edit[e].new \in Row
  BY DEF TypeOK, EditType, IdleEdit

LEMMA InitType == Init => TypeOK
  BY BlankRowType, SchedulerAssumption, SlotsAreNat
  DEF Init, TypeOK, Time, EditType, TickType, RunType, IdleEdit, IdleTick, NoRun

LEMMA BeginCreateType ==
  ASSUME TypeOK, NEW e \in Editor, BeginCreate(e) PROVE TypeOK'
<1>1. PICK c \in Cron, b \in Starts, z \in Ends, a \in BOOLEAN :
        edit' = [edit EXCEPT ![e] =
          [st |-> "creating",
           new |-> WithNext(Draft(c, b, z, a), ComputeNextRun(Draft(c, b, z, a), now))]]
  BY DEF BeginCreate
<1>2. Draft(c, b, z, a) \in Row /\ now \in Nat
  BY SchedulerAssumption DEF Draft, Row, TypeOK, Time
<1>3. WithNext(Draft(c, b, z, a), ComputeNextRun(Draft(c, b, z, a), now)) \in Row
  BY <1>2, ComputeNextRunType, WithNextType
<1>4. edit' \in [Editor -> EditType]
  BY <1>1, <1>3 DEF TypeOK, EditType
<1>5. QED
  BY <1>4 DEF BeginCreate, TypeOK, table, history

LEMMA FinishCreateType ==
  ASSUME TypeOK, NEW e \in Editor, FinishCreate(e) PROVE TypeOK'
<1>1. edit' \in [Editor -> EditType] /\ edit[e].new \in Row
  BY DEF FinishCreate, TypeOK, EditType, IdleEdit
<1>2. row' \in [Sched -> Row] /\ fresh' \subseteq Sched /\ live' \subseteq Sched
  BY <1>1 DEF FinishCreate, TypeOK, table
<1>3. QED
  BY <1>1, <1>2 DEF FinishCreate, TypeOK, history

LEMMA BeginPatchType ==
  ASSUME TypeOK, NEW e \in Editor, BeginPatch(e) PROVE TypeOK'
<1>1. edit' \in [Editor -> EditType]
  BY DEF BeginPatch, TypeOK, EditType
<1>2. edits' \in 0..MaxEdits
  BY SchedulerAssumption DEF BeginPatch, TypeOK
<1>3. QED
  BY <1>1, <1>2 DEF BeginPatch, TypeOK, table, history

LEMMA FinishPatchType ==
  ASSUME TypeOK, NEW e \in Editor, FinishPatch(e) PROVE TypeOK'
<1> DEFINE s == edit[e].sid
           pay == edit[e].pay
           old == edit[e].old
<1>1. s \in Sched /\ pay \in Patches /\ old \in Row /\ edit[e].at \in Time
  <2>1. edit[e].st = "patching"
    BY DEF FinishPatch
  <2>2. QED
    BY <2>1, PatchingType
<1>2. \A m \in edit[e].at..now :
        Patched(row[s], pay, old, ComputeNextRun(Merge(old, pay), m)) \in Row
  <2> TAKE m \in edit[e].at..now
  <2>1. m \in Nat
    BY <1>1 DEF TypeOK, Time
  <2>2. QED
    BY <1>1, <2>1, MergeType, ComputeNextRunType, PatchedType DEF TypeOK
<1>3. row' \in [Sched -> Row]
  BY <1>1, <1>2 DEF FinishPatch, TypeOK
<1>4. /\ rewound' \subseteq Sched /\ streak' \in [Sched -> Nat]
      /\ unwritten' \subseteq Sched /\ raced' \subseteq Sched
  <2>1. /\ rewound' \in {rewound, rewound \cup {s}}
        /\ unwritten' \in {unwritten, unwritten \ {s}}
        /\ raced' \in {raced, raced \cup {s}}
    BY DEF FinishPatch
  <2>2. streak' \in [Sched -> Nat]
    <3>1. streak' = streak \/ streak' = [streak EXCEPT ![s] = 0]
      BY DEF FinishPatch
    <3>2. s \in Sched /\ streak \in [Sched -> Nat]
      BY <1>1 DEF TypeOK
    <3>3. QED
      BY <3>1, <3>2
  <2>3. unwritten' \subseteq Sched
    BY <2>1 DEF TypeOK
  <2>4. QED
    BY <1>1, <2>1, <2>2, <2>3 DEF TypeOK
<1>5. edit' \in [Editor -> EditType]
  BY DEF FinishPatch, TypeOK, EditType
<1>6. QED
  BY <1>3, <1>4, <1>5 DEF FinishPatch, TypeOK

LEMMA DeleteType ==
  ASSUME TypeOK, NEW s \in Sched, Delete(s) PROVE TypeOK'
  BY BlankRowType DEF Delete, TypeOK, clients, history

LEMMA TestStepType ==
  ASSUME TypeOK, NEW p \in Proc, NEW s \in Sched, TestStep(p, s) PROVE TypeOK'
<1>1. test' \in [Proc -> [Sched -> {"none", "queued", "executing"}]]
  <2>1. \E x \in {"none", "queued", "executing"} : test' = [test EXCEPT ![p][s] = x]
    BY DEF TestStep, BeginTest, AcquireTest, EndTest
  <2>2. QED
    BY <2>1 DEF TypeOK
<1>2. tests' \in 0..MaxTests
  BY SchedulerAssumption DEF TestStep, BeginTest, AcquireTest, EndTest, TypeOK
<1>3. QED
  BY <1>1, <1>2 DEF TestStep, BeginTest, AcquireTest, EndTest, TypeOK, table, history

(* A write that raises is counted, within its bound.                       *)
LEMMA FaultType ==
  ASSUME TypeOK, NEW kind, Fault(kind) PROVE faults' \in 0..MaxFaults
  BY SchedulerAssumption DEF Fault, TypeOK

(* The updates a tick makes to its own record.                             *)
LEMMA TickUpdateType ==
  ASSUME NEW k \in TickType, NEW moment \in Time, NEW todo \in SUBSET Job,
         NEW cur \in Job \cup {NoJob},
         NEW st \in {"idle", "listing", "claiming", "retiring", "settling", "running"}
  PROVE  /\ [k EXCEPT !.st = st] \in TickType
         /\ [k EXCEPT !.todo = todo] \in TickType
         /\ [k EXCEPT !.st = st, !.moment = moment] \in TickType
         /\ [k EXCEPT !.st = st, !.todo = todo] \in TickType
         /\ [k EXCEPT !.st = st, !.cur = cur] \in TickType
         /\ [k EXCEPT !.st = st, !.todo = todo, !.cur = cur] \in TickType
<1>1. [k EXCEPT !.st = st] \in TickType
  BY DEF TickType
<1>2. [k EXCEPT !.todo = todo] \in TickType
  BY DEF TickType
<1>3. [k EXCEPT !.st = st, !.moment = moment] \in TickType
  BY DEF TickType
<1>4. [k EXCEPT !.st = st, !.todo = todo] \in TickType
  BY DEF TickType
<1>5. [k EXCEPT !.st = st, !.cur = cur] \in TickType
  BY DEF TickType
<1>6. [k EXCEPT !.st = st, !.todo = todo, !.cur = cur] \in TickType
  BY DEF TickType
<1>7. QED
  BY <1>1, <1>2, <1>3, <1>4, <1>5, <1>6

LEMMA TickStartType ==
  ASSUME TypeOK, NEW p \in Proc, TickStart(p) PROVE TypeOK'
<1>1. tick' \in [Proc -> TickType]
  <2>1. tick \in [Proc -> TickType] /\ now \in Time
    BY DEF TypeOK
  <2>2. tick' = [tick EXCEPT ![p] = [tick[p] EXCEPT !.st = "listing", !.moment = now]]
    BY <2>1 DEF TickStart
  <2>3. [tick[p] EXCEPT !.st = "listing", !.moment = now] \in TickType
    BY <2>1, TickUpdateType
  <2>4. QED
    BY <2>1, <2>2, <2>3
<1>2. QED
  BY <1>1 DEF TickStart, TypeOK, table, clients, history

LEMMA IdleTickType == IdleTick \in TickType
  BY SchedulerAssumption DEF IdleTick, TickType, Time

LEMMA ListDueType ==
  ASSUME TypeOK, NEW p \in Proc, ListDue(p) PROVE TypeOK'
<1>1. CASE tick' = [tick EXCEPT ![p] = IdleTick]
  BY <1>1, IdleTickType DEF ListDue, TypeOK, table, clients, history
<1>2. CASE \E batch \in SUBSET Due(tick[p].moment) :
             tick' = [tick EXCEPT ![p].st = "claiming",
                        ![p].todo = {[sid |-> s, row |-> row[s]] : s \in batch}]
  <2>1. PICK batch \in SUBSET Due(tick[p].moment) :
          tick' = [tick EXCEPT ![p].st = "claiming",
                     ![p].todo = {[sid |-> s, row |-> row[s]] : s \in batch}]
    BY <1>2
  <2>2. {[sid |-> s, row |-> row[s]] : s \in batch} \subseteq Job
    BY <2>1 DEF Due, Job, TypeOK
  <2> DEFINE todo == {[sid |-> s, row |-> row[s]] : s \in batch}
             k == [tick[p] EXCEPT !.st = "claiming", !.todo = todo]
  <2>3. tick \in [Proc -> TickType] /\ now \in Time
    BY DEF TypeOK
  <2>4. k \in TickType
    <3>1. todo \in SUBSET Job
      BY <2>2
    <3> HIDE DEF todo
    <3>2. QED
      BY <2>3, <3>1, TickUpdateType
  <2>5. tick' = [tick EXCEPT ![p] = k]
    BY <2>1, <2>3
  <2>6. tick' \in [Proc -> TickType]
    <3> HIDE DEF k
    <3>1. QED
      BY <2>3, <2>4, <2>5
  <2>7. QED
    BY <2>6 DEF ListDue, TypeOK, table, clients, history
<1>3. QED
  BY <1>1, <1>2 DEF ListDue

(* What a tick holds: rows that were due at its moment, and the one it has *)
(* just claimed exactly while it decides what to do with it.               *)
HeldOK(k, clock) ==
  /\ k.moment <= clock
  /\ \A j \in k.todo : j.row.next \in Slot /\ j.row.next <= k.moment
  /\ k.cur # NoJob => k.cur.row.next \in Slot /\ k.cur.row.next <= k.moment
  /\ k.st \in {"retiring", "settling"} <=> k.cur # NoJob
  /\ k.st \in {"idle", "listing", "running"} => k.todo = {}

JobsInHand == \A p \in Proc : HeldOK(tick[p], now)

LEMMA TickFields ==
  ASSUME TypeOK, NEW p \in Proc
  PROVE  /\ tick[p].moment \in Nat
         /\ tick[p].todo \subseteq Job
         /\ tick[p].cur \in Job \cup {NoJob}
  BY SchedulerAssumption DEF TypeOK, TickType, Time

(* The row in hand while a claim is retired or settled.                    *)
LEMMA CurFields ==
  ASSUME TypeOK, JobsInHand, NEW p \in Proc, tick[p].st \in {"retiring", "settling"}
  PROVE  /\ tick[p].cur \in Job
         /\ tick[p].cur.sid \in Sched
         /\ tick[p].cur.row \in Row
         /\ tick[p].cur.row.next \in Slot
         /\ tick[p].cur.row.failures \in Nat
<1>1. tick[p].cur \in Job /\ tick[p].cur.row.next \in Slot
  BY TickFields DEF JobsInHand, HeldOK
<1>2. QED
  BY <1>1 DEF Job, Row

(* A row the tick is done with leaves its list.                            *)
LEMMA DropJobType ==
  ASSUME TypeOK, NEW p \in Proc, NEW j,
         tick' = [tick EXCEPT ![p].todo = @ \ {j}]
  PROVE  tick' \in [Proc -> TickType]
<1>1. tick[p].todo \ {j} \in SUBSET Job
  BY TickFields
<1>2. [tick[p] EXCEPT !.todo = tick[p].todo \ {j}] \in TickType
  BY <1>1, TickUpdateType DEF TypeOK
<1>3. tick' = [tick EXCEPT ![p] = [tick[p] EXCEPT !.todo = tick[p].todo \ {j}]]
  OBVIOUS
<1>4. QED
  BY <1>2, <1>3 DEF TypeOK

LEMMA ClaimWonType ==
  ASSUME TypeOK, JobsInHand, NEW p \in Proc, ClaimWon(p) PROVE TypeOK'
<1>1. PICK j \in tick[p].todo :
        /\ Claimable(j)
        /\ row' = [row EXCEPT ![j.sid].next = Upcoming(j, tick[p].moment)]
        /\ tick' = [tick EXCEPT
             ![p].st = IF Upcoming(j, tick[p].moment) = NoTime
                         THEN "retiring" ELSE "settling",
             ![p].todo = @ \ {j},
             ![p].cur = j]
        /\ claims' = [claims EXCEPT ![j.sid][j.row.next] = @ + 1]
  BY DEF ClaimWon
<1>2. j \in Job /\ tick[p].moment \in Nat /\ j.sid \in Sched /\ j.row.next \in Slot
  BY TickFields DEF JobsInHand, HeldOK, Job
<1>3. row' \in [Sched -> Row]
  BY <1>1, <1>2, UpcomingType DEF TypeOK, Row, Job
<1>4. tick' \in [Proc -> TickType]
  <2>1. PICK st \in {"retiring", "settling"} :
          tick' = [tick EXCEPT ![p].st = st, ![p].todo = @ \ {j}, ![p].cur = j]
    BY <1>1
  <2>2. tick[p].todo \ {j} \in SUBSET Job
    BY TickFields
  <2>3. [tick[p] EXCEPT !.st = st, !.todo = tick[p].todo \ {j}, !.cur = j] \in TickType
    <3>1. tick[p] \in TickType /\ j \in Job \cup {NoJob} /\ now \in Time
      BY <1>2 DEF TypeOK
    <3>2. QED
      BY <2>1, <2>2, <3>1, TickUpdateType
  <2>4. QED
    BY <2>1, <2>3 DEF TypeOK
<1>5. claims' \in [Sched -> [Slot -> Nat]]
  BY <1>1, <1>2 DEF TypeOK
<1>6. QED
  BY <1>3, <1>4, <1>5 DEF ClaimWon, TypeOK, clients

LEMMA ClaimLostType ==
  ASSUME TypeOK, NEW p \in Proc, ClaimLost(p) PROVE TypeOK'
<1>1. PICK j \in tick[p].todo : tick' = [tick EXCEPT ![p].todo = @ \ {j}]
  BY DEF ClaimLost
<1>2. tick' \in [Proc -> TickType]
  BY <1>1, DropJobType
<1>3. QED
  BY <1>2 DEF ClaimLost, TypeOK, table, clients, history

LEMMA ClaimFailedType ==
  ASSUME TypeOK, NEW p \in Proc, ClaimFailed(p) PROVE TypeOK'
<1>1. PICK j \in tick[p].todo :
        /\ Fault("db")
        /\ tick' = [tick EXCEPT ![p].todo = @ \ {j}]
        /\ \/ UNCHANGED row
           \/ row' = [row EXCEPT ![j.sid].next = Upcoming(j, tick[p].moment)]
  BY DEF ClaimFailed
<1>2. j \in Job /\ tick[p].moment \in Nat /\ j.sid \in Sched
  BY TickFields DEF Job
<1>3. row' \in [Sched -> Row]
  <2>1. Upcoming(j, tick[p].moment) \in Slot \cup {NoTime}
    BY <1>2, UpcomingType
  <2>2. CASE UNCHANGED row
    BY <2>2 DEF TypeOK
  <2>3. CASE row' = [row EXCEPT ![j.sid].next = Upcoming(j, tick[p].moment)]
    <3>1. WithNext(row[j.sid], Upcoming(j, tick[p].moment)) \in Row
      BY <1>2, <2>1, WithNextType DEF TypeOK
    <3>2. QED
      BY <1>2, <2>3, <3>1 DEF TypeOK, WithNext
  <2>4. QED
    BY <1>1, <2>2, <2>3
<1>4. tick' \in [Proc -> TickType]
  BY <1>1, DropJobType
<1>5. faults' \in 0..MaxFaults
  BY <1>1, FaultType
<1>6. QED
  BY <1>3, <1>4, <1>5 DEF ClaimFailed, TypeOK, clients, history

LEMMA ListFailedType ==
  ASSUME TypeOK, NEW p \in Proc, ListFailed(p) PROVE TypeOK'
<1>1. tick' \in [Proc -> TickType]
  BY IdleTickType DEF ListFailed, TypeOK
<1>2. faults' \in 0..MaxFaults
  BY FaultType DEF ListFailed
<1>3. QED
  BY <1>1, <1>2 DEF ListFailed, TypeOK, table, clients, history

LEMMA FinishedType ==
  ASSUME NEW r \in Row, NEW n \in Nat, NEW pause \in BOOLEAN
  PROVE  Finished(r, n, pause) \in Row
  BY DEF Finished, Row

LEMMA RetireType ==
  ASSUME TypeOK, JobsInHand, NEW p \in Proc, Retire(p) PROVE TypeOK'
<1>1. tick[p].cur.sid \in Sched /\ tick[p].cur.row.failures \in Nat
  BY CurFields DEF Retire
<1>2. row' \in [Sched -> Row]
  <2>1. Finished(row[tick[p].cur.sid], tick[p].cur.row.failures, TRUE) \in Row
    BY <1>1, FinishedType DEF TypeOK
  <2>2. QED
    BY <1>1, <2>1 DEF Retire, TypeOK
<1>3. tick' \in [Proc -> TickType]
  <2>1. tick \in [Proc -> TickType] /\ now \in Time
    BY DEF TypeOK
  <2>2. tick' = [tick EXCEPT ![p] = [tick[p] EXCEPT !.st = "settling"]]
    BY <2>1 DEF Retire
  <2>3. [tick[p] EXCEPT !.st = "settling"] \in TickType
    BY <2>1, TickUpdateType
  <2>4. QED
    BY <2>1, <2>2, <2>3
<1>4. faults' \in 0..MaxFaults
  BY FaultType DEF Retire, TypeOK
<1>5. QED
  BY <1>2, <1>3, <1>4 DEF Retire, TypeOK, clients, history

LEMMA RecordType ==
  ASSUME TypeOK, NEW s \in Sched, NEW t \in Slot, NEW status \in Status,
         Record(s, t, status)
  PROVE  /\ logged' \in [Sched -> SUBSET (Slot \X Status)]
         /\ dropped' \in [Sched -> SUBSET Slot]
         /\ faults' \in 0..MaxFaults
<1>1. logged' \in [Sched -> SUBSET (Slot \X Status)]
  <2>1. logged[s] \cup {<<t, status>>} \in SUBSET (Slot \X Status)
    BY DEF TypeOK
  <2>2. \/ logged' = logged
        \/ logged' = [logged EXCEPT ![s] = logged[s] \cup {<<t, status>>}]
    BY DEF Record
  <2>3. QED
    BY <2>1, <2>2 DEF TypeOK
<1>2. dropped' \in [Sched -> SUBSET Slot]
  BY DEF Record, TypeOK
<1>3. faults' \in 0..MaxFaults
  BY FaultType DEF Record, TypeOK
<1>4. QED
  BY <1>1, <1>2, <1>3

LEMMA SkipMisfireType ==
  ASSUME TypeOK, JobsInHand, NEW p \in Proc, SkipMisfire(p) PROVE TypeOK'
<1>1. /\ tick[p].cur.sid \in Sched
      /\ tick[p].cur.row.next \in Slot
  BY CurFields DEF SkipMisfire
<1>2. /\ logged' \in [Sched -> SUBSET (Slot \X Status)]
      /\ dropped' \in [Sched -> SUBSET Slot]
      /\ faults' \in 0..MaxFaults
  BY <1>1, RecordType DEF SkipMisfire, Status
<1>3. tick' \in [Proc -> TickType]
  <2>1. tick \in [Proc -> TickType] /\ now \in Time
    BY DEF TypeOK
  <2>2. tick' = [tick EXCEPT ![p] = [tick[p] EXCEPT !.st = "claiming", !.cur = NoJob]]
    BY <2>1 DEF SkipMisfire
  <2>3. [tick[p] EXCEPT !.st = "claiming", !.cur = NoJob] \in TickType
    BY <2>1, TickUpdateType
  <2>4. QED
    BY <2>1, <2>2, <2>3
<1>4. QED
  BY <1>2, <1>3 DEF SkipMisfire, TypeOK, table, clients

LEMMA AppendRunType ==
  ASSUME TypeOK, JobsInHand, NEW p \in Proc, AppendRun(p) PROVE TypeOK'
<1>1. /\ tick[p].cur.sid \in Sched
      /\ tick[p].cur.row.next \in Slot
      /\ tick[p].cur.row.failures \in Nat
  BY CurFields DEF AppendRun
<1>2. run' \in [Proc -> [Sched -> RunType]]
  BY <1>1 DEF AppendRun, TypeOK, RunType, Status
<1>3. tick' \in [Proc -> TickType]
  <2>1. tick \in [Proc -> TickType] /\ now \in Time
    BY DEF TypeOK
  <2>2. tick' = [tick EXCEPT ![p] = [tick[p] EXCEPT !.st = "claiming", !.cur = NoJob]]
    BY <2>1 DEF AppendRun
  <2>3. [tick[p] EXCEPT !.st = "claiming", !.cur = NoJob] \in TickType
    BY <2>1, TickUpdateType
  <2>4. QED
    BY <2>1, <2>2, <2>3
<1>4. QED
  BY <1>2, <1>3 DEF AppendRun, TypeOK, table, clients, history

(* A run that has begun, and the updates it makes to its own record.       *)
Begun == [st : {"appended", "queued", "executing", "delivered", "recording", "writing"},
          slot : Slot, failures : Nat, status : Status]

LEMMA BegunType ==
  ASSUME NEW r \in RunType, r.st # "none" PROVE r \in Begun
  BY DEF RunType, NoRun, Begun

LEMMA StageType ==
  ASSUME NEW r \in Begun,
         NEW st \in {"queued", "executing", "delivered", "recording", "writing"}
  PROVE  [r EXCEPT !.st = st] \in RunType
  BY DEF RunType, Begun

LEMMA OutcomeType ==
  ASSUME NEW r \in Begun, NEW status \in Status
  PROVE  [r EXCEPT !.st = "recording", !.status = status] \in RunType
  BY DEF RunType, Begun

LEMMA StartRunsType ==
  ASSUME TypeOK, NEW p \in Proc, StartRuns(p) PROVE TypeOK'
<1>1. run' \in [Proc -> [Sched -> RunType]]
  <2>1. \A s \in Sched : run[p][s].st = "appended" =>
          [run[p][s] EXCEPT !.st = "queued"] \in RunType
    <3> SUFFICES ASSUME NEW s \in Sched, run[p][s].st = "appended"
                 PROVE  [run[p][s] EXCEPT !.st = "queued"] \in RunType
      OBVIOUS
    <3>1. run[p][s] \in Begun
      BY BegunType DEF TypeOK
    <3>2. QED
      BY <3>1, StageType
  <2>2. QED
    BY <2>1 DEF StartRuns, TypeOK
<1>2. tick' \in [Proc -> TickType]
  <2>1. tick \in [Proc -> TickType] /\ now \in Time
    BY DEF TypeOK
  <2>2. tick' = [tick EXCEPT ![p] = [tick[p] EXCEPT !.st = "running"]]
    BY <2>1 DEF StartRuns
  <2>3. [tick[p] EXCEPT !.st = "running"] \in TickType
    BY <2>1, TickUpdateType
  <2>4. QED
    BY <2>1, <2>2, <2>3
<1>3. QED
  BY <1>1, <1>2 DEF StartRuns, TypeOK, table, clients, history

LEMMA TickEndType ==
  ASSUME TypeOK, NEW p \in Proc, TickEnd(p) PROVE TypeOK'
<1>1. tick' \in [Proc -> TickType]
  BY IdleTickType DEF TickEnd, TypeOK
<1>2. QED
  BY <1>1 DEF TickEnd, TypeOK, table, clients, history

(* A run that has begun, and the updates a run makes to its own record.    *)
LEMMA RunFields ==
  ASSUME TypeOK, NEW p \in Proc, NEW s \in Sched, run[p][s].st # "none"
  PROVE  /\ run[p][s].slot \in Slot
         /\ run[p][s].failures \in Nat
         /\ run[p][s].status \in Status
  BY DEF TypeOK, RunType, NoRun

LEMMA RunStageType ==
  ASSUME TypeOK, NEW p \in Proc, NEW s \in Sched, run[p][s].st # "none",
         NEW st \in {"queued", "executing", "delivered", "recording", "writing"},
         run' = [run EXCEPT ![p][s].st = st]
  PROVE  run' \in [Proc -> [Sched -> RunType]]
<1>1. [run[p][s] EXCEPT !.st = st] \in RunType
  <2>1. run[p][s] \in Begun
    BY BegunType DEF TypeOK
  <2>2. QED
    BY <2>1, StageType
<1>2. QED
  BY <1>1 DEF TypeOK

LEMMA RunAcquireType ==
  ASSUME TypeOK, NEW p \in Proc, NEW s \in Sched, RunAcquire(p, s) PROVE TypeOK'
<1>1. run' \in [Proc -> [Sched -> RunType]]
  BY RunStageType DEF RunAcquire
<1>2. QED
  BY <1>1 DEF RunAcquire, TypeOK, table, clients, history

LEMMA RunDeliverType ==
  ASSUME TypeOK, NEW p \in Proc, NEW s \in Sched, RunDeliver(p, s) PROVE TypeOK'
<1>1. run' \in [Proc -> [Sched -> RunType]]
  BY RunStageType DEF RunDeliver
<1>2. sent' \in [Sched -> [Slot -> Nat]]
  <2>1. run[p][s].slot \in Slot
    BY RunFields DEF RunDeliver
  <2>2. QED
    BY <2>1 DEF RunDeliver, TypeOK
<1>3. QED
  BY <1>1, <1>2 DEF RunDeliver, TypeOK, table, clients

LEMMA RunEndType ==
  ASSUME TypeOK, NEW p \in Proc, NEW s \in Sched, RunEnd(p, s) PROVE TypeOK'
<1>1. run' \in [Proc -> [Sched -> RunType]]
  <2>1. PICK status \in Status :
          run' = [run EXCEPT ![p][s].st = "recording", ![p][s].status = status]
    BY DEF RunEnd, Outcome, Status
  <2>2. [run[p][s] EXCEPT !.st = "recording", !.status = status] \in RunType
    <3>1. run[p][s] \in Begun
      BY BegunType DEF RunEnd, TypeOK
    <3>2. QED
      BY <3>1, OutcomeType
  <2>3. QED
    BY <2>1, <2>2 DEF TypeOK
<1>2. streak' \in [Sched -> Nat]
  <2>1. streak[s] \in Nat /\ streak[s] + 1 \in Nat
    BY DEF TypeOK
  <2>2. \E n \in {streak[s] + 1, 0} : streak' = [streak EXCEPT ![s] = n]
    BY DEF RunEnd
  <2>3. QED
    BY <2>1, <2>2 DEF TypeOK
<1>3. QED
  BY <1>1, <1>2 DEF RunEnd, TypeOK, table, clients

LEMMA RunRecordType ==
  ASSUME TypeOK, NEW p \in Proc, NEW s \in Sched, RunRecord(p, s) PROVE TypeOK'
<1>1. run' \in [Proc -> [Sched -> RunType]]
  BY RunStageType DEF RunRecord
<1>2. run[p][s].slot \in Slot /\ run[p][s].status \in Status
  BY RunFields DEF RunRecord
<1>3. /\ logged' \in [Sched -> SUBSET (Slot \X Status)]
      /\ dropped' \in [Sched -> SUBSET Slot]
      /\ faults' \in 0..MaxFaults
  BY <1>2, RecordType DEF RunRecord
<1>4. QED
  BY <1>1, <1>3 DEF RunRecord, TypeOK, table, clients

LEMMA RunWriteBackType ==
  ASSUME TypeOK, NEW p \in Proc, NEW s \in Sched, RunWriteBack(p, s) PROVE TypeOK'
<1>1. run' \in [Proc -> [Sched -> RunType]]
  BY DEF RunWriteBack, TypeOK, RunType
<1>2. Failures(run[p][s]) \in Nat
  BY RunFields DEF RunWriteBack, Failures
<1>3. row' \in [Sched -> Row]
  <2>1. Finished(row[s], Failures(run[p][s]), ShouldPause(run[p][s])) \in Row
    BY <1>2, FinishedType DEF TypeOK, ShouldPause
  <2>2. QED
    BY <2>1 DEF RunWriteBack, TypeOK
<1>4. unwritten' \subseteq Sched
  BY DEF RunWriteBack, TypeOK
<1>5. faults' \in 0..MaxFaults
  BY FaultType DEF RunWriteBack, TypeOK
<1>6. QED
  BY <1>1, <1>3, <1>4, <1>5 DEF RunWriteBack, TypeOK, clients

LEMMA ForgetType ==
  ASSUME TypeOK, NEW p \in Proc, Forget(p)
  PROVE  /\ tick' \in [Proc -> TickType]
         /\ run' \in [Proc -> [Sched -> RunType]]
         /\ test' \in [Proc -> [Sched -> {"none", "queued", "executing"}]]
  BY IdleTickType DEF Forget, TypeOK, RunType

LEMMA UnrecordedType ==
  ASSUME NEW p \in Proc, NEW s \in Sched PROVE Unrecorded(p, s) \subseteq Slot
  BY DEF Unrecorded

LEMMA CrashType ==
  ASSUME TypeOK, NEW p \in Proc, Crash(p) PROVE TypeOK'
<1>1. dropped' \in [Sched -> SUBSET Slot]
  BY UnrecordedType DEF Crash, TypeOK
<1>2. faults' \in 0..MaxFaults
  BY FaultType DEF Crash
<1>3. Forget(p)
  BY DEF Crash
<1>4. QED
  BY <1>1, <1>2, <1>3, ForgetType DEF Crash, Forget, TypeOK, table

LEMMA ShutdownType ==
  ASSUME TypeOK, NEW p \in Proc, Shutdown(p) PROVE TypeOK'
<1> DEFINE caught == {s \in live : run[p][s].st \in {"queued", "executing", "delivered"}}
<1>1. logged' \in [Sched -> SUBSET (Slot \X Status)]
  <2>1. \A s \in caught : s \in Sched /\ <<run[p][s].slot, "failed">> \in Slot \X Status
    BY RunFields DEF TypeOK, Status
  <2>2. logged' = [s \in Sched |-> logged[s] \cup
          (IF s \in caught THEN {<<run[p][s].slot, "failed">>} ELSE {})]
    BY DEF Shutdown
  <2> HIDE DEF caught
  <2>3. \A s \in Sched : logged[s] \cup
          (IF s \in caught THEN {<<run[p][s].slot, "failed">>} ELSE {})
            \in SUBSET (Slot \X Status)
    BY <2>1 DEF TypeOK
  <2>4. QED
    BY <2>2, <2>3
<1>2. dropped' \in [Sched -> SUBSET Slot]
  BY UnrecordedType DEF Shutdown, TypeOK
<1>3. faults' \in 0..MaxFaults
  BY FaultType DEF Shutdown
<1>4. Forget(p)
  BY DEF Shutdown
<1>5. unwritten' \subseteq Sched
  BY DEF Shutdown, TypeOK
<1>6. streak' \in [Sched -> Nat]
  <2>1. \A s \in Sched : streak[s] \in Nat /\ streak[s] + 1 \in Nat
    BY DEF TypeOK
  <2>2. streak' = [s \in Sched |-> IF s \in caught THEN streak[s] + 1 ELSE streak[s]]
    BY DEF Shutdown
  <2> HIDE DEF caught
  <2>3. QED
    BY <2>1, <2>2
<1>7. QED
  BY <1>1, <1>2, <1>3, <1>4, <1>5, <1>6, ForgetType DEF Shutdown, Forget, TypeOK, table

LEMMA PassType ==
  ASSUME TypeOK, Pass PROVE TypeOK'
<1>1. now' \in Time
  BY SchedulerAssumption DEF Pass, TypeOK, Time
<1>2. QED
  BY <1>1 DEF Pass, TypeOK, table, clients, history

(* Every step keeps the types, given what the ticks hold.                  *)
LEMMA TypeStep ==
  ASSUME TypeOK, JobsInHand, [Next]_vars PROVE TypeOK'
<1>1. ASSUME NEW e \in Editor, EditStep(e) PROVE TypeOK'
  BY <1>1, BeginCreateType, FinishCreateType, BeginPatchType, FinishPatchType DEF EditStep
<1>2. ASSUME NEW s \in Sched, Delete(s) PROVE TypeOK'
  BY <1>2, DeleteType
<1>3. ASSUME NEW p \in Proc, TickStep(p) PROVE TypeOK'
  BY <1>3, TickStartType, ListDueType, ListFailedType, ClaimWonType, ClaimLostType,
     ClaimFailedType, RetireType, SkipMisfireType, AppendRunType, StartRunsType,
     TickEndType DEF TickStep
<1>4. ASSUME NEW p \in Proc, Crash(p) \/ Shutdown(p) PROVE TypeOK'
  BY <1>4, CrashType, ShutdownType
<1>5. ASSUME NEW p \in Proc, NEW s \in Sched, RunStep(p, s) PROVE TypeOK'
  BY <1>5, RunAcquireType, RunDeliverType, RunEndType, RunRecordType,
     RunWriteBackType DEF RunStep
<1>6. ASSUME NEW p \in Proc, NEW s \in Sched, TestStep(p, s) PROVE TypeOK'
  BY <1>6, TestStepType
<1>7. CASE UNCHANGED vars
  BY <1>7 DEF vars, table, clients, history, TypeOK
<1>8. QED
  BY <1>1, <1>2, <1>3, <1>4, <1>5, <1>6, <1>7, PassType DEF Next

-----------------------------------------------------------------------------
(* What a tick holds stays due and claimed until it lets go of it.         *)

LEMMA InitJobs == Init => JobsInHand
  BY DEF Init, JobsInHand, HeldOK, IdleTick

(* The clock only moves forward.                                           *)
LEMMA ClockForward ==
  ASSUME TypeOK, [Next]_vars PROVE now' >= now
<1>1. now \in Nat
  BY DEF TypeOK, Time
<1>2. now' = now \/ now' = now + 1
  <2>1. ASSUME NEW e \in Editor, EditStep(e) PROVE now' = now
    BY <2>1 DEF EditStep, BeginCreate, FinishCreate, BeginPatch, FinishPatch
  <2>2. ASSUME NEW p \in Proc, TickStep(p) PROVE now' = now
    BY <2>2 DEF TickStep, TickStart, ListDue, ListFailed, ClaimWon, ClaimLost, ClaimFailed,
       Retire, SkipMisfire, AppendRun, StartRuns, TickEnd
  <2>3. ASSUME NEW p \in Proc, Crash(p) \/ Shutdown(p) PROVE now' = now
    BY <2>3 DEF Crash, Shutdown, Forget
  <2>4. ASSUME NEW p \in Proc, NEW s \in Sched, RunStep(p, s) \/ TestStep(p, s)
        PROVE  now' = now
    BY <2>4 DEF RunStep, RunAcquire, RunDeliver, RunEnd, RunRecord, RunWriteBack,
       TestStep, BeginTest, AcquireTest, EndTest
  <2>5. QED
    BY <2>1, <2>2, <2>3, <2>4 DEF Next, Delete, Pass, vars
<1>3. QED
  BY <1>1, <1>2

(* A step that changes what p holds, and nobody else's.                    *)
LEMMA HeldStep ==
  ASSUME TypeOK, TypeOK', JobsInHand, [Next]_vars, NEW p \in Proc,
         \A q \in Proc \ {p} : tick'[q] = tick[q], HeldOK(tick'[p], now')
  PROVE  JobsInHand'
<1>1. now' >= now /\ now \in Nat /\ now' \in Nat
  BY ClockForward DEF TypeOK, Time
<1>2. ASSUME NEW q \in Proc \ {p} PROVE HeldOK(tick[q], now')
  BY <1>1, TickFields DEF JobsInHand, HeldOK
<1>3. QED
  BY <1>2 DEF JobsInHand

LEMMA JobsStep ==
  ASSUME TypeOK, TypeOK', JobsInHand, [Next]_vars PROVE JobsInHand'
<1>1. now' >= now /\ now \in Nat /\ now' \in Nat
  BY ClockForward DEF TypeOK, Time
<1>2. CASE tick' = tick
  <2>1. ASSUME NEW p \in Proc PROVE HeldOK(tick[p], now')
    BY <1>1, TickFields DEF JobsInHand, HeldOK
  <2>2. QED
    BY <1>2, <2>1 DEF JobsInHand
<1>3. ASSUME NEW p \in Proc, TickStart(p) PROVE JobsInHand'
  <2>1. /\ tick'[p] = [tick[p] EXCEPT !.st = "listing", !.moment = now]
        /\ \A q \in Proc \ {p} : tick'[q] = tick[q]
        /\ tick[p].st = "idle" /\ now' = now
    BY <1>3 DEF TickStart, TypeOK
  <2>2. HeldOK(tick'[p], now')
    BY <1>1, <2>1 DEF JobsInHand, HeldOK, TypeOK, TickType
  <2>3. QED
    BY <2>1, <2>2, HeldStep
<1>4. ASSUME NEW p \in Proc, ListDue(p) PROVE JobsInHand'
  <2>1. CASE tick' = [tick EXCEPT ![p] = IdleTick]
    BY <1>1, <2>1, HeldStep DEF HeldOK, IdleTick, TypeOK
  <2>2. CASE \E batch \in SUBSET Due(tick[p].moment) :
               tick' = [tick EXCEPT ![p].st = "claiming",
                          ![p].todo = {[sid |-> s, row |-> row[s]] : s \in batch}]
    <3>1. PICK batch \in SUBSET Due(tick[p].moment) :
            tick' = [tick EXCEPT ![p].st = "claiming",
                       ![p].todo = {[sid |-> s, row |-> row[s]] : s \in batch}]
      BY <2>2
    <3>2. \A s \in batch : row[s].next \in Slot /\ row[s].next <= tick[p].moment
      BY DEF Due, TypeOK, Row
    <3>3. /\ tick'[p].moment = tick[p].moment
          /\ tick'[p].cur = tick[p].cur
          /\ tick'[p].st = "claiming"
          /\ tick'[p].todo = {[sid |-> s, row |-> row[s]] : s \in batch}
          /\ tick[p].st = "listing"
          /\ \A q \in Proc \ {p} : tick'[q] = tick[q]
      <4> DEFINE listed == {[sid |-> s, row |-> row[s]] : s \in batch}
      <4>1. tick' = [tick EXCEPT ![p].st = "claiming", ![p].todo = listed]
        BY <3>1
      <4>2. tick[p].st = "listing"
        BY <1>4 DEF ListDue
      <4> HIDE DEF listed
      <4>3. /\ tick'[p] = [tick[p] EXCEPT !.st = "claiming", !.todo = listed]
            /\ \A q \in Proc \ {p} : tick'[q] = tick[q]
        BY <4>1 DEF TypeOK
      <4>4. /\ tick'[p].moment = tick[p].moment
            /\ tick'[p].cur = tick[p].cur
            /\ tick'[p].st = "claiming"
            /\ tick'[p].todo = listed
        BY <4>3 DEF TypeOK, TickType
      <4>5. QED
        BY <4>2, <4>3, <4>4 DEF listed
    <3>4. \A j \in tick'[p].todo : j.row.next \in Slot /\ j.row.next <= tick[p].moment
      BY <3>2, <3>3
    <3>5. HeldOK(tick'[p], now')
      BY <1>1, <3>3, <3>4, TickFields DEF JobsInHand, HeldOK
    <3>6. QED
      BY <3>3, <3>5, HeldStep
  <2>3. QED
    BY <1>4, <2>1, <2>2 DEF ListDue
<1>5. ASSUME NEW p \in Proc, ClaimWon(p) PROVE JobsInHand'
  <2>1. PICK j \in tick[p].todo :
          tick' = [tick EXCEPT
            ![p].st = IF Upcoming(j, tick[p].moment) = NoTime
                        THEN "retiring" ELSE "settling",
            ![p].todo = @ \ {j},
            ![p].cur = j]
    BY <1>5 DEF ClaimWon
  <2>2. /\ tick'[p].moment = tick[p].moment
        /\ tick'[p].cur = j
        /\ tick'[p].st \in {"retiring", "settling"}
        /\ tick'[p].todo = tick[p].todo \ {j}
        /\ \A q \in Proc \ {p} : tick'[q] = tick[q]
    BY <2>1 DEF TypeOK, TickType
  <2>3. j # NoJob
    BY TickFields, SchedulerAssumption
  <2>4. HeldOK(tick'[p], now')
    BY <1>1, <2>2, <2>3, TickFields DEF JobsInHand, HeldOK
  <2>5. QED
    BY <2>2, <2>4, HeldStep
<1>6. ASSUME NEW p \in Proc,
             \/ ListFailed(p) \/ TickEnd(p) \/ Crash(p) \/ Shutdown(p)
      PROVE  JobsInHand'
  <2>1. tick' = [tick EXCEPT ![p] = IdleTick]
    BY <1>6 DEF ListFailed, TickEnd, Crash, Shutdown, Forget
  <2>2. QED
    BY <1>1, <2>1, HeldStep DEF HeldOK, IdleTick, TypeOK
<1>7. ASSUME NEW p \in Proc,
             \/ ClaimLost(p) \/ ClaimFailed(p) \/ Retire(p) \/ SkipMisfire(p)
             \/ AppendRun(p) \/ StartRuns(p)
      PROVE  JobsInHand'
  <2>1. CASE ClaimLost(p) \/ ClaimFailed(p)
    <3>1. PICK j \in tick[p].todo : tick' = [tick EXCEPT ![p].todo = @ \ {j}]
      BY <2>1 DEF ClaimLost, ClaimFailed
    <3>2. /\ tick'[p].moment = tick[p].moment
          /\ tick'[p].cur = tick[p].cur
          /\ tick'[p].st = tick[p].st
          /\ tick'[p].todo = tick[p].todo \ {j}
          /\ \A q \in Proc \ {p} : tick'[q] = tick[q]
      BY <3>1 DEF TypeOK, TickType
    <3>3. HeldOK(tick'[p], now')
      BY <1>1, <3>2, TickFields DEF JobsInHand, HeldOK
    <3>4. QED
      BY <3>2, <3>3, HeldStep
  <2>2. CASE Retire(p)
    <3>1. /\ tick'[p] = [tick[p] EXCEPT !.st = "settling"]
          /\ tick[p].st = "retiring"
          /\ \A q \in Proc \ {p} : tick'[q] = tick[q]
      BY <2>2 DEF Retire, TypeOK
    <3>2. HeldOK(tick'[p], now')
      BY <1>1, <3>1, TickFields DEF JobsInHand, HeldOK, TypeOK, TickType
    <3>3. QED
      BY <3>1, <3>2, HeldStep
  <2>3. CASE SkipMisfire(p) \/ AppendRun(p)
    <3>1. /\ tick'[p] = [tick[p] EXCEPT !.st = "claiming", !.cur = NoJob]
          /\ \A q \in Proc \ {p} : tick'[q] = tick[q]
      BY <2>3 DEF SkipMisfire, AppendRun, TypeOK
    <3>2. HeldOK(tick'[p], now')
      BY <1>1, <3>1, TickFields DEF JobsInHand, HeldOK, TypeOK, TickType
    <3>3. QED
      BY <3>1, <3>2, HeldStep
  <2>4. CASE StartRuns(p)
    <3>1. /\ tick'[p] = [tick[p] EXCEPT !.st = "running"]
          /\ tick[p].st = "claiming" /\ tick[p].todo = {}
          /\ \A q \in Proc \ {p} : tick'[q] = tick[q]
      BY <2>4 DEF StartRuns, TypeOK
    <3>2. HeldOK(tick'[p], now')
      BY <1>1, <3>1, TickFields DEF JobsInHand, HeldOK, TypeOK, TickType
    <3>3. QED
      BY <3>1, <3>2, HeldStep
  <2>5. QED
    BY <1>7, <2>1, <2>2, <2>3, <2>4
<1>8. QED
  <2>1. ASSUME NEW e \in Editor, EditStep(e) PROVE tick' = tick
    BY <2>1 DEF EditStep, BeginCreate, FinishCreate, BeginPatch, FinishPatch
  <2>2. ASSUME NEW p \in Proc, NEW s \in Sched, RunStep(p, s) \/ TestStep(p, s)
        PROVE  tick' = tick
    BY <2>2 DEF RunStep, RunAcquire, RunDeliver, RunEnd, RunRecord, RunWriteBack,
       TestStep, BeginTest, AcquireTest, EndTest
  <2>3. ASSUME NEW p \in Proc, TickStep(p) PROVE JobsInHand'
    BY <2>3, <1>3, <1>4, <1>5, <1>6, <1>7 DEF TickStep
  <2>4. QED
    BY <1>2, <1>6, <2>1, <2>2, <2>3 DEF Next, Delete, Pass, vars

(* The types of TypeOK hold of every reachable state, whatever the numbers *)
(* of schedules, processes and requests; with them, that a tick only ever  *)
(* holds rows that were due when it looked.                                *)
THEOREM TypeCorrect == Spec => [](TypeOK /\ JobsInHand)
<1>1. Init => TypeOK /\ JobsInHand
  BY InitType, InitJobs
<1>2. TypeOK /\ JobsInHand /\ [Next]_vars => TypeOK' /\ JobsInHand'
  BY TypeStep, JobsStep
<1>3. QED
  BY <1>1, <1>2, PTL DEF Spec

-----------------------------------------------------------------------------
(* Why an occurrence is claimed and mailed at most once, for any number of *)
(* processes, any staleness of what they listed and any crashes: the       *)
(* inductive invariant behind NeverSendTwice, and why with it the          *)
(* scheduler keeps the promise of SchedulePromise.                         *)

\* p may still mail occurrence t of s: it has claimed it, and either has it in
\* hand or has started the run that has not sent yet.
MayMail(p, s, t) == InHand(p, s, t) \/ InRun(p, s, t, Unsent)

\* The slot to come is later than everything claimed.
ClaimsBehind(s, t) == claims[s][t] = 1 /\ row[s].next # NoTime => t < row[s].next

\* Whoever may still mail an occurrence is the only one to have claimed it.
MailersClaimed(s, t) == \A p \in Proc :
  MayMail(p, s, t) => claims[s][t] = 1 /\ sent[s][t] = 0

OneMailer(s, t) ==
  /\ \A p, q \in Proc : MayMail(p, s, t) /\ MayMail(q, s, t) => p = q
  /\ \A p \in Proc : ~(InHand(p, s, t) /\ InRun(p, s, t, Unsent))

\* For an occurrence of a schedule no edit has rewound.
ClaimedOnce(s, t) ==
  /\ claims[s][t] \in {0, 1}
  /\ sent[s][t] <= claims[s][t]
  /\ ClaimsBehind(s, t)
  /\ MailersClaimed(s, t)
  /\ OneMailer(s, t)

FreshUnclaimed == \A s \in fresh : s \notin live /\ \A t \in Slot : claims[s][t] = 0

OnceInv ==
  /\ FreshUnclaimed
  /\ \A s \in Sched \ rewound, t \in Slot : ClaimedOnce(s, t)

-----------------------------------------------------------------------------
(* What each kind of step does to the slot to come, to the rows in hand    *)
(* and to the runs.                                                        *)

LEMMA PatchedNext ==
  ASSUME NEW r \in Row, NEW pay \in Patches, NEW old \in Row,
         NEW next \in Slot \cup {NoTime}
  PROVE  IF MovesFiring(pay) THEN Patched(r, pay, old, next).next = next
                             ELSE Patched(r, pay, old, next) = r
  BY MergeType DEF Patched, Row

LEMMA FinishedNext ==
  ASSUME NEW r \in Row, NEW n \in Nat, NEW pause \in BOOLEAN
  PROVE  Finished(r, n, pause).next \in {r.next, NoTime}
  BY DEF Finished, Row

LEMMA FinishedRow ==
  ASSUME TypeOK, NEW u \in Sched, NEW n \in Nat, NEW pause \in BOOLEAN, NEW s \in Sched,
         row' = row \/ row' = [row EXCEPT ![u] = Finished(row[u], n, pause)]
  PROVE  row'[s].next \in {row[s].next, NoTime}
<1>1. CASE row' = row
  BY <1>1
<1>2. CASE row' = [row EXCEPT ![u] = Finished(row[u], n, pause)]
  <2>1. Finished(row[u], n, pause).next \in {row[u].next, NoTime}
    BY FinishedNext DEF TypeOK
  <2>2. row'[s] = IF s = u THEN Finished(row[u], n, pause) ELSE row[s]
    BY <1>2 DEF TypeOK
  <2>3. QED
    BY <2>1, <2>2
<1>3. QED
  BY <1>1, <1>2

(* A slot never moves back over a claim, unless the step rewinds it.       *)
LEMMA SlotStaysAhead ==
  ASSUME StartsOnTheMinute, TypeOK, JobsInHand, FreshUnclaimed, [Next]_vars,
         NEW s \in Sched, NEW t \in Slot, s \notin rewound', ClaimsBehind(s, t),
         claims[s][t] = 1
  PROVE  row'[s].next = NoTime \/ t < row'[s].next
<1> DEFINE Ahead == row'[s].next = NoTime \/ t < row'[s].next
<1>1. row[s].next = NoTime \/ t < row[s].next
  BY DEF ClaimsBehind
<1>2. CASE row' = row
  BY <1>1, <1>2
<1>3. ASSUME NEW e \in Editor, FinishCreate(e) PROVE Ahead
  <2>1. CASE row' = row
    BY <2>1, <1>1
  <2>2. CASE \E u \in fresh : row' = [row EXCEPT ![u] = edit[e].new]
    <3>1. PICK u \in fresh : row' = [row EXCEPT ![u] = edit[e].new]
      BY <2>2
    <3>2. u # s
      BY DEF FreshUnclaimed
    <3>3. QED
      BY <3>1, <3>2, <1>1 DEF TypeOK
  <2>3. QED
    BY <1>3, <2>1, <2>2 DEF FinishCreate, table
<1>4. ASSUME NEW e \in Editor, FinishPatch(e) PROVE Ahead
  <2> DEFINE pay == edit[e].pay
             old == edit[e].old
             Next0(m) == ComputeNextRun(Merge(old, pay), m)
  <2>1. edit[e].sid \in Sched /\ pay \in Patches /\ old \in Row /\ edit[e].at \in Time
    BY <1>4, PatchingType DEF FinishPatch
  <2>2. CASE row' # row
    <3>1. PICK m \in edit[e].at..now :
            /\ row' = [row EXCEPT ![edit[e].sid] = Patched(@, pay, old, Next0(m))]
            /\ rewound' = IF MovesFiring(pay) /\ Rewinds(edit[e].sid, Next0(m))
                            THEN rewound \cup {edit[e].sid} ELSE rewound
      BY <1>4, <2>2 DEF FinishPatch
    <3>2. CASE edit[e].sid = s
      <4>1. m \in Nat
        BY <2>1 DEF TypeOK, Time
      <4>2. Next0(m) \in Slot \cup {NoTime}
        BY <2>1, <4>1, MergeType, ComputeNextRunType
      <4>3. row'[s] = Patched(row[s], pay, old, Next0(m)) /\ row[s] \in Row
        BY <3>1, <3>2 DEF TypeOK
      <4> HIDE DEF Next0
      <4>4. CASE ~MovesFiring(pay)
        BY <4>2, <4>3, <4>4, <2>1, <1>1, PatchedNext
      <4>5. CASE MovesFiring(pay)
        <5>1. row'[s].next = Next0(m)
          BY <4>2, <4>3, <4>5, <2>1, PatchedNext
        <5>2. ~Rewinds(s, Next0(m))
          BY <3>1, <3>2, <4>5
        <5>3. Next0(m) = NoTime \/ ~(Next0(m) <= t)
          BY <5>2 DEF Rewinds
        <5>4. Next0(m) = NoTime \/ t < Next0(m)
          <6>1. t \in Nat
            BY SlotsAreNat
          <6>2. Next0(m) # NoTime => Next0(m) \in Nat
            BY <4>2, SlotsAreNat
          <6>3. \A a, b \in Nat : ~(a <= b) => b < a
            OBVIOUS
          <6>4. QED
            BY <5>3, <6>1, <6>2, <6>3
        <5>5. QED
          BY <5>1, <5>4
      <4>6. QED
        BY <4>4, <4>5
    <3>3. QED
      BY <3>1, <3>2, <1>1 DEF TypeOK
  <2>3. QED
    BY <1>2, <2>2
<1>5. ASSUME NEW u \in Sched, Delete(u) PROVE Ahead
  BY <1>5, <1>1 DEF Delete, TypeOK, BlankRow
<1>6. ASSUME NEW p \in Proc, ClaimWon(p) \/ ClaimFailed(p) PROVE Ahead
  <2>1. CASE row' # row
    <3>1. PICK j \in tick[p].todo :
            /\ Claimable(j)
            /\ row' = [row EXCEPT ![j.sid].next = Upcoming(j, tick[p].moment)]
      BY <1>6, <2>1 DEF ClaimWon, ClaimFailed
    <3>2. /\ j \in Job /\ tick[p].moment \in Nat /\ j.sid \in Sched
          /\ j.row.next \in Slot /\ j.row.next <= tick[p].moment
      BY TickFields DEF JobsInHand, HeldOK, Job
    <3>3. CASE j.sid = s
      <4>1. row'[s].next = Upcoming(j, tick[p].moment)
        BY <3>1, <3>2, <3>3 DEF TypeOK, Row
      <4>2. t < j.row.next
        BY <3>1, <3>2, <3>3, <1>1, SlotsAreNat, FiringTimesAssumption DEF Claimable
      <4>3. tick[p].moment \in Nat /\ t \in Nat /\ j.row.next \in Nat
        BY <3>2, SlotsAreNat
      <4>4. Upcoming(j, tick[p].moment) \in Slot \cup {NoTime}
        BY <3>2, UpcomingType
      <4>5. Upcoming(j, tick[p].moment) # NoTime =>
              Upcoming(j, tick[p].moment) > tick[p].moment
        BY <3>2, UpcomingForward
      <4>6. PICK u \in Nat \cup {NoTime} : u = row'[s].next
        BY <4>1, <4>4, SlotsAreNat
      <4>7. u # NoTime => u \in Nat /\ u > tick[p].moment
        BY <4>1, <4>5, <4>6
      <4>8. u # NoTime => t < u
        BY <3>2, <4>2, <4>3, <4>7
      <4>9. QED
        BY <4>6, <4>8
    <3>4. CASE j.sid # s
      BY <3>1, <3>4, <1>1 DEF TypeOK
    <3>5. QED
      BY <3>3, <3>4
  <2>2. QED
    BY <1>2, <2>1
<1>7. ASSUME NEW p \in Proc, Retire(p) PROVE Ahead
  <2>1. /\ tick[p].cur.sid \in Sched
        /\ tick[p].cur.row.failures \in Nat
    BY <1>7, CurFields DEF Retire
  <2>2. \/ row' = row
        \/ row' = [row EXCEPT ![tick[p].cur.sid] =
                     Finished(row[tick[p].cur.sid], tick[p].cur.row.failures, TRUE)]
    BY <1>7 DEF Retire
  <2>3. row'[s].next \in {row[s].next, NoTime}
    BY <2>1, <2>2, FinishedRow
  <2>4. QED
    BY <2>3, <1>1
<1>8. ASSUME NEW p \in Proc, NEW u \in Sched, RunWriteBack(p, u) PROVE Ahead
  <2>1. Failures(run[p][u]) \in Nat /\ ShouldPause(run[p][u]) \in BOOLEAN
    BY <1>8, RunFields DEF RunWriteBack, Failures, ShouldPause
  <2>2. \/ row' = row
        \/ row' = [row EXCEPT ![u] =
                     Finished(row[u], Failures(run[p][u]), ShouldPause(run[p][u]))]
    BY <1>8 DEF RunWriteBack
  <2>3. row'[s].next \in {row[s].next, NoTime}
    BY <2>1, <2>2, FinishedRow
  <2>4. QED
    BY <2>3, <1>1
<1>9. QED
  <2>1. ASSUME NEW e \in Editor, EditStep(e) PROVE Ahead
    BY <2>1, <1>2, <1>3, <1>4 DEF EditStep, BeginCreate, BeginPatch, table
  <2>2. ASSUME NEW p \in Proc, TickStep(p) PROVE Ahead
    BY <2>2, <1>2, <1>6, <1>7 DEF TickStep, TickStart, ListDue, ListFailed, ClaimLost,
       SkipMisfire, AppendRun, StartRuns, TickEnd, table
  <2>3. ASSUME NEW p \in Proc, Crash(p) \/ Shutdown(p) PROVE row' = row
    BY <2>3 DEF Crash, Shutdown, Forget, table
  <2>4. ASSUME NEW p \in Proc, NEW u \in Sched, RunStep(p, u) \/ TestStep(p, u)
        PROVE  Ahead
    BY <2>4, <1>2, <1>8 DEF RunStep, RunAcquire, RunDeliver, RunEnd, RunRecord,
       TestStep, BeginTest, AcquireTest, EndTest, table
  <2>5. QED
    BY <1>2, <1>5, <2>1, <2>2, <2>3, <2>4 DEF Next, Pass, vars, table

(* Only a claim puts a row in hand.                                        *)
LEMMA CurKept ==
  ASSUME TypeOK, [Next]_vars, NEW p \in Proc, ~ClaimWon(p)
  PROVE  tick'[p].cur \in {tick[p].cur, NoJob}
<1> DEFINE Kept == tick'[p].cur \in {tick[p].cur, NoJob}
<1>1. CASE tick' = tick
  BY <1>1
<1>2. ASSUME NEW q \in Proc, TickStep(q) PROVE Kept
  <2>1. CASE q # p
    <3>1. tick'[p] = tick[p]
      BY <1>2, <2>1 DEF TickStep, TickStart, ListDue, ListFailed, ClaimWon, ClaimLost,
         ClaimFailed, Retire, SkipMisfire, AppendRun, StartRuns, TickEnd, TypeOK
    <3>2. QED
      BY <3>1
  <2>2. CASE TickStart(p) \/ Retire(p) \/ StartRuns(p)
    <3>1. CASE TickStart(p)
      BY <3>1 DEF TickStart, TypeOK, TickType
    <3>2. CASE Retire(p)
      BY <3>2 DEF Retire, TypeOK, TickType
    <3>3. CASE StartRuns(p)
      BY <3>3 DEF StartRuns, TypeOK, TickType
    <3>4. QED
      BY <2>2, <3>1, <3>2, <3>3
  <2>3. CASE ListFailed(p) \/ TickEnd(p)
    BY <2>3 DEF ListFailed, TickEnd, TypeOK, IdleTick
  <2>4. CASE SkipMisfire(p) \/ AppendRun(p)
    BY <2>4 DEF SkipMisfire, AppendRun, TypeOK, TickType
  <2>5. CASE ClaimLost(p) \/ ClaimFailed(p)
    <3>1. \E x : tick' = [tick EXCEPT ![p].todo = x]
      BY <2>5 DEF ClaimLost, ClaimFailed
    <3>2. QED
      BY <3>1 DEF TypeOK, TickType
  <2>6. CASE ListDue(p)
    <3>1. CASE tick' = [tick EXCEPT ![p] = IdleTick]
      BY <3>1 DEF IdleTick, TypeOK
    <3>2. CASE \E x : tick' = [tick EXCEPT ![p].st = "claiming", ![p].todo = x]
      BY <3>2 DEF TypeOK, TickType
    <3>3. QED
      BY <2>6, <3>1, <3>2 DEF ListDue
  <2>7. QED
    BY <1>2, <2>1, <2>2, <2>3, <2>4, <2>5, <2>6 DEF TickStep
<1>3. ASSUME NEW q \in Proc, Crash(q) \/ Shutdown(q) PROVE Kept
  <2>1. tick' = [tick EXCEPT ![q] = IdleTick]
    BY <1>3 DEF Crash, Shutdown, Forget
  <2>2. tick \in [Proc -> TickType]
    BY DEF TypeOK
  <2>3. CASE q = p
    BY <2>1, <2>2, <2>3 DEF IdleTick
  <2>4. CASE q # p
    BY <2>1, <2>2, <2>4
  <2>5. QED
    BY <2>3, <2>4
<1>4. ASSUME NEW e \in Editor, EditStep(e) PROVE tick' = tick
  BY <1>4 DEF EditStep, BeginCreate, FinishCreate, BeginPatch, FinishPatch
<1>5. ASSUME NEW q \in Proc, NEW s \in Sched, RunStep(q, s) \/ TestStep(q, s)
      PROVE  tick' = tick
  BY <1>5 DEF RunStep, RunAcquire, RunDeliver, RunEnd, RunRecord, RunWriteBack,
     TestStep, BeginTest, AcquireTest, EndTest
<1>6. QED
  BY <1>1, <1>2, <1>3, <1>4, <1>5 DEF Next, Delete, Pass, vars

(* A run that may still send was there already, or was just appended for   *)
(* the row in hand.                                                        *)
LEMMA RunsKept ==
  ASSUME TypeOK, JobsInHand, [Next]_vars, NEW p \in Proc, NEW s \in Sched, NEW t \in Slot,
         InRun(p, s, t, Unsent)'
  PROVE  \/ InRun(p, s, t, Unsent)
         \/ AppendRun(p) /\ InHand(p, s, t) /\ tick'[p].cur = NoJob
<1> DEFINE Kept == InRun(p, s, t, Unsent)
<1>1. CASE run'[p][s] = run[p][s]
  BY <1>1 DEF InRun, Unsent
<1>2. ASSUME NEW q \in Proc, AppendRun(q)
      PROVE  \/ Kept
             \/ AppendRun(p) /\ InHand(p, s, t) /\ tick'[p].cur = NoJob
  <2>1. CASE run'[p][s] # run[p][s]
    <3>1. q = p /\ tick[p].cur.sid = s
      BY <1>2, <2>1 DEF AppendRun, TypeOK
    <3>2. tick[p].cur \in Job
      BY <1>2, <3>1, CurFields DEF AppendRun
    <3>3. tick[p].cur # NoJob
      BY <3>2, SchedulerAssumption
    <3>4. run'[p][s].slot = tick[p].cur.row.next
      BY <1>2, <3>1 DEF AppendRun, TypeOK
    <3>5. tick'[p].cur = NoJob
      BY <1>2, <3>1 DEF AppendRun, TypeOK, TickType
    <3>6. QED
      BY <1>2, <3>1, <3>3, <3>4, <3>5 DEF InRun, InHand
  <2>2. QED
    BY <1>1, <2>1
<1>3. ASSUME NEW q \in Proc, StartRuns(q) PROVE Kept
  <2>1. CASE q = p /\ run[p][s].st = "appended"
    <3>1. run'[p][s] = [run[p][s] EXCEPT !.st = "queued"]
      BY <1>3, <2>1 DEF StartRuns, TypeOK
    <3>2. run[p][s] \in Begun
      BY <2>1, BegunType DEF TypeOK
    <3>3. run'[p][s].slot = run[p][s].slot
      BY <3>1, <3>2 DEF Begun
    <3>4. QED
      BY <2>1, <3>3 DEF InRun, Unsent
  <2>2. CASE ~(q = p /\ run[p][s].st = "appended")
    <3>1. run'[p][s] = run[p][s]
      BY <1>3, <2>2 DEF StartRuns, TypeOK
    <3>2. QED
      BY <3>1 DEF InRun, Unsent
  <2>3. QED
    BY <2>1, <2>2
<1>4. ASSUME NEW q \in Proc, NEW u \in Sched, RunStep(q, u) PROVE Kept
  <2>1. CASE q = p /\ u = s
    <3>1. CASE RunAcquire(p, s)
      <4>1. run'[p][s] = [run[p][s] EXCEPT !.st = "executing"] /\ run[p][s].st = "queued"
        BY <3>1 DEF RunAcquire, TypeOK
      <4>2. run[p][s] \in Begun
        BY <4>1, BegunType DEF TypeOK
      <4>3. run'[p][s].slot = run[p][s].slot
        BY <4>1, <4>2 DEF Begun
      <4>4. QED
        BY <4>1, <4>3 DEF InRun, Unsent
    <3>2. CASE RunDeliver(p, s) \/ RunEnd(p, s) \/ RunRecord(p, s) \/ RunWriteBack(p, s)
      <4>1. run'[p][s].st \in {"delivered", "recording", "writing", "none"}
        <5>1. run[p][s] \in Begun
          BY <3>2, BegunType DEF RunDeliver, RunEnd, RunRecord, RunWriteBack, TypeOK
        <5>2. CASE RunDeliver(p, s)
          BY <5>1, <5>2 DEF RunDeliver, Begun, TypeOK
        <5>3. CASE RunEnd(p, s)
          <6>1. PICK status : run' = [run EXCEPT ![p][s].st = "recording",
                                                 ![p][s].status = status]
            BY <5>3 DEF RunEnd
          <6>2. run'[p][s] = [run[p][s] EXCEPT !.st = "recording", !.status = status]
            BY <6>1 DEF TypeOK
          <6>3. QED
            BY <5>1, <6>2 DEF Begun
        <5>4. CASE RunRecord(p, s)
          BY <5>1, <5>4 DEF RunRecord, Begun, TypeOK
        <5>5. CASE RunWriteBack(p, s)
          BY <5>5 DEF RunWriteBack, NoRun, TypeOK
        <5>6. QED
          BY <3>2, <5>2, <5>3, <5>4, <5>5
      <4>2. QED
        BY <4>1 DEF InRun, Unsent
    <3>3. QED
      BY <1>4, <2>1, <3>1, <3>2 DEF RunStep
  <2>2. CASE ~(q = p /\ u = s)
    <3>1. run'[p][s] = run[p][s]
      BY <1>4, <2>2 DEF RunStep, RunAcquire, RunDeliver, RunEnd, RunRecord, RunWriteBack,
         TypeOK
    <3>2. QED
      BY <3>1 DEF InRun, Unsent
  <2>3. QED
    BY <2>1, <2>2
<1>5. ASSUME NEW q \in Proc, Crash(q) \/ Shutdown(q) PROVE Kept
  <2>1. run' = [run EXCEPT ![q] = [u \in Sched |-> NoRun]]
    BY <1>5 DEF Crash, Shutdown, Forget
  <2>2. run'[p][s] \in {run[p][s], NoRun}
    BY <2>1 DEF TypeOK
  <2>3. QED
    BY <1>1, <2>2 DEF InRun, Unsent, NoRun
<1>6. ASSUME NEW e \in Editor, EditStep(e) PROVE run' = run
  BY <1>6 DEF EditStep, BeginCreate, FinishCreate, BeginPatch, FinishPatch
<1>7. ASSUME NEW q \in Proc, NEW u \in Sched, TestStep(q, u) PROVE run' = run
  BY <1>7 DEF TestStep, BeginTest, AcquireTest, EndTest
<1>8. ASSUME NEW q \in Proc, TickStep(q)
      PROVE  run' = run \/ AppendRun(q) \/ StartRuns(q)
  BY <1>8 DEF TickStep, TickStart, ListDue, ListFailed, ClaimWon, ClaimLost, ClaimFailed,
     Retire, SkipMisfire, TickEnd
<1>9. QED
  BY <1>1, <1>2, <1>3, <1>4, <1>5, <1>6, <1>7, <1>8 DEF Next, Delete, Pass, vars

-----------------------------------------------------------------------------
(* The invariant, step by step.                                            *)

(* Who may mail an occurrence does not change without a claim, except that *)
(* the row in hand becomes a run.                                          *)
LEMMA MailersKept ==
  ASSUME TypeOK, JobsInHand, [Next]_vars, NEW p \in Proc, NEW s \in Sched, NEW t \in Slot,
         ~ClaimWon(p)
  PROVE  /\ MayMail(p, s, t)' => MayMail(p, s, t)
         /\ InHand(p, s, t)' /\ InRun(p, s, t, Unsent)' =>
              InHand(p, s, t) /\ InRun(p, s, t, Unsent)
<1>1. InHand(p, s, t)' => InHand(p, s, t) /\ tick'[p].cur # NoJob
  BY CurKept DEF InHand
<1>2. InRun(p, s, t, Unsent)' =>
        \/ InRun(p, s, t, Unsent)
        \/ InHand(p, s, t) /\ tick'[p].cur = NoJob
  BY RunsKept
<1>3. QED
  BY <1>1, <1>2 DEF MayMail

(* Claims and mails are counted by ClaimWon and RunDeliver alone, an id is *)
(* fresh until it is created, and a schedule once rewound stays so.        *)
LEMMA CountersKept ==
  ASSUME [Next]_vars
  PROVE  /\ claims' = claims \/ \E p \in Proc : ClaimWon(p)
         /\ sent' = sent \/ \E p \in Proc, s \in Sched : RunDeliver(p, s)
         /\ rewound \subseteq rewound'
         /\ fresh' \subseteq fresh
<1> DEFINE Kept == claims' = claims /\ sent' = sent
           Grown == rewound \subseteq rewound' /\ fresh' \subseteq fresh
<1>1. ASSUME NEW e \in Editor, EditStep(e) PROVE Kept /\ Grown
  BY <1>1 DEF EditStep, BeginCreate, FinishCreate, BeginPatch, FinishPatch, table, history
<1>2. ASSUME NEW p \in Proc, TickStep(p) PROVE (Kept \/ ClaimWon(p)) /\ sent' = sent /\ Grown
  BY <1>2 DEF TickStep, TickStart, ListDue, ListFailed, ClaimWon, ClaimLost, ClaimFailed,
     Retire, SkipMisfire, AppendRun, StartRuns, TickEnd, table, history
<1>3. ASSUME NEW p \in Proc, Crash(p) \/ Shutdown(p) PROVE Kept /\ Grown
  BY <1>3 DEF Crash, Shutdown, Forget, table
<1>4. ASSUME NEW p \in Proc, NEW s \in Sched, RunStep(p, s) \/ TestStep(p, s)
      PROVE  (Kept \/ RunDeliver(p, s)) /\ claims' = claims /\ Grown
  BY <1>4 DEF RunStep, RunAcquire, RunDeliver, RunEnd, RunRecord, RunWriteBack,
     TestStep, BeginTest, AcquireTest, EndTest, table, history
<1>5. ASSUME Pass \/ UNCHANGED vars \/ \E s \in Sched : Delete(s) PROVE Kept /\ Grown
  BY <1>5 DEF Pass, Delete, vars, table, history
<1>6. QED
  BY <1>1, <1>2, <1>3, <1>4, <1>5 DEF Next

(* Nothing is claimed of an id before its schedule exists.                 *)
LEMMA FreshStep ==
  ASSUME TypeOK, JobsInHand, FreshUnclaimed, [Next]_vars PROVE FreshUnclaimed'
<1>1. live' \cap fresh' = {}
  <2>1. live \cap fresh = {}
    BY DEF FreshUnclaimed
  <2>2. ASSUME NEW e \in Editor, FinishCreate(e) PROVE live' \cap fresh' = {}
    <3>1. CASE live' = live /\ fresh' = fresh
      BY <2>1, <3>1
    <3>2. CASE \E s \in fresh : fresh' = fresh \ {s} /\ live' = live \cup {s}
      BY <2>1, <3>2
    <3>3. QED
      BY <2>2, <3>1, <3>2 DEF FinishCreate, table
  <2>3. ASSUME NEW s \in Sched, Delete(s) PROVE live' \cap fresh' = {}
    BY <2>1, <2>3 DEF Delete
  <2>4. ASSUME NEW e \in Editor, EditStep(e), ~FinishCreate(e)
        PROVE  live' = live /\ fresh' = fresh
    BY <2>4 DEF EditStep, BeginCreate, BeginPatch, FinishPatch, table
  <2>5. ASSUME NEW p \in Proc, TickStep(p) PROVE live' = live /\ fresh' = fresh
    BY <2>5 DEF TickStep, TickStart, ListDue, ListFailed, ClaimWon, ClaimLost, ClaimFailed,
       Retire, SkipMisfire, AppendRun, StartRuns, TickEnd, table
  <2>6. ASSUME NEW p \in Proc, Crash(p) \/ Shutdown(p) PROVE live' = live /\ fresh' = fresh
    BY <2>6 DEF Crash, Shutdown, Forget, table
  <2>7. ASSUME NEW p \in Proc, NEW s \in Sched, RunStep(p, s) \/ TestStep(p, s)
        PROVE  live' = live /\ fresh' = fresh
    BY <2>7 DEF RunStep, RunAcquire, RunDeliver, RunEnd, RunRecord, RunWriteBack,
       TestStep, BeginTest, AcquireTest, EndTest, table
  <2>8. QED
    BY <2>1, <2>2, <2>3, <2>4, <2>5, <2>6, <2>7 DEF Next, Pass, vars, table
<1>2. ASSUME NEW s \in fresh', NEW t \in Slot PROVE claims'[s][t] = 0
  <2>1. s \in fresh /\ s \notin live /\ s \in Sched /\ claims[s][t] = 0
    BY CountersKept DEF FreshUnclaimed, TypeOK
  <2>2. ASSUME NEW p \in Proc, ClaimWon(p) PROVE claims'[s] = claims[s]
    <3>1. PICK j \in tick[p].todo :
            j.sid \in live /\ claims' = [claims EXCEPT ![j.sid][j.row.next] = @ + 1]
      BY <2>2 DEF ClaimWon, Claimable
    <3>2. QED
      BY <2>1, <3>1 DEF TypeOK
  <2>3. QED
    BY <2>1, <2>2, CountersKept
<1>3. QED
  BY <1>1, <1>2 DEF FreshUnclaimed

(* A step that neither claims nor mails occurrence t of s.                 *)
LEMMA QuietStep ==
  ASSUME StartsOnTheMinute, TypeOK, JobsInHand, FreshUnclaimed, [Next]_vars,
         NEW s \in Sched, NEW t \in Slot, ClaimedOnce(s, t), s \notin rewound',
         claims'[s][t] = claims[s][t], sent'[s][t] = sent[s][t],
         \A p \in Proc : InHand(p, s, t)' => InHand(p, s, t),
         \A p \in Proc : MayMail(p, s, t)' => MayMail(p, s, t),
         \A p \in Proc : InHand(p, s, t)' /\ InRun(p, s, t, Unsent)' =>
                           InHand(p, s, t) /\ InRun(p, s, t, Unsent)
  PROVE  ClaimedOnce(s, t)'
<1>1. ClaimsBehind(s, t)'
  BY SlotStaysAhead DEF ClaimedOnce, ClaimsBehind
<1>2. MailersClaimed(s, t)'
  BY DEF ClaimedOnce, MailersClaimed
<1>3. OneMailer(s, t)'
  BY DEF ClaimedOnce, OneMailer
<1>4. QED
  BY <1>1, <1>2, <1>3 DEF ClaimedOnce

(* A claim is of an occurrence nobody has claimed.                         *)
LEMMA ClaimStep ==
  ASSUME StartsOnTheMinute, TypeOK, JobsInHand, OnceInv, [Next]_vars,
         NEW p \in Proc, ClaimWon(p), NEW s \in Sched, NEW t \in Slot, s \notin rewound'
  PROVE  ClaimedOnce(s, t)'
<1>1. PICK j \in tick[p].todo :
        /\ Claimable(j)
        /\ row' = [row EXCEPT ![j.sid].next = Upcoming(j, tick[p].moment)]
        /\ claims' = [claims EXCEPT ![j.sid][j.row.next] = @ + 1]
        /\ \E st : tick' = [tick EXCEPT ![p].st = st, ![p].todo = @ \ {j}, ![p].cur = j]
  BY DEF ClaimWon
<1>2. sent' = sent /\ run' = run /\ rewound' = rewound
  BY DEF ClaimWon, clients
<1>3. /\ j \in Job /\ j.sid \in Sched /\ j.row.next \in Slot
      /\ tick[p].moment \in Nat /\ j.row.next <= tick[p].moment /\ j # NoJob
  BY TickFields, SchedulerAssumption DEF JobsInHand, HeldOK, Job
<1>4. tick'[p].cur = j /\ \A q \in Proc \ {p} : tick'[q] = tick[q]
  BY <1>1 DEF TypeOK, TickType
<1>5. /\ ClaimedOnce(s, t)
      /\ FreshUnclaimed
  BY <1>2 DEF OnceInv
<1>6. \A q \in Proc : InRun(q, s, t, Unsent)' <=> InRun(q, s, t, Unsent)
  BY <1>2 DEF InRun, Unsent
<1>7. \A q \in Proc \ {p} : InHand(q, s, t)' <=> InHand(q, s, t)
  BY <1>4 DEF InHand
<1>8. InHand(p, s, t)' <=> s = j.sid /\ t = j.row.next
  BY <1>3, <1>4 DEF InHand
<1>9. CASE s = j.sid /\ t = j.row.next
  <2>1. t \in Nat /\ t = row[s].next /\ t # NoTime
    BY <1>1, <1>9, SlotsAreNat, FiringTimesAssumption DEF Claimable
  <2>2. claims[s][t] = 0 /\ sent[s][t] = 0
    BY <1>5, <2>1 DEF ClaimedOnce, ClaimsBehind, TypeOK
  <2>3. claims'[s][t] = 1 /\ sent'[s][t] = 0
    BY <1>1, <1>2, <1>9, <2>2 DEF TypeOK
  <2>4. \A q \in Proc : ~MayMail(q, s, t)
    BY <1>5, <2>2 DEF ClaimedOnce, MailersClaimed
  <2>5. ClaimsBehind(s, t)'
    <3>1. row'[s].next = Upcoming(j, tick[p].moment)
      BY <1>1, <1>3, <1>9 DEF TypeOK, Row
    <3>2. QED
      BY <1>3, <1>9, <2>1, <3>1, UpcomingForward, UpcomingType, SlotsAreNat
         DEF ClaimsBehind
  <2>6. OneMailer(s, t)'
    BY <1>6, <1>7, <2>4 DEF OneMailer, MayMail
  <2>7. QED
    BY <2>3, <2>5, <2>6 DEF ClaimedOnce, MailersClaimed
<1>10. CASE ~(s = j.sid /\ t = j.row.next)
  <2>1. claims'[s][t] = claims[s][t] /\ sent'[s][t] = sent[s][t]
    BY <1>1, <1>2, <1>10 DEF TypeOK
  <2>2. \A q \in Proc : InHand(q, s, t)' => InHand(q, s, t)
    BY <1>7, <1>8, <1>10
  <2>3. QED
    BY <1>2, <1>5, <1>6, <2>1, <2>2, QuietStep DEF MayMail
<1>11. QED
  BY <1>9, <1>10

(* A mail goes out for a process that alone may send it.                   *)
LEMMA DeliverStep ==
  ASSUME StartsOnTheMinute, TypeOK, JobsInHand, OnceInv, [Next]_vars,
         NEW p \in Proc, NEW u \in Sched, RunDeliver(p, u), NEW s \in Sched, NEW t \in Slot, s \notin rewound'
  PROVE  ClaimedOnce(s, t)'
<1>1. /\ run[p][u].st = "executing"
      /\ run' = [run EXCEPT ![p][u].st = "delivered"]
      /\ sent' = [sent EXCEPT ![u][run[p][u].slot] = @ + 1]
      /\ tick' = tick /\ claims' = claims /\ row' = row /\ rewound' = rewound
  BY DEF RunDeliver, table
<1>2. ClaimedOnce(s, t) /\ FreshUnclaimed
  BY <1>1 DEF OnceInv
<1>3. run[p][u].slot \in Slot
  BY <1>1, RunFields
<1>4. \A q \in Proc : InHand(q, s, t)' <=> InHand(q, s, t)
  BY <1>1 DEF InHand
<1>5. /\ s = u => ~InRun(p, s, t, Unsent)'
      /\ \A q \in Proc : ~(q = p /\ s = u) =>
           (InRun(q, s, t, Unsent)' <=> InRun(q, s, t, Unsent))
  <2>1. s = u => run'[p][s].st = "delivered"
    <3>1. run[p][u] \in Begun
      BY <1>1, BegunType DEF TypeOK
    <3>2. QED
      BY <1>1, <3>1 DEF TypeOK, Begun
  <2>2. \A q \in Proc : ~(q = p /\ s = u) => run'[q][s] = run[q][s]
    BY <1>1 DEF TypeOK
  <2>3. QED
    BY <2>1, <2>2 DEF InRun, Unsent
<1>6. CASE s = u /\ t = run[p][u].slot
  <2>1. InRun(p, s, t, Unsent)
    BY <1>1, <1>6 DEF InRun, Unsent
  <2>2. claims[s][t] = 1 /\ sent[s][t] = 0 /\ ~InHand(p, s, t)
    BY <1>2, <2>1 DEF ClaimedOnce, MailersClaimed, OneMailer, MayMail
  <2>3. claims'[s][t] = 1 /\ sent'[s][t] = 1
    BY <1>1, <1>6, <2>2 DEF TypeOK
  <2>4. \A q \in Proc : ~MayMail(q, s, t)'
    BY <1>2, <1>4, <1>5, <1>6, <2>1, <2>2 DEF ClaimedOnce, OneMailer, MayMail
  <2>5. ClaimsBehind(s, t)'
    BY <1>1, <1>2 DEF ClaimedOnce, ClaimsBehind
  <2>6. MailersClaimed(s, t)' /\ OneMailer(s, t)'
    BY <2>4 DEF MailersClaimed, OneMailer, MayMail
  <2>7. QED
    BY <2>3, <2>5, <2>6 DEF ClaimedOnce
<1>7. CASE ~(s = u /\ t = run[p][u].slot)
  <2>1. claims'[s][t] = claims[s][t] /\ sent'[s][t] = sent[s][t]
    BY <1>1, <1>3, <1>7 DEF TypeOK
  <2>2. \A q \in Proc : InRun(q, s, t, Unsent)' => InRun(q, s, t, Unsent)
    BY <1>5
  <2>3. QED
    BY <1>1, <1>2, <1>4, <2>1, <2>2, QuietStep DEF MayMail
<1>8. QED
  BY <1>6, <1>7

LEMMA OnceInit == Init => OnceInv
<1> SUFFICES ASSUME Init PROVE OnceInv
  OBVIOUS
<1>1. \A p \in Proc, s \in Sched, t \in Slot : ~InHand(p, s, t) /\ ~InRun(p, s, t, Unsent)
  BY DEF Init, InHand, InRun, Unsent, IdleTick, NoRun
<1>2. \A s \in Sched, t \in Slot : claims[s][t] = 0 /\ sent[s][t] = 0
  BY DEF Init
<1>3. FreshUnclaimed
  BY <1>2 DEF Init, FreshUnclaimed
<1>4. QED
  BY <1>1, <1>2, <1>3 DEF OnceInv, ClaimedOnce, ClaimsBehind, MailersClaimed, OneMailer,
     MayMail

LEMMA OnceStep ==
  ASSUME StartsOnTheMinute, TypeOK, JobsInHand, OnceInv, [Next]_vars PROVE OnceInv'
<1>1. FreshUnclaimed'
  BY FreshStep DEF OnceInv
<1>2. ASSUME NEW s \in Sched, NEW t \in Slot, s \notin rewound' PROVE ClaimedOnce(s, t)'
  <2>1. CASE \E p \in Proc : ClaimWon(p)
    BY <1>2, <2>1, ClaimStep
  <2>2. CASE \E p \in Proc, u \in Sched : RunDeliver(p, u)
    BY <1>2, <2>2, DeliverStep
  <2>3. CASE /\ ~\E p \in Proc : ClaimWon(p)
             /\ ~\E p \in Proc, u \in Sched : RunDeliver(p, u)
    <3>1. claims' = claims /\ sent' = sent /\ s \notin rewound
      BY <1>2, <2>3, CountersKept
    <3>2. ClaimedOnce(s, t) /\ FreshUnclaimed
      BY <3>1 DEF OnceInv
    <3>3. \A p \in Proc : InHand(p, s, t)' => InHand(p, s, t)
      BY <2>3, CurKept DEF InHand
    <3>4. \A p \in Proc :
            /\ MayMail(p, s, t)' => MayMail(p, s, t)
            /\ InHand(p, s, t)' /\ InRun(p, s, t, Unsent)' =>
                 InHand(p, s, t) /\ InRun(p, s, t, Unsent)
      BY <2>3, MailersKept
    <3>5. QED
      BY <1>2, <3>1, <3>2, <3>3, <3>4, QuietStep
  <2>4. QED
    BY <2>1, <2>2, <2>3
<1>3. QED
  BY <1>1, <1>2 DEF OnceInv

(* No occurrence of a schedule that no edit has rewound is mailed twice,   *)
(* or claimed twice, by any number of processes, provided that no start    *)
(* falls within a minute.                                                  *)
THEOREM SendOnce == ASSUME StartsOnTheMinute PROVE Spec => []NeverSendTwice
<1>1. Init => OnceInv
  BY OnceInit
<1>2. TypeOK /\ JobsInHand /\ OnceInv /\ [Next]_vars => OnceInv'
  BY OnceStep
<1>3. TypeOK /\ OnceInv => NeverSendTwice
  <2> SUFFICES ASSUME TypeOK, OnceInv, NEW s \in Sched \ rewound, NEW t \in Slot
               PROVE  sent[s][t] <= 1
    BY DEF NeverSendTwice
  <2>1. claims[s][t] \in {0, 1} /\ sent[s][t] <= claims[s][t]
    BY DEF OnceInv, ClaimedOnce
  <2>2. sent[s][t] \in Nat
    BY DEF TypeOK
  <2>3. QED
    BY <2>1, <2>2
<1>4. QED
  BY <1>1, <1>2, <1>3, TypeCorrect, PTL DEF Spec

-----------------------------------------------------------------------------
(* The exception of SendOnce.  An edit hands back an occurrence only if the  *)
(* occurrence fell due, and was claimed, between the read of the edit and    *)
(* its write: edits that overlap no claim never have a schedule mail twice.  *)

ClaimedWhenDue == \A s \in Sched, t \in Slot : claims[s][t] > 0 => t <= now

Overlapped(s) == \E e \in Editor :
  /\ edit[e].st = "patching" /\ edit[e].sid = s
  /\ \E t \in Slot : claims[s][t] > 0 /\ t \in edit[e].at + 1 .. now

LEMMA ClaimedWhenDueStep ==
  ASSUME TypeOK, TypeOK', JobsInHand, ClaimedWhenDue, [Next]_vars PROVE ClaimedWhenDue'
<1>1. now \in Nat /\ now' \in Nat /\ now' >= now /\ Slot \subseteq Nat
  BY ClockForward, SlotsAreNat DEF TypeOK, Time
<1>2. CASE claims' = claims
  BY <1>1, <1>2 DEF ClaimedWhenDue
<1>3. ASSUME NEW p \in Proc, ClaimWon(p) PROVE ClaimedWhenDue'
  <2>1. PICK j \in tick[p].todo :
          claims' = [claims EXCEPT ![j.sid][j.row.next] = @ + 1]
    BY <1>3 DEF ClaimWon
  <2>2. j.row.next <= now /\ j.row.next \in Slot /\ j.sid \in Sched
    BY <2>1, <1>1, TickFields DEF JobsInHand, HeldOK, Job
  <2>3. \A s \in Sched, t \in Slot :
          claims'[s][t] = claims[s][t] \/ t = j.row.next
    BY <2>1, <2>2 DEF TypeOK
  <2>4. ASSUME NEW s \in Sched, NEW t \in Slot, claims'[s][t] > 0 PROVE t <= now'
    <3>1. CASE t = j.row.next
      BY <1>1, <2>2, <3>1
    <3>2. CASE claims'[s][t] = claims[s][t]
      <4>1. t <= now
        BY <2>4, <3>2 DEF ClaimedWhenDue
      <4>2. QED
        BY <1>1, <4>1
    <3>3. QED
      BY <2>3, <3>1, <3>2
  <2>5. QED
    BY <2>4 DEF ClaimedWhenDue
<1>4. claims' = claims \/ \E p \in Proc : ClaimWon(p)
  BY CountersKept
<1>5. QED
  BY <1>2, <1>3, <1>4

LEMMA PatchRewinds ==
  ASSUME StartsOnTheMinute, TypeOK, ClaimedWhenDue, NEW e \in Editor, FinishPatch(e),
         NEW s \in rewound' \ rewound
  PROVE  Overlapped(s)
<1> DEFINE pay == edit[e].pay
           merged == Merge(edit[e].old, pay)
<1>1. /\ edit[e].st = "patching" /\ edit[e].sid \in Sched
      /\ pay \in Patches /\ merged \in Row /\ edit[e].at \in Nat /\ now \in Nat
  BY PatchingType, MergeType DEF FinishPatch, TypeOK, Time
<1>2. PICK m \in edit[e].at .. now :
        s = edit[e].sid /\ Rewinds(s, ComputeNextRun(merged, m))
  BY DEF FinishPatch
<1> HIDE DEF merged
<1>3. PICK u : u = ComputeNextRun(merged, m)
  OBVIOUS
<1>4. PICK t \in Slot : claims[s][t] > 0 /\ u # NoTime /\ u <= t
  BY <1>2, <1>3 DEF Rewinds
<1>5. u \in Nat /\ u > m
  <2>1. m \in Nat
    BY <1>1
  <2>2. u = NextRun(Fires[merged.cron], m, merged.starts, merged.ends)
    BY <1>3, <1>4 DEF ComputeNextRun
  <2>3. /\ Fires[merged.cron] \in SUBSET Nat
        /\ merged.starts \in Nat \cup {NoTime} /\ merged.ends \in Nat \cup {NoTime}
    BY <1>1, FiresAreNat, SchedulerAssumption DEF Row
  <2>4. merged.starts # NoTime =>
          \A v \in Fires[merged.cron] : v > merged.starts - Minute => v >= merged.starts
    BY <1>1 DEF StartsOnTheMinute, Row
  <2>5. u > m
    BY <1>4, <2>1, <2>2, <2>3, <2>4, NextRunForward
  <2>6. u \in Slot \cup {NoTime}
    BY <1>1, <1>3, <2>1, ComputeNextRunType
  <2>7. QED
    BY <1>4, <2>5, <2>6, SlotsAreNat
<1>6. t \in edit[e].at + 1 .. now
  <2>1. t \in Nat /\ t <= now
    BY <1>1, <1>2, <1>4, SlotsAreNat DEF ClaimedWhenDue
  <2>2. QED
    BY <1>1, <1>4, <1>5, <2>1
<1>7. QED
  BY <1>1, <1>2, <1>4, <1>6 DEF Overlapped

\* Only an edit that overlaps a claim hands a schedule back what it has claimed.
THEOREM RewoundByOverlap ==
  ASSUME StartsOnTheMinute
  PROVE  Spec => [][\A s \in rewound' \ rewound : Overlapped(s)]_vars
<1>1. Init => ClaimedWhenDue
  BY DEF Init, ClaimedWhenDue
<1>2. TypeOK /\ TypeOK' /\ JobsInHand /\ ClaimedWhenDue /\ [Next]_vars => ClaimedWhenDue'
  BY ClaimedWhenDueStep
<1>3. ASSUME TypeOK, ClaimedWhenDue, Next PROVE \A s \in rewound' \ rewound : Overlapped(s)
  <2>1. rewound' = rewound \/ \E e \in Editor : FinishPatch(e)
    <3>1. ASSUME NEW e \in Editor, EditStep(e) PROVE rewound' = rewound \/ FinishPatch(e)
      BY <3>1 DEF EditStep, BeginCreate, FinishCreate, BeginPatch, history
    <3>2. ASSUME NEW p \in Proc, TickStep(p) \/ Crash(p) \/ Shutdown(p)
          PROVE  rewound' = rewound
      BY <3>2 DEF TickStep, TickStart, ListDue, ListFailed, ClaimWon, ClaimLost,
         ClaimFailed, Retire, SkipMisfire, AppendRun, StartRuns, TickEnd, Crash, Shutdown,
         Forget, history
    <3>3. ASSUME NEW p \in Proc, NEW s \in Sched, RunStep(p, s) \/ TestStep(p, s)
          PROVE  rewound' = rewound
      BY <3>3 DEF RunStep, RunAcquire, RunDeliver, RunEnd, RunRecord, RunWriteBack,
         TestStep, BeginTest, AcquireTest, EndTest, history
    <3>4. QED
      BY <1>3, <3>1, <3>2, <3>3 DEF Next, Delete, Pass, history
  <2>2. QED
    BY <1>3, <2>1, PatchRewinds
<1> DEFINE Alone == \A s \in rewound' \ rewound : Overlapped(s)
<1>4. TypeOK /\ ClaimedWhenDue /\ Next => Alone
  BY <1>3
<1> HIDE DEF Alone
<1>5. TypeOK /\ ClaimedWhenDue /\ [Next]_vars => [Alone]_vars
  BY <1>4
<1>6. QED
  BY <1>1, <1>2, <1>5, TypeCorrect, PTL DEF Spec, Alone

-----------------------------------------------------------------------------
(* The promise of SchedulePromise: every step of the loop, its table and   *)
(* the requests is a step of the promise, or does not show in it.          *)

LEMMA PendingIsMayMail ==
  ASSUME NEW s \in Sched, NEW t \in Slot
  PROVE  Pending(s, t) <=> \E p \in Proc : MayMail(p, s, t)
  BY DEF Pending, MayMail

LEMMA FateType ==
  ASSUME NEW s \in Sched, NEW t \in Slot
  PROVE  FateOf(s, t) \in Promise!Fate
  BY DEF FateOf, Promise!Fate

(* Nothing claimed at or after a slot that is being claimed.               *)
LEMMA LaterOpen ==
  ASSUME TypeOK, OnceInv, NEW s \in Sched \ rewound, NEW t \in Slot, NEW u \in Slot,
         row[s].next = t, u >= t
  PROVE  FateOf(s, u) = "open"
<1>1. ClaimedOnce(s, u)
  BY DEF OnceInv
<1>2. t \in Nat /\ u \in Nat /\ t # NoTime
  BY SlotsAreNat, FiringTimesAssumption
<1>3. claims[s][u] = 0 /\ sent[s][u] \in Nat
  BY <1>1, <1>2 DEF ClaimedOnce, ClaimsBehind, TypeOK
<1>4. sent[s][u] = 0
  BY <1>1, <1>3 DEF ClaimedOnce
<1>5. ~Pending(s, u)
  BY <1>1, <1>3, PendingIsMayMail DEF ClaimedOnce, MailersClaimed
<1>6. QED
  BY <1>3, <1>4, <1>5 DEF FateOf

(* The claim of an occurrence takes it.                                    *)
LEMMA ClaimTakes ==
  ASSUME TypeOK, JobsInHand, OnceInv, OnceInv', TypeOK', NEW p \in Proc, ClaimWon(p)
  PROVE  [Promise!Next]_<<[s \in Sched |-> [t \in Slot |-> FateOf(s, t)]], rewound>>
<1>1. PICK j \in tick[p].todo :
        /\ Claimable(j)
        /\ claims' = [claims EXCEPT ![j.sid][j.row.next] = @ + 1]
        /\ \E st : tick' = [tick EXCEPT ![p].st = st, ![p].todo = @ \ {j}, ![p].cur = j]
  BY DEF ClaimWon
<1>2. sent' = sent /\ run' = run /\ rewound' = rewound
  BY DEF ClaimWon, clients
<1> DEFINE s0 == j.sid
           t0 == j.row.next
<1>3. /\ j \in Job /\ s0 \in Sched /\ t0 \in Slot /\ j # NoJob
  BY TickFields, SchedulerAssumption DEF JobsInHand, HeldOK, Job
<1>4. tick'[p].cur = j /\ \A q \in Proc \ {p} : tick'[q] = tick[q]
  BY <1>1 DEF TypeOK, TickType
<1>5. tick[p].cur = NoJob
  <2>1. tick[p].st = "claiming"
    BY DEF ClaimWon, NextJob
  <2>2. QED
    BY <2>1 DEF JobsInHand, HeldOK
<1>6. ASSUME NEW s \in Sched, NEW t \in Slot, ~(s = s0 /\ t = t0)
      PROVE  FateOf(s, t)' = FateOf(s, t)
  <2>1. \A q \in Proc : InHand(q, s, t)' <=> InHand(q, s, t)
    BY <1>3, <1>4, <1>5, <1>6 DEF InHand
  <2>2. \A q \in Proc : InRun(q, s, t, Unsent)' <=> InRun(q, s, t, Unsent)
    BY <1>2 DEF InRun, Unsent
  <2>3. Pending(s, t)' <=> Pending(s, t)
    BY <2>1, <2>2 DEF Pending
  <2>4. claims'[s][t] = claims[s][t]
    BY <1>1, <1>3, <1>6 DEF TypeOK
  <2>5. QED
    BY <1>2, <2>3, <2>4 DEF FateOf
<1>7. CASE s0 \in rewound
  <2>1. FateOf(s0, t0)' = FateOf(s0, t0)
    BY <1>2, <1>7 DEF FateOf
  <2>2. \A s \in Sched, t \in Slot : FateOf(s, t)' = FateOf(s, t)
    BY <1>6, <2>1
  <2>3. QED
    BY <1>2, <2>2
<1>8. CASE s0 \notin rewound
  <2>1. row[s0].next = t0
    BY <1>1 DEF Claimable
  <2>2. \A u \in Slot : u >= t0 => FateOf(s0, u) = "open"
    BY <1>3, <1>8, <2>1, LaterOpen
  <2>3. FateOf(s0, t0)' = "taken"
    <3>1. InHand(p, s0, t0)'
      BY <1>3, <1>4 DEF InHand
    <3>2. Pending(s0, t0)' /\ MayMail(p, s0, t0)'
      BY <3>1 DEF Pending, MayMail
    <3>3. ClaimedOnce(s0, t0)'
      BY <1>2, <1>3, <1>8 DEF OnceInv
    <3>4. sent'[s0][t0] = 0
      BY <3>2, <3>3 DEF ClaimedOnce, MailersClaimed
    <3>5. QED
      BY <1>2, <1>8, <3>2, <3>4 DEF FateOf
  <2>4. Promise!Take(s0, t0)
    BY <1>2, <1>3, <1>6, <1>8, <2>2, <2>3 DEF Promise!Take
  <2>5. QED
    BY <1>3, <2>4 DEF Promise!Next
<1>9. QED
  BY <1>7, <1>8

(* The mail of an occurrence is the mail of one that was taken.            *)
LEMMA DeliverMails ==
  ASSUME TypeOK, JobsInHand, OnceInv, NEW p \in Proc, NEW u \in Sched, RunDeliver(p, u)
  PROVE  [Promise!Next]_<<[s \in Sched |-> [t \in Slot |-> FateOf(s, t)]], rewound>>
<1>0. PICK t0 \in Slot : t0 = run[p][u].slot
  BY RunFields DEF RunDeliver
<1>1. /\ run[p][u].st = "executing"
      /\ run' = [run EXCEPT ![p][u].st = "delivered"]
      /\ sent' = [sent EXCEPT ![u][t0] = @ + 1]
      /\ tick' = tick /\ claims' = claims /\ rewound' = rewound
  BY <1>0 DEF RunDeliver
<1>2. t0 \in Slot
  BY <1>0
<1>3. run'[p][u].slot = t0 /\ run'[p][u].st = "delivered"
  <2>1. run[p][u] \in Begun
    BY <1>1, BegunType DEF TypeOK
  <2>2. QED
    BY <1>0, <1>1, <2>1 DEF TypeOK, Begun
<1>4. ASSUME NEW s \in Sched, NEW t \in Slot, ~(s = u /\ t = t0)
      PROVE  FateOf(s, t)' = FateOf(s, t)
  <2>1. \A q \in Proc : InHand(q, s, t)' <=> InHand(q, s, t)
    BY <1>1 DEF InHand
  <2>2. \A q \in Proc : InRun(q, s, t, Unsent)' <=> InRun(q, s, t, Unsent)
    <3>1. \A q \in Proc : ~(q = p /\ s = u) => run'[q][s] = run[q][s]
      BY <1>1 DEF TypeOK
    <3>2. s = u => t # t0
      BY <1>4
    <3>3. QED
      BY <1>0, <1>3, <3>1, <3>2 DEF InRun, Unsent
  <2>3. Pending(s, t)' <=> Pending(s, t)
    BY <2>1, <2>2 DEF Pending
  <2>4. sent'[s][t] = sent[s][t]
    BY <1>1, <1>2, <1>4 DEF TypeOK
  <2>5. QED
    BY <1>1, <2>3, <2>4 DEF FateOf
<1>5. CASE u \in rewound
  <2>1. FateOf(u, t0)' = FateOf(u, t0)
    BY <1>1, <1>5 DEF FateOf
  <2>2. \A s \in Sched, t \in Slot : FateOf(s, t)' = FateOf(s, t)
    BY <1>4, <2>1
  <2>3. QED
    BY <1>1, <2>2
<1>6. CASE u \notin rewound
  <2>1. InRun(p, u, t0, Unsent)
    BY <1>0, <1>1 DEF InRun, Unsent
  <2>2. Pending(u, t0) /\ MayMail(p, u, t0)
    BY <2>1 DEF Pending, MayMail
  <2>3. sent[u][t0] = 0
    BY <1>2, <1>6, <2>2 DEF OnceInv, ClaimedOnce, MailersClaimed
  <2>4. FateOf(u, t0) = "taken"
    BY <1>6, <2>2, <2>3 DEF FateOf
  <2>5. sent'[u][t0] = 1
    BY <1>1, <1>2, <2>3 DEF TypeOK
  <2>6. FateOf(u, t0)' = "mailed"
    BY <1>1, <1>6, <2>5 DEF FateOf
  <2>7. Promise!Mail(u, t0)
    BY <1>1, <1>2, <1>4, <2>4, <2>6 DEF Promise!Mail
  <2>8. QED
    BY <1>2, <2>7 DEF Promise!Next
<1>7. QED
  BY <1>5, <1>6

(* An edit that hands a schedule back a slot it had claimed voids it.      *)
LEMMA RewindVoids ==
  ASSUME NEW s0 \in Sched, rewound' = rewound \cup {s0},
         claims' = claims, sent' = sent, tick' = tick, run' = run
  PROVE  Promise!Next
<1>1. \A s \in Sched, t \in Slot :
        FateOf(s, t)' = IF s = s0 THEN "open" ELSE FateOf(s, t)
  BY DEF FateOf, Pending, InHand, InRun, Unsent
<1>2. Promise!Void(s0)
  BY <1>1 DEF Promise!Void, Promise!Unknown
<1>3. QED
  BY <1>2 DEF Promise!Next

(* A step that claims, mails and rewinds nothing can only give up.         *)
LEMMA OthersGiveUp ==
  ASSUME TypeOK, OnceInv, rewound' = rewound, claims' = claims, sent' = sent,
         \A p \in Proc, s \in Sched, t \in Slot : MayMail(p, s, t)' => MayMail(p, s, t)
  PROVE  Promise!Next
<1>1. ASSUME NEW s \in Sched, NEW t \in Slot
      PROVE  \/ FateOf(s, t)' = FateOf(s, t)
             \/ FateOf(s, t) = "taken" /\ FateOf(s, t)' = "over"
  <2>1. CASE s \in rewound
    BY <2>1 DEF FateOf
  <2>2. CASE s \notin rewound
    <3>1. Pending(s, t)' => Pending(s, t)
      BY DEF Pending, MayMail
    <3>2. Pending(s, t) => claims[s][t] > 0 /\ sent[s][t] = 0
      BY <2>2, PendingIsMayMail DEF OnceInv, ClaimedOnce, MailersClaimed
    <3>3. QED
      BY <2>2, <3>1, <3>2 DEF FateOf
  <2>3. QED
    BY <2>1, <2>2
<1>2. \A s \in Sched, t \in Slot : FateOf(s, t)' \in Promise!Fate
  BY DEF FateOf, Promise!Fate
<1>3. Promise!GiveUp
  BY <1>1, <1>2 DEF Promise!GiveUp
<1>4. QED
  BY <1>3 DEF Promise!Next

(* Only a PATCH rewinds, and it claims, mails and runs nothing.            *)
LEMMA RewindStep ==
  ASSUME TypeOK, [Next]_vars, rewound' # rewound
  PROVE  /\ \E s \in Sched : rewound' = rewound \cup {s}
         /\ claims' = claims /\ sent' = sent /\ tick' = tick /\ run' = run
<1>1. ASSUME NEW e \in Editor, ~FinishPatch(e), EditStep(e) PROVE FALSE
  BY <1>1 DEF EditStep, BeginCreate, FinishCreate, BeginPatch, history
<1>2. ASSUME NEW p \in Proc, TickStep(p) PROVE FALSE
  BY <1>2 DEF TickStep, TickStart, ListDue, ListFailed, ClaimWon, ClaimLost, ClaimFailed,
     Retire, SkipMisfire, AppendRun, StartRuns, TickEnd, history
<1>3. ASSUME NEW p \in Proc, Crash(p) \/ Shutdown(p) PROVE FALSE
  BY <1>3 DEF Crash, Shutdown, Forget
<1>4. ASSUME NEW p \in Proc, NEW s \in Sched, RunStep(p, s) \/ TestStep(p, s) PROVE FALSE
  BY <1>4 DEF RunStep, RunAcquire, RunDeliver, RunEnd, RunRecord, RunWriteBack,
     TestStep, BeginTest, AcquireTest, EndTest, history
<1>5. PICK e \in Editor : FinishPatch(e)
  BY <1>1, <1>2, <1>3, <1>4 DEF Next, Delete, Pass, vars, history
<1>6. edit[e].sid \in Sched
  BY <1>5, PatchingType DEF FinishPatch
<1>7. QED
  BY <1>5, <1>6 DEF FinishPatch

LEMMA PromiseStep ==
  ASSUME TypeOK, TypeOK', JobsInHand, OnceInv, OnceInv', [Next]_vars
  PROVE  [Promise!Next]_<<[s \in Sched |-> [t \in Slot |-> FateOf(s, t)]], rewound>>
<1>1. CASE rewound' # rewound
  BY <1>1, RewindStep, RewindVoids
<1>2. CASE \E p \in Proc : ClaimWon(p)
  BY <1>2, ClaimTakes
<1>3. CASE \E p \in Proc, s \in Sched : RunDeliver(p, s)
  BY <1>3, DeliverMails
<1>4. CASE /\ rewound' = rewound
           /\ ~\E p \in Proc : ClaimWon(p)
           /\ ~\E p \in Proc, s \in Sched : RunDeliver(p, s)
  <2>1. claims' = claims /\ sent' = sent
    BY <1>4, CountersKept
  <2>2. \A p \in Proc, s \in Sched, t \in Slot : MayMail(p, s, t)' => MayMail(p, s, t)
    BY <1>4, MailersKept
  <2>3. QED
    BY <1>4, <2>1, <2>2, OthersGiveUp
<1>5. QED
  BY <1>1, <1>2, <1>3, <1>4

LEMMA PromiseInit == Init => Promise!Init
<1> SUFFICES ASSUME Init PROVE Promise!Init
  OBVIOUS
<1>1. \A s \in Sched, t \in Slot : FateOf(s, t) = "open"
  BY DEF Init, FateOf, Pending, InHand, InRun, Unsent, IdleTick, NoRun
<1>2. QED
  BY <1>1 DEF Init, Promise!Init, Promise!Unknown

(* The scheduler, with its table and the requests that edit it, implements *)
(* SchedulePromise, provided that no start falls within a minute.          *)
THEOREM PromiseKept == ASSUME StartsOnTheMinute PROVE Spec => KeepsPromise
<1>1. Init => Promise!Init
  BY PromiseInit
<1>2. Init => OnceInv
  BY OnceInit
<1>3. TypeOK /\ JobsInHand /\ OnceInv /\ [Next]_vars => OnceInv'
  BY OnceStep
<1>4. TypeOK /\ TypeOK' /\ JobsInHand /\ OnceInv /\ OnceInv' /\ [Next]_vars =>
        [Promise!Next]_<<[s \in Sched |-> [t \in Slot |-> FateOf(s, t)]], rewound>>
  BY PromiseStep
<1>5. QED
  BY <1>1, <1>2, <1>3, <1>4, TypeCorrect, PTL DEF Spec, KeepsPromise, Promise!Spec
=============================================================================
