------------------------------ MODULE Scheduler ------------------------------
(***************************************************************************)
(* The scheduled-query loop (services/scheduler.py), the table it claims   *)
(* from (pgdatabase/schedules.py) and the requests that edit that table    *)
(* under it (controllers/schedules.py).                                    *)
(*                                                                         *)
(* Minute units of time make a minute; expressions fire on whole minutes,  *)
(* while the clock and starts_at may fall between two of them.  Every      *)
(* await on the database is a step of its own; what a coroutine computes   *)
(* between two awaits belongs to the step that follows it.  A tick works   *)
(* on the rows list_due_schedules returned, and a PATCH on the row         *)
(* get_schedule returned; both may be stale by the time they are used.     *)
(***************************************************************************)
EXTENDS Integers, FiniteSets, FiringTimes

CONSTANTS
  Sched,          \* ids a scheduled query may be given (never reused)
  Proc,           \* BoloDB processes, each with its own scheduler loop
  Editor,         \* concurrent API requests that create or edit
  Cron,           \* cron expressions in use
  Fires,          \* Fires[c]: the whole minutes expression c fires at
  Starts, Ends,   \* values of starts_at and ends_at, NoTime included
  Patches,        \* PATCH bodies in use; a field absent from one is Keep
  Keep,
  NoJob,          \* no row is being claimed
  Grace,          \* SCHEDULE_MISFIRE_GRACE_SECONDS, in units of the clock
  BatchSize,      \* DUE_BATCH_SIZE
  MaxConcurrent,  \* SCHEDULE_MAX_CONCURRENT
  MaxFailures,    \* SCHEDULE_MAX_FAILURES
  MaxSchedules,   \* MAX_SCHEDULES_PER_WORKSPACE
  Faults,         \* what may go wrong: some of "crash", "stop", "db"
  MaxTime,        \* bound: the last instant of the clock
  MaxEdits,       \* bound: PATCH requests begun
  MaxTests,       \* bound: "Run now" requests begun
  MaxFaults       \* bound: crashes, shutdowns and writes that raised

Time == 0..MaxTime
Slot == UNION {Fires[c] : c \in Cron}
Status == {"success", "failed", "skipped"}

\* scheduled_queries.  The report's text, recipients and formatting are left
\* out: they decide what a mail says, not when one goes out.
Row == [cron : Cron, starts : Starts, ends : Ends, active : BOOLEAN,
        next : Slot \cup {NoTime}, failures : Nat]

Patch == [cron : Cron \cup {Keep}, starts : Starts \cup {Keep},
          ends : Ends \cup {Keep}, active : BOOLEAN \cup {Keep}]

\* A row as list_due_schedules returned it.
Job == [sid : Sched, row : Row]

ASSUME SchedulerAssumption ==
  /\ Cron # {}
  /\ Fires \in [Cron -> SUBSET {t \in Nat : t % Minute = 0}]
  /\ NoTime \in Starts /\ Starts \subseteq Nat \cup {NoTime}
  /\ NoTime \in Ends /\ Ends \subseteq Nat \cup {NoTime}
  /\ Patches \subseteq Patch
  /\ Keep \notin Cron /\ Keep \notin Starts /\ Keep \notin Ends /\ Keep \notin BOOLEAN
  /\ NoJob \notin Job
  /\ Faults \subseteq {"crash", "stop", "db"}
  /\ {Grace, MaxTime, MaxEdits, MaxTests, MaxFaults} \subseteq Nat
  /\ {BatchSize, MaxConcurrent, MaxFailures, MaxSchedules} \subseteq Nat \ {0}

\* No start falls within a minute, just after an instant an expression fires
\* at: true when starts_at is a whole minute, as the dates the UI sends are.
StartsOnTheMinute ==
  \A c \in Cron, b \in Starts \ {NoTime} :
    \A u \in Fires[c] : u > b - Minute => u >= b

VARIABLES
  now,       \* the clock, shared by every process
  fresh,     \* ids no schedule has had yet
  live,      \* ids with a row in scheduled_queries
  row,       \* the rows; BlankRow for an id that is not live
  logged,    \* schedule_runs: occurrence and status of each schedule's rows
  edit,      \* what each API request has read and is about to write
  edits,     \* PATCH requests begun so far
  test,      \* test[p][s]: a "Run now" of s served by process p
  tests,     \* "Run now" requests begun so far
  tick,      \* each process's tick()
  run,       \* run[p][s]: the run_schedule of s that p's tick started
  faults,    \* crashes, shutdowns and writes that raised so far
  claims,    \* history: how often each occurrence was claimed to be run
  sent,      \* history: mails the provider accepted for each occurrence
  dropped,   \* history: occurrences a fault left without a row in logged
  rewound,   \* history: schedules handed back a slot they had claimed
  streak,    \* history: runs that failed in a row since another or a resume
  unwritten, \* history: schedules with the outcome of a run not written back
  raced      \* history: schedules with a claim that overlapped what it counts

table == <<fresh, live, row>>
clients == <<edit, edits, test, tests>>
history == <<claims, sent, dropped, rewound, streak, unwritten, raced>>
vars == <<now, table, logged, clients, tick, run, faults, history>>

-----------------------------------------------------------------------------

BlankRow == [cron |-> CHOOSE c \in Cron : TRUE, starts |-> NoTime, ends |-> NoTime,
             active |-> FALSE, next |-> NoTime, failures |-> 0]
IdleEdit == [st |-> "idle"]
IdleTick == [st |-> "idle", moment |-> 0, todo |-> {}, cur |-> NoJob]
NoRun == [st |-> "none"]

EditType == {IdleEdit}
  \cup [st : {"creating"}, new : Row]
  \cup [st : {"patching"}, sid : Sched, pay : Patches, old : Row, at : Time]

TickType == [st : {"idle", "listing", "claiming", "retiring", "settling", "running"},
             moment : Time, todo : SUBSET Job, cur : Job \cup {NoJob}]

RunType == {NoRun}
  \cup [st : {"appended", "queued", "executing", "delivered", "recording", "writing"},
        slot : Slot, failures : Nat, status : Status]

\* A fault of this kind happens now.
Fault(kind) ==
  /\ kind \in Faults
  /\ faults < MaxFaults
  /\ faults' = faults + 1

\* compute_next_run: None for a paused schedule.
ComputeNextRun(r, moment) ==
  IF r.active THEN NextRun(Fires[r.cron], moment, r.starts, r.ends) ELSE NoTime

\* p has claimed an occurrence of s and is not through with it: its copy of
\* the failure counter is the one it will write.
Claimed(p, s) == (tick[p].cur # NoJob /\ tick[p].cur.sid = s) \/ run[p][s].st # "none"

\* p has claimed occurrence t of s and is deciding what to do with it.
InHand(p, s, t) ==
  tick[p].cur # NoJob /\ tick[p].cur.sid = s /\ tick[p].cur.row.next = t

\* A run of p for occurrence t of s is at one of these stages.
InRun(p, s, t, stages) == run[p][s].st \in stages /\ run[p][s].slot = t

Unsent == {"appended", "queued", "executing"}
Underway == Unsent \cup {"delivered", "recording"}
Ended == {"recording", "writing"}

\* The occurrences of s that p has claimed and whose fate it has yet to record.
Unrecorded(p, s) == {t \in Slot : InHand(p, s, t) \/ InRun(p, s, t, Underway)}

-----------------------------------------------------------------------------
(* The API: create, PATCH (which pause and resume go through), delete and  *)
(* "Run now".                                                              *)

\* validate_payload: an end given together with a start must come after it.
InOrder(starts, ends) == {starts, ends} \subseteq Nat => ends > starts

WithNext(r, next) == [r EXCEPT !.next = next]

\* A row as a create request fills it in, before its first slot is known.
Draft(c, b, z, a) ==
  [cron |-> c, starts |-> b, ends |-> z, active |-> a, next |-> NoTime, failures |-> 0]

\* create_schedule up to the insert: the payload is validated and the first
\* slot computed from the clock.
BeginCreate(e) ==
  /\ edit[e] = IdleEdit
  /\ \E c \in Cron, b \in Starts, z \in Ends, a \in BOOLEAN :
       LET first == ComputeNextRun(Draft(c, b, z, a), now)
       IN  /\ InOrder(b, z)
           /\ a => first # NoTime
           /\ edit' = [edit EXCEPT ![e] =
                [st |-> "creating", new |-> WithNext(Draft(c, b, z, a), first)]]
  /\ UNCHANGED <<now, table, logged, edits, test, tests, tick, run, faults, history>>

\* The insert, under the workspace's advisory lock: the count and the insert
\* are one step for every other create.  At the cap it is refused with a 409.
FinishCreate(e) ==
  /\ edit[e].st = "creating"
  /\ edit' = [edit EXCEPT ![e] = IdleEdit]
  /\ \/ /\ Cardinality(live) < MaxSchedules
        /\ \E s \in fresh :
             /\ fresh' = fresh \ {s}
             /\ live' = live \cup {s}
             /\ row' = [row EXCEPT ![s] = edit[e].new]
     \/ /\ Cardinality(live) >= MaxSchedules
        /\ UNCHANGED table
  /\ UNCHANGED <<now, logged, edits, test, tests, tick, run, faults, history>>

\* update_schedule up to its read of the row.
BeginPatch(e) ==
  /\ edit[e] = IdleEdit
  /\ edits < MaxEdits
  /\ edits' = edits + 1
  /\ \E s \in live, pay \in Patches :
       edit' = [edit EXCEPT ![e] =
         [st |-> "patching", sid |-> s, pay |-> pay, old |-> row[s], at |-> now]]
  /\ UNCHANGED <<now, table, logged, test, tests, tick, run, faults, history>>

\* A row with the payload's fields in place of its own.
Merge(r, pay) ==
  [r EXCEPT !.cron   = IF pay.cron = Keep THEN @ ELSE pay.cron,
            !.starts = IF pay.starts = Keep THEN @ ELSE pay.starts,
            !.ends   = IF pay.ends = Keep THEN @ ELSE pay.ends,
            !.active = IF pay.active = Keep THEN @ ELSE pay.active]

MovesFiring(pay) ==
  \E f \in {"cron", "starts", "ends", "active"} : pay[f] # Keep

\* "Reactivating ... should start from a clean slate": decided on the copy.
Reactivates(pay, old) == pay.active = TRUE /\ ~old.active

\* Variant: the counter survives the resume.
PatchedKeepingCount(r, pay, old, next) ==
  IF ~MovesFiring(pay) THEN r ELSE [Merge(r, pay) EXCEPT !.next = next]

\* The columns the UPDATE writes: the payload's, next_run_at as computed from
\* the copy, and the failure counter when the copy was paused.
Patched(r, pay, old, next) ==
  IF ~MovesFiring(pay) THEN r ELSE
  [Merge(r, pay) EXCEPT !.next = next,
                        !.failures = IF Reactivates(pay, old) THEN 0 ELSE @]

\* next_run_at = next would hand s an occurrence it has already claimed.
Rewinds(s, next) ==
  next # NoTime /\ \E t \in Slot : claims[s][t] > 0 /\ next <= t

\* update_schedule from its read to its UPDATE, which names the row by id
\* alone.  compute_next_run reads the clock somewhere in between.
FinishPatch(e) ==
  /\ edit[e].st = "patching"
  /\ \E m \in edit[e].at..now :
       LET s == edit[e].sid
           pay == edit[e].pay
           old == edit[e].old
           next == ComputeNextRun(Merge(old, pay), m)
           refused == \/ ~InOrder(pay.starts, pay.ends)
                      \/ MovesFiring(pay) /\ next = NoTime /\ Merge(old, pay).active
       IN  IF refused \/ s \notin live
             THEN UNCHANGED <<row, rewound, streak, unwritten, raced>>
             ELSE
               /\ row' = [row EXCEPT ![s] = Patched(@, pay, old, next)]
               /\ rewound' = IF MovesFiring(pay) /\ Rewinds(s, next)
                               THEN rewound \cup {s} ELSE rewound
               /\ streak' = IF Reactivates(pay, old)
                              THEN [streak EXCEPT ![s] = 0] ELSE streak
               /\ unwritten' = IF Reactivates(pay, old)
                                 THEN unwritten \ {s} ELSE unwritten
               /\ raced' = IF Reactivates(pay, old) /\ \E p \in Proc : Claimed(p, s)
                             THEN raced \cup {s} ELSE raced
  /\ edit' = [edit EXCEPT ![e] = IdleEdit]
  /\ UNCHANGED <<now, fresh, live, logged, edits, test, tests, tick, run, faults,
                 claims, sent, dropped>>

\* delete_schedule: the run history goes with the row.
Delete(s) ==
  /\ s \in live
  /\ live' = live \ {s}
  /\ row' = [row EXCEPT ![s] = BlankRow]
  /\ logged' = [logged EXCEPT ![s] = {}]
  /\ UNCHANGED <<now, fresh, clients, tick, run, faults, history>>

\* Variant: a run that fails does not give its slot back.
ExecutingLeaky(p) ==
  Cardinality({s \in Sched : \/ run[p][s].st \in {"executing", "delivered"}
                            \/ \E t \in Slot : <<t, "failed">> \in logged[s]})
    + Cardinality({s \in Sched : test[p][s] = "executing"})

\* Runs of p that hold one of the slots of _run_slots().
Executing(p) ==
  Cardinality({s \in Sched : run[p][s].st \in {"executing", "delivered"}})
    + Cardinality({s \in Sched : test[p][s] = "executing"})

\* run_now: run_schedule(manual=True) waits for a slot like any other run, and
\* writes neither the failure counter nor next_run_at.  Its row in the history
\* names no occurrence.
BeginTest(p, s) ==
  /\ s \in live
  /\ tests < MaxTests
  /\ test[p][s] = "none"
  /\ test' = [test EXCEPT ![p][s] = "queued"]
  /\ tests' = tests + 1
  /\ UNCHANGED <<now, table, logged, edit, edits, tick, run, faults, history>>

AcquireTest(p, s) ==
  /\ test[p][s] = "queued"
  /\ Executing(p) < MaxConcurrent
  /\ test' = [test EXCEPT ![p][s] = "executing"]
  /\ UNCHANGED <<now, table, logged, edit, edits, tests, tick, run, faults, history>>

EndTest(p, s) ==
  /\ test[p][s] = "executing"
  /\ test' = [test EXCEPT ![p][s] = "none"]
  /\ UNCHANGED <<now, table, logged, edit, edits, tests, tick, run, faults, history>>

-----------------------------------------------------------------------------
(* tick(): list the due rows, claim each, retire or skip where called for, *)
(* then run them together.                                                 *)

\* tick() reads the clock, then asks for the due rows.
TickStart(p) ==
  /\ tick[p].st = "idle"
  /\ tick' = [tick EXCEPT ![p].st = "listing", ![p].moment = now]
  /\ UNCHANGED <<now, table, logged, clients, run, faults, history>>

Due(moment) ==
  {s \in live : row[s].active /\ row[s].next # NoTime /\ row[s].next <= moment}

\* list_due_schedules: at most BatchSize of the due rows, the oldest ones.
ListDue(p) ==
  LET due == Due(tick[p].moment)
  IN  /\ tick[p].st = "listing"
      /\ IF due = {} THEN tick' = [tick EXCEPT ![p] = IdleTick] ELSE
         \E batch \in SUBSET due :
           /\ \A s \in batch, u \in due \ batch : row[s].next <= row[u].next
           /\ \/ Cardinality(batch) = BatchSize
              \/ batch = due /\ Cardinality(due) < BatchSize
           /\ tick' = [tick EXCEPT ![p].st = "claiming",
                ![p].todo = {[sid |-> s, row |-> row[s]] : s \in batch}]
      /\ UNCHANGED <<now, table, logged, clients, run, faults, history>>

\* Variant: the loop does not survive a read that raises.
ListFailedForGood(p) ==
  /\ Fault("db")
  /\ tick[p].st = "listing"
  /\ tick' = [tick EXCEPT ![p].st = "ended"]
  /\ UNCHANGED <<now, table, logged, clients, run, history>>

\* The read raises: the loop logs it and waits for its next interval.
ListFailed(p) ==
  /\ Fault("db")
  /\ tick[p].st = "listing"
  /\ tick' = [tick EXCEPT ![p] = IdleTick]
  /\ UNCHANGED <<now, table, logged, clients, run, history>>

\* The loop of tick() goes through the rows in the order they were listed.
NextJob(p, j) ==
  /\ tick[p].st = "claiming"
  /\ \A k \in tick[p].todo : j.row.next <= k.row.next

Upcoming(j, moment) ==
  NextRun(Fires[j.row.cron], moment, j.row.starts, j.row.ends)

\* Variant: the claim does not compare next_run_at.
ClaimableAnySlot(j) == j.sid \in live /\ row[j.sid].active

\* The WHERE clause of claim_schedule.
Claimable(j) ==
  /\ j.sid \in live
  /\ row[j.sid].active
  /\ row[j.sid].next = j.row.next

\* The compare-and-swap succeeds: the slot moves on before anything runs.
ClaimWon(p) == \E j \in tick[p].todo :
  /\ NextJob(p, j)
  /\ Claimable(j)
  /\ LET upcoming == Upcoming(j, tick[p].moment)
     IN  /\ row' = [row EXCEPT ![j.sid].next = upcoming]
         /\ tick' = [tick EXCEPT
              ![p].st = IF upcoming = NoTime THEN "retiring" ELSE "settling",
              ![p].todo = @ \ {j},
              ![p].cur = j]
  /\ claims' = [claims EXCEPT ![j.sid][j.row.next] = @ + 1]
  /\ raced' = IF \/ \E q \in Proc : Claimed(q, j.sid)
                 \/ j.row.failures # row[j.sid].failures
                THEN raced \cup {j.sid} ELSE raced
  /\ UNCHANGED <<now, fresh, live, logged, clients, run, faults,
                 sent, dropped, rewound, streak, unwritten>>

\* It matches no row: another tick took the slot, or an edit moved it.
ClaimLost(p) == \E j \in tick[p].todo :
  /\ NextJob(p, j)
  /\ ~Claimable(j)
  /\ tick' = [tick EXCEPT ![p].todo = @ \ {j}]
  /\ UNCHANGED <<now, table, logged, clients, run, faults, history>>

\* claim_schedule raises, before its commit or after it; tick() treats both
\* as a claim it lost.
ClaimFailed(p) == \E j \in tick[p].todo :
  /\ Fault("db")
  /\ NextJob(p, j)
  /\ tick' = [tick EXCEPT ![p].todo = @ \ {j}]
  /\ \/ UNCHANGED row
     \/ /\ Claimable(j)
        /\ row' = [row EXCEPT ![j.sid].next = Upcoming(j, tick[p].moment)]
  /\ UNCHANGED <<now, fresh, live, logged, clients, run, history>>

\* What finish_schedule_run writes; pause is is_active = False.
Finished(r, failures, pause) ==
  [r EXCEPT !.failures = failures,
            !.active = @ /\ ~pause,
            !.next = IF pause THEN NoTime ELSE @]

\* Variant: the retirement leaves is_active alone.
RetireStillActive(p) ==
  /\ tick[p].st = "retiring"
  /\ tick' = [tick EXCEPT ![p].st = "settling"]
  /\ UNCHANGED <<now, table, logged, clients, run, faults, history>>

\* The last occurrence was claimed: the schedule is finished, with the counter
\* of the copy.  An error here is suppressed.
Retire(p) ==
  LET s == tick[p].cur.sid
  IN  /\ tick[p].st = "retiring"
      /\ \/ /\ s \in live
            /\ row' = [row EXCEPT ![s] =
                         Finished(@, tick[p].cur.row.failures, TRUE)]
            /\ UNCHANGED faults
         \/ s \notin live /\ UNCHANGED <<row, faults>>
         \/ Fault("db") /\ UNCHANGED row
      /\ tick' = [tick EXCEPT ![p].st = "settling"]
      /\ UNCHANGED <<now, fresh, live, logged, clients, run, history>>

\* record_run for occurrence t of s: its foreign key fails when the schedule
\* is gone, and any error is suppressed.
Record(s, t, status) ==
  \/ /\ s \in live
     /\ logged' = [logged EXCEPT ![s] = @ \cup {<<t, status>>}]
     /\ UNCHANGED <<dropped, faults>>
  \/ /\ s \notin live
     /\ UNCHANGED <<logged, dropped, faults>>
  \/ /\ Fault("db")
     /\ dropped' = [dropped EXCEPT ![s] = @ \cup {t}]
     /\ UNCHANGED logged

TooLate(p) == tick[p].moment - tick[p].cur.row.next > Grace

\* Variant: a slot past its grace is passed over without a record.
SkipMisfireSilently(p) ==
  /\ tick[p].st = "settling"
  /\ TooLate(p)
  /\ tick' = [tick EXCEPT ![p].st = "claiming", ![p].cur = NoJob]
  /\ UNCHANGED <<now, table, logged, clients, run, faults, history>>

\* The slot is too old: record the gap and go on to the next row.
SkipMisfire(p) ==
  /\ tick[p].st = "settling"
  /\ TooLate(p)
  /\ Record(tick[p].cur.sid, tick[p].cur.row.next, "skipped")
  /\ tick' = [tick EXCEPT ![p].st = "claiming", ![p].cur = NoJob]
  /\ UNCHANGED <<now, table, clients, run, claims, sent, rewound, streak,
                 unwritten, raced>>

\* runs.append(run_schedule(app, schedule)): a coroutine nobody awaits yet.
AppendRun(p) ==
  /\ tick[p].st = "settling"
  /\ ~TooLate(p)
  /\ run' = [run EXCEPT ![p][tick[p].cur.sid] =
       [st |-> "appended", slot |-> tick[p].cur.row.next,
        failures |-> tick[p].cur.row.failures, status |-> "failed"]]
  /\ tick' = [tick EXCEPT ![p].st = "claiming", ![p].cur = NoJob]
  /\ UNCHANGED <<now, table, logged, clients, faults, history>>

\* asyncio.gather(*runs): every appended coroutine becomes a task.
StartRuns(p) ==
  /\ tick[p].st = "claiming"
  /\ tick[p].todo = {}
  /\ tick' = [tick EXCEPT ![p].st = "running"]
  /\ run' = [run EXCEPT ![p] = [s \in Sched |->
       IF @[s].st = "appended" THEN [@[s] EXCEPT !.st = "queued"] ELSE @[s]]]
  /\ UNCHANGED <<now, table, logged, clients, faults, history>>

\* The gather is complete and the loop sleeps until its next interval.
TickEnd(p) ==
  /\ tick[p].st = "running"
  /\ \A s \in Sched : run[p][s] = NoRun
  /\ tick' = [tick EXCEPT ![p] = IdleTick]
  /\ UNCHANGED <<now, table, logged, clients, run, faults, history>>

-----------------------------------------------------------------------------
(* run_schedule(): a slot, the query and its mail under one timeout, the   *)
(* row in the history, the failure counter.                                *)

RunAcquire(p, s) ==
  /\ run[p][s].st = "queued"
  /\ Executing(p) < MaxConcurrent
  /\ run' = [run EXCEPT ![p][s].st = "executing"]
  /\ UNCHANGED <<now, table, logged, clients, tick, faults, history>>

\* The query is done, the delivery condition holds and the provider takes the
\* mail; send_email has not returned yet.
RunDeliver(p, s) ==
  /\ run[p][s].st = "executing"
  /\ run' = [run EXCEPT ![p][s].st = "delivered"]
  /\ sent' = [sent EXCEPT ![s][run[p][s].slot] = @ + 1]
  /\ UNCHANGED <<now, table, logged, clients, tick, faults,
                 claims, dropped, rewound, streak, unwritten, raced>>

\* Variant: what send_email returns is ignored.
OutcomeUnchecked(st) == Status

\* How _execute_and_deliver can end.  A timeout or a provider error may fall
\* after the provider took the mail, and then a failed run has sent one.
Outcome(st) ==
  IF st = "delivered" THEN {"success", "failed"} ELSE {"skipped", "failed"}

RunEnd(p, s) ==
  /\ run[p][s].st \in {"executing", "delivered"}
  /\ \E status \in Outcome(run[p][s].st) :
       /\ run' = [run EXCEPT ![p][s].st = "recording", ![p][s].status = status]
       /\ streak' = [streak EXCEPT ![s] = IF status = "failed" THEN @ + 1 ELSE 0]
  /\ UNCHANGED <<now, table, logged, clients, tick, faults,
                 claims, sent, dropped, rewound, unwritten, raced>>

RunRecord(p, s) ==
  /\ run[p][s].st = "recording"
  /\ Record(s, run[p][s].slot, run[p][s].status)
  /\ run' = [run EXCEPT ![p][s].st = "writing"]
  /\ UNCHANGED <<now, table, clients, tick, claims, sent, rewound, streak,
                 unwritten, raced>>

\* Variant: a good run takes one failure off instead of all of them.
FailuresDecay(r) == IF r.status = "failed" THEN r.failures + 1 ELSE r.failures - 1

\* Variant: only a success starts the count again.
FailuresKeptBySkip(r) ==
  CASE r.status = "failed" -> r.failures + 1
    [] r.status = "skipped" -> r.failures
    [] r.status = "success" -> 0

\* _write_back_state counts from the copy the tick listed.
Failures(r) == IF r.status = "failed" THEN r.failures + 1 ELSE 0

ShouldPause(r) == r.status = "failed" /\ Failures(r) >= MaxFailures

\* Variant: a failed run is tried again without a new claim.
RunWriteBackRetrying(p, s) ==
  /\ run[p][s].st = "writing"
  /\ run' = [run EXCEPT ![p][s] =
       IF run[p][s].status = "failed" THEN [@ EXCEPT !.st = "queued"] ELSE NoRun]
  /\ UNCHANGED <<now, table, logged, clients, tick, faults, history>>

\* _write_back_state: an UPDATE by id alone, its errors suppressed.
RunWriteBack(p, s) ==
  LET r == run[p][s]
  IN  /\ r.st = "writing"
      /\ run' = [run EXCEPT ![p][s] = NoRun]
      /\ \/ /\ s \in live
            /\ row' = [row EXCEPT ![s] = Finished(@, Failures(r), ShouldPause(r))]
            /\ unwritten' = IF r.status = "failed" THEN unwritten ELSE unwritten \ {s}
            /\ UNCHANGED faults
         \/ s \notin live /\ UNCHANGED <<row, unwritten, faults>>
         \/ Fault("db") /\ unwritten' = unwritten \cup {s} /\ UNCHANGED row
      /\ UNCHANGED <<now, fresh, live, logged, clients, tick,
                     claims, sent, dropped, rewound, streak, raced>>

-----------------------------------------------------------------------------
(* The end of a process, and the clock.                                    *)

\* The process is gone and another starts with nothing in memory.
Forget(p) ==
  /\ tick' = [tick EXCEPT ![p] = IdleTick]
  /\ run' = [run EXCEPT ![p] = [s \in Sched |-> NoRun]]
  /\ test' = [test EXCEPT ![p] = [s \in Sched |-> "none"]]
  /\ UNCHANGED <<now, table, edit, edits, tests, claims, sent, rewound, raced>>

Crash(p) ==
  /\ Fault("crash")
  /\ tick[p].st # "idle"
  /\ dropped' = [s \in Sched |-> dropped[s] \cup Unrecorded(p, s)]
  /\ unwritten' = unwritten \cup {s \in Sched : run[p][s].st \in Ended}
  /\ UNCHANGED <<logged, streak>>
  /\ Forget(p)

\* The lifespan cancels the loop.  A run awaiting its slot or its query catches
\* the CancelledError and records a failed run; anywhere else in the tick or
\* in the run the cancellation goes straight through.
Shutdown(p) ==
  LET caught == {s \in live : run[p][s].st \in {"queued", "executing", "delivered"}}
  IN  /\ Fault("stop")
      /\ tick[p].st # "idle"
      /\ logged' = [s \in Sched |-> logged[s] \cup
           (IF s \in caught THEN {<<run[p][s].slot, "failed">>} ELSE {})]
      /\ dropped' = [s \in Sched |-> dropped[s] \cup
           (IF s \in caught THEN {} ELSE Unrecorded(p, s))]
      /\ streak' = [s \in Sched |-> IF s \in caught THEN streak[s] + 1 ELSE streak[s]]
      /\ unwritten' = unwritten \cup caught \cup {s \in Sched : run[p][s].st \in Ended}
      /\ Forget(p)

Pass ==
  /\ now < MaxTime
  /\ now' = now + 1
  /\ UNCHANGED <<table, logged, clients, tick, run, faults, history>>

-----------------------------------------------------------------------------

Init ==
  /\ now = 0
  /\ fresh = Sched
  /\ live = {}
  /\ row = [s \in Sched |-> BlankRow]
  /\ logged = [s \in Sched |-> {}]
  /\ edit = [e \in Editor |-> IdleEdit]
  /\ edits = 0
  /\ test = [p \in Proc |-> [s \in Sched |-> "none"]]
  /\ tests = 0
  /\ tick = [p \in Proc |-> IdleTick]
  /\ run = [p \in Proc |-> [s \in Sched |-> NoRun]]
  /\ faults = 0
  /\ claims = [s \in Sched |-> [t \in Slot |-> 0]]
  /\ sent = [s \in Sched |-> [t \in Slot |-> 0]]
  /\ dropped = [s \in Sched |-> {}]
  /\ rewound = {}
  /\ streak = [s \in Sched |-> 0]
  /\ unwritten = {}
  /\ raced = {}

EditStep(e) == BeginCreate(e) \/ FinishCreate(e) \/ BeginPatch(e) \/ FinishPatch(e)

TickStep(p) ==
  \/ TickStart(p) \/ ListDue(p) \/ ListFailed(p)
  \/ ClaimWon(p) \/ ClaimLost(p) \/ ClaimFailed(p)
  \/ Retire(p) \/ SkipMisfire(p) \/ AppendRun(p) \/ StartRuns(p) \/ TickEnd(p)

RunStep(p, s) ==
  \/ RunAcquire(p, s) \/ RunDeliver(p, s) \/ RunEnd(p, s)
  \/ RunRecord(p, s) \/ RunWriteBack(p, s)

TestStep(p, s) == BeginTest(p, s) \/ AcquireTest(p, s) \/ EndTest(p, s)

Next ==
  \/ \E e \in Editor : EditStep(e)
  \/ \E s \in Sched : Delete(s)
  \/ \E p \in Proc : TickStep(p) \/ Crash(p) \/ Shutdown(p)
  \/ \E p \in Proc, s \in Sched : RunStep(p, s) \/ TestStep(p, s)
  \/ Pass

Spec == Init /\ [][Next]_vars

\* The loop polls for ever; a run ends by its timeout at the latest, and the
\* semaphore serves its waiters first come, first served.  Nobody is obliged
\* to edit, delete or test.
LiveSpec ==
  /\ Spec
  /\ \A p \in Proc : WF_vars(TickStep(p))
  /\ \A p \in Proc, s \in Sched :
       /\ WF_vars(RunStep(p, s))
       /\ WF_vars(AcquireTest(p, s) \/ EndTest(p, s))
  /\ WF_vars(Pass)

-----------------------------------------------------------------------------

TypeOK ==
  /\ now \in Time
  /\ fresh \subseteq Sched
  /\ live \subseteq Sched
  /\ row \in [Sched -> Row]
  /\ logged \in [Sched -> SUBSET (Slot \X Status)]
  /\ edit \in [Editor -> EditType]
  /\ edits \in 0..MaxEdits
  /\ test \in [Proc -> [Sched -> {"none", "queued", "executing"}]]
  /\ tests \in 0..MaxTests
  /\ tick \in [Proc -> TickType]
  /\ run \in [Proc -> [Sched -> RunType]]
  /\ faults \in 0..MaxFaults
  /\ claims \in [Sched -> [Slot -> Nat]]
  /\ sent \in [Sched -> [Slot -> Nat]]
  /\ dropped \in [Sched -> SUBSET Slot]
  /\ rewound \subseteq Sched
  /\ streak \in [Sched -> Nat]
  /\ unwritten \subseteq Sched
  /\ raced \subseteq Sched

\* "Never send twice" (services/scheduler.py), for every schedule that no edit
\* has handed back a slot it had claimed: however many processes tick over
\* however stale a list, and whatever crashes, an occurrence is mailed at most
\* once.  It needs StartsOnTheMinute.
NeverSendTwice ==
  \A s \in Sched \ rewound, t \in Slot : sent[s][t] <= 1

\* The same without the exception, which is what scheduler.py and the comments
\* on the claim say: no occurrence is ever mailed twice.
NeverSendTwiceAtAll ==
  \A s \in Sched, t \in Slot : sent[s][t] <= 1

\* A run the history calls a success did hand its mail to the provider,
\* although the row is written after the run and by whichever process ran it.
HistoryTruthful ==
  \A s \in Sched, t \in Slot : <<t, "success">> \in logged[s] => sent[s][t] > 0

InHistory(s, t) == \E status \in Status : <<t, status>> \in logged[s]

\* An occurrence that was claimed is still being handled, or is in the run
\* history, or was lost to a crash, a shutdown or a failed write: claiming
\* first never loses one on any other path through tick() and run_schedule().
EveryClaimAccounted ==
  \A s \in live, t \in Slot : claims[s][t] > 0 =>
    \/ \E p \in Proc : t \in Unrecorded(p, s)
    \/ InHistory(s, t)
    \/ t \in dropped[s]

\* The lifespan's comment on cancelling the loop: an orderly shutdown leaves
\* no unexplained gap in the run history.
ShutdownLeavesNoGap ==
  \A s \in live, t \in Slot : claims[s][t] > 0 =>
    (\E p \in Proc : t \in Unrecorded(p, s)) \/ InHistory(s, t)

\* No run of s has ended without its write-back being through.
WrittenBack(s) == \A p \in Proc : run[p][s].st \notin Ended

\* consecutive_failures is the number of runs that failed since the last one
\* that did not, or since a resume, although every run writes it from a copy
\* read before the claim.  Two things put it out: an outcome that never reached
\* the row (the write raised, or a shutdown or crash came first), and then only
\* until a run that did not fail, or a resume, is written; and a claim that
\* overlapped another claim, a resume or a write its copy had not seen.
FailureCountExact ==
  \A s \in live \ (unwritten \cup raced) :
    WrittenBack(s) => row[s].failures = streak[s]

\* While no write fails and no two edits overlap, an active schedule has a
\* next slot, or is about to be retired: none is left to sit in the list
\* looking active and never run again.
NeverStranded ==
  faults = 0 => \A s \in live : row[s].active /\ row[s].next = NoTime =>
    \E p \in Proc : tick[p].st = "retiring" /\ tick[p].cur.sid = s

DueAt(s, t) == s \in live /\ row[s].active /\ row[s].next = t /\ t <= now

\* A due slot does not stay due: some tick claims it, unless an edit moves it.
DueIsServed == \A s \in Sched, t \in Slot : DueAt(s, t) ~> ~DueAt(s, t)

\* Every run a tick starts comes to an end, so that gather() lets the loop go
\* on: no run waits for ever for a slot that tests and other runs hold.
RunsFinish == \A p \in Proc, s \in Sched :
  run[p][s].st = "queued" ~> run[p][s].st = "none"

\* The occurrence as SchedulePromise sees it.
Pending(s, t) == \E p \in Proc : InHand(p, s, t) \/ InRun(p, s, t, Unsent)

FateOf(s, t) ==
  IF s \in rewound THEN "open"
  ELSE IF sent[s][t] > 0 THEN "mailed"
  ELSE IF Pending(s, t) THEN "taken"
  ELSE IF claims[s][t] > 0 THEN "over" ELSE "open"

Promise == INSTANCE SchedulePromise WITH
  fate <- [s \in Sched |-> [t \in Slot |-> FateOf(s, t)]],
  voided <- rewound

\* The loop, its table and the edits keep the promise of SchedulePromise.
KeepsPromise == Promise!Spec
=============================================================================
