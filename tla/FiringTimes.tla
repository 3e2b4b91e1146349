----------------------------- MODULE FiringTimes -----------------------------
(***************************************************************************)
(* What a cron expression means to the scheduler: a set of instants.       *)
(* services/cron.py searches a calendar for the next instant; this module  *)
(* says which instant of the set that search stands for, and adds the      *)
(* schedule's starts_at / ends_at window.  Scheduler is built on it;       *)
(* Calendar checks the search itself against it.                           *)
(***************************************************************************)
EXTENDS Integers

CONSTANTS
  NoTime,   \* None: no firing time, or an open end of the window
  Minute    \* how many units of time a minute has

ASSUME FiringTimesAssumption ==
  /\ NoTime \notin Int
  /\ Minute \in Nat \ {0}

\* u is the first instant of fires after t.
IsNext(fires, t, u) ==
  /\ u \in fires
  /\ u > t
  /\ \A v \in fires : v > t => u <= v

\* CronSchedule.next_after: the first firing time strictly after t, or None.
NextAfter(fires, t) ==
  IF \E u \in fires : IsNext(fires, t, u)
    THEN CHOOSE u \in fires : IsNext(fires, t, u)
    ELSE NoTime

\* Variant: the start is left out of account.
CursorFromNow(after, starts) == after

\* Where next_run starts to search: one minute before a start still to come,
\* so that a firing time exactly on starts_at stays eligible.
Cursor(after, starts) ==
  IF starts # NoTime /\ starts > after THEN starts - Minute ELSE after

\* cron.next_run: the next firing time inside the window, or None.
NextRun(fires, after, starts, ends) ==
  LET upcoming == NextAfter(fires, Cursor(after, starts))
  IN  IF upcoming # NoTime /\ ends # NoTime /\ upcoming > ends
        THEN NoTime
        ELSE upcoming
=============================================================================
