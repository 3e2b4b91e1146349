----------------------------- MODULE MCScheduler -----------------------------
(***************************************************************************)
(* Values for TLC: two cron expressions over a short clock and the PATCH   *)
(* bodies that matter to the firing times.                                 *)
(***************************************************************************)
EXTENDS Scheduler, TLC

CONSTANTS everyMinute, everyOther

\* A next slot is later than the clock, which starts at 0.
MCFires == [c \in Cron |->
  {t \in 1..(MaxTime + Minute) :
     t % (IF c = everyMinute THEN Minute ELSE 2 * Minute) = 0}]

MCNever == {NoTime}
MCEnds == {NoTime, 1}
MCStarts == {NoTime, 3}  \* with two units to a minute, half a minute past one

Unset == [cron |-> Keep, starts |-> Keep, ends |-> Keep, active |-> Keep]
Pause == [Unset EXCEPT !.active = FALSE]
Resume == [Unset EXCEPT !.active = TRUE]
Unend == [Unset EXCEPT !.ends = NoTime]
Revive == [Unset EXCEPT !.active = TRUE, !.ends = NoTime]

ClaimPatches == {Pause, Resume}
LoopPatches == {Pause, Revive, Unend}

ProcSymmetry == Permutations(Proc)
=============================================================================
