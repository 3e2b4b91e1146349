--------------------------- MODULE SchedulePromise ---------------------------
(***************************************************************************)
(* What the scheduler promises about the occurrences of a scheduled query, *)
(* whatever the number of processes that poll the table: an occurrence is  *)
(* taken at most once and after every earlier one that is taken, mailed at *)
(* most once, and never mailed again after it was given up.  The promise   *)
(* for a schedule ends when an edit hands it back a slot already taken.    *)
(***************************************************************************)
EXTENDS Integers

CONSTANTS
  Sched,   \* scheduled queries
  Slot     \* instants they may fire at

VARIABLES
  fate,    \* fate[s][t]: what became of occurrence t of s
  voided   \* schedules the promise no longer covers

Fate == {"open", "taken", "mailed", "over"}

Unknown == [t \in Slot |-> "open"]

Init ==
  /\ fate = [s \in Sched |-> Unknown]
  /\ voided = {}

\* Occurrence t of s is won by one process.
Take(s, t) ==
  /\ s \notin voided
  /\ \A u \in Slot : u >= t => fate[s][u] = "open"
  /\ fate' = [fate EXCEPT ![s][t] = "taken"]
  /\ UNCHANGED voided

\* Its report is handed to the mail provider.
Mail(s, t) ==
  /\ fate[s][t] = "taken"
  /\ fate' = [fate EXCEPT ![s][t] = "mailed"]
  /\ UNCHANGED voided

\* Occurrences end without a mail: skipped, failed, or lost with a process.
GiveUp ==
  /\ fate' \in [Sched -> [Slot -> Fate]]
  /\ \A s \in Sched, t \in Slot : \/ fate'[s][t] = fate[s][t]
                                  \/ fate[s][t] = "taken" /\ fate'[s][t] = "over"
  /\ UNCHANGED voided

\* An edit hands s a slot it has already taken.
Void(s) ==
  /\ voided' = voided \cup {s}
  /\ fate' = [fate EXCEPT ![s] = Unknown]

Next ==
  \/ \E s \in Sched : Void(s)
  \/ \E s \in Sched, t \in Slot : Take(s, t) \/ Mail(s, t)
  \/ GiveUp

Spec == Init /\ [][Next]_<<fate, voided>>
=============================================================================
