------------------------------- MODULE Calendar -------------------------------
(***************************************************************************)
(* The search for firing times (services/cron.py): an expression of five   *)
(* fields, next_after's walk over the days of the calendar, next_run's     *)
(* window around it, and the preview that calls next_run several times.    *)
(*                                                                         *)
(* Minute units of time make a minute.  The calendar repeats a year of     *)
(* Date's length; weekdays follow one another across years.                *)
(***************************************************************************)
EXTENDS Integers, Sequences, FiniteSetsExt, FiringTimes

CONSTANTS
  MinutesPerHour, HoursPerDay,
  Date,          \* Date[d]: month and day of the month of the d-th day of a year
  MonthDays,     \* the longest month
  Months,        \* months of a year
  MaxSearchDays, \* _MAX_SEARCH_DAYS
  Expressions,   \* expressions in use
  Instants,      \* what "after" may be
  Starts, Ends,  \* what starts_at and ends_at may be, NoTime included
  Count          \* firing times a preview asks for

\* One entry of a field: "*", a value or a range, and a step.  An entry that
\* spells no step has step 0.
Part == [base : {"any", "value", "range"}, from : Int, to : Int, step : Nat]
Star == [base |-> "any", from |-> 0, to |-> 0, step |-> 0]
Fields == {"minute", "hour", "day", "month", "weekday"}

ASSUME CalendarAssumption ==
  /\ {MinutesPerHour, HoursPerDay, MonthDays, Months, Count} \subseteq Nat \ {0}
  /\ MaxSearchDays \in Nat
  /\ Instants \subseteq Nat
  /\ NoTime \in Starts /\ NoTime \in Ends
  /\ Starts \subseteq {t \in Nat : t >= Minute} \cup {NoTime}
  /\ Ends \subseteq Nat \cup {NoTime}
  /\ Expressions \subseteq [Fields -> Seq(Part) \ {<<>>}]
  /\ DOMAIN Date # {}
  /\ \A d \in DOMAIN Date : Date[d] \in [month : 1..Months, day : 1..MonthDays]

VARIABLES
  query,   \* the arguments of next_runs
  st,      \* "asked", "searching", "listed" or "rejected"
  moment,  \* next_after: the first minute it may answer
  day,     \* next_after: the day it looks at
  out      \* next_runs: the firing times found so far

vars == <<query, st, moment, day, out>>

-----------------------------------------------------------------------------
(* Instants and dates.                                                     *)

HourLength == MinutesPerHour * Minute
DayLength == HoursPerDay * HourLength

At(d, h, m) == d * DayLength + h * HourLength + m * Minute
DayOf(t) == t \div DayLength
HourOf(t) == (t % DayLength) \div HourLength
MinuteOf(t) == (t % HourLength) \div Minute

MonthAndDay(d) == Date[d % Cardinality(DOMAIN Date)]

\* Python's weekday(): Monday is 0.
Weekday(d) == d % 7

-----------------------------------------------------------------------------
(* The expression.                                                         *)

Low(f) == IF f \in {"day", "month"} THEN 1 ELSE 0

High(f) ==
  CASE f = "minute"  -> MinutesPerHour - 1
    [] f = "hour"    -> HoursPerDay - 1
    [] f = "day"     -> MonthDays
    [] f = "month"   -> Months
    [] f = "weekday" -> 7

Step(part) == IF part.step = 0 THEN 1 ELSE part.step

\* _parse_field raises for a value out of range or a range that runs backwards.
PartParses(part, f) ==
  \/ part.base = "any"
  \/ part.base = "value" /\ part.from \in Low(f)..High(f)
  \/ /\ part.base = "range"
     /\ {part.from, part.to} \subseteq Low(f)..High(f)
     /\ part.from <= part.to

Parses(expr) ==
  \A f \in Fields : \A i \in DOMAIN expr[f] : PartParses(expr[f][i], f)

\* A bare value with a step runs to the end of the field.
PartValues(part, f) ==
  LET from == IF part.base = "any" THEN Low(f) ELSE part.from
      to == CASE part.base = "any"   -> High(f)
              [] part.base = "range" -> part.to
              [] part.base = "value" -> IF Step(part) > 1 THEN High(f) ELSE from
  IN  {v \in from..to : (v - from) % Step(part) = 0}

FieldValues(expr, f) == UNION {PartValues(expr[f][i], f) : i \in DOMAIN expr[f]}

\* 7 and 0 are both Sunday.
Weekdays(expr) == {v % 7 : v \in FieldValues(expr, "weekday")}

Restricted(expr, f) == expr[f] # <<Star>>

\* _day_matches: restricting both the day and the weekday asks for either.
DayMatches(expr, d) ==
  LET dayHit == MonthAndDay(d).day \in FieldValues(expr, "day")
      weekdayHit == (Weekday(d) + 1) % 7 \in Weekdays(expr)
  IN  CASE Restricted(expr, "day") /\ Restricted(expr, "weekday") -> dayHit \/ weekdayHit
        [] Restricted(expr, "day") /\ ~Restricted(expr, "weekday") -> dayHit
        [] ~Restricted(expr, "day") /\ Restricted(expr, "weekday") -> weekdayHit
        [] OTHER -> TRUE

DateMatches(expr, d) ==
  /\ MonthAndDay(d).month \in FieldValues(expr, "month")
  /\ DayMatches(expr, d)

\* CronSchedule.matches, for an instant with no seconds.
Matches(expr, t) ==
  /\ DateMatches(expr, DayOf(t))
  /\ HourOf(t) \in FieldValues(expr, "hour")
  /\ MinuteOf(t) \in FieldValues(expr, "minute")

-----------------------------------------------------------------------------
(* The search.                                                             *)

\* The hours and minutes of an expression.
Clock(expr) == FieldValues(expr, "hour") \X FieldValues(expr, "minute")

\* Variant: on the first day, early minutes are passed over at any hour.
OpeningsAtAnyHour(expr, d, from) ==
  {At(d, hm[1], hm[2]) : hm \in {hm \in Clock(expr) :
     d = DayOf(from) => hm[1] >= HourOf(from) /\ hm[2] >= MinuteOf(from)}}

\* The firing times of day d the search has not gone past: on its first day it
\* passes over the hours before from's, and the minutes before within it.
Openings(expr, d, from) ==
  {At(d, hm[1], hm[2]) : hm \in {hm \in Clock(expr) :
     d = DayOf(from) => \/ hm[1] > HourOf(from)
                        \/ hm[1] = HourOf(from) /\ hm[2] >= MinuteOf(from)}}

\* after with its seconds dropped, plus a minute.
FirstMinute(after) == (after - (after % Minute)) + Minute

\* Where next_runs goes on from.
Reached == IF out = <<>> THEN query.after ELSE out[Len(out)]

\* parse() raises CronError, which the preview reports.
Reject ==
  /\ st = "asked"
  /\ ~Parses(query.expr)
  /\ st' = "rejected"
  /\ UNCHANGED <<query, moment, day, out>>

\* next_runs calls next_run, and that next_after, as long as it wants more.
Search ==
  /\ st = "asked"
  /\ Parses(query.expr)
  /\ Len(out) < Count
  /\ LET from == FirstMinute(Cursor(Reached, query.starts))
     IN  moment' = from /\ day' = DayOf(from)
  /\ st' = "searching"
  /\ UNCHANGED <<query, out>>

Limit == DayOf(moment) + MaxSearchDays

Found == DateMatches(query.expr, day) /\ Openings(query.expr, day, moment) # {}

\* Variant: a day of the right date is looked at until it yields.
NextDayOfOtherDate ==
  /\ st = "searching" /\ day <= Limit
  /\ ~DateMatches(query.expr, day)
  /\ day' = day + 1
  /\ UNCHANGED <<query, st, moment, out>>

NextDay ==
  /\ st = "searching" /\ day <= Limit
  /\ ~Found
  /\ day' = day + 1
  /\ UNCHANGED <<query, st, moment, out>>

\* The first opening of the day is the answer of next_after; next_run gives
\* it up when it is past the end of the window, and next_runs then stops.
Yield ==
  /\ st = "searching" /\ day <= Limit
  /\ Found
  /\ LET upcoming == Min(Openings(query.expr, day, moment))
     IN  IF query.ends # NoTime /\ upcoming > query.ends
           THEN st' = "listed" /\ UNCHANGED out
           ELSE st' = "asked" /\ out' = Append(out, upcoming)
  /\ UNCHANGED <<query, moment, day>>

\* The days run out: None.
GiveUp ==
  /\ st = "searching" /\ day > Limit
  /\ st' = "listed"
  /\ UNCHANGED <<query, moment, day, out>>

\* The preview has all it asked for.
Stop ==
  /\ st = "asked"
  /\ Len(out) = Count
  /\ st' = "listed"
  /\ UNCHANGED <<query, moment, day, out>>

-----------------------------------------------------------------------------

Init ==
  /\ query \in [expr : Expressions, after : Instants, starts : Starts, ends : Ends]
  /\ st = "asked"
  /\ moment = 0 /\ day = 0
  /\ out = <<>>

Next == Reject \/ Search \/ NextDay \/ Yield \/ GiveUp \/ Stop

Spec == Init /\ [][Next]_vars

\* next_runs is a plain function: it runs until it returns.
LiveSpec == Spec /\ WF_vars(Next)

-----------------------------------------------------------------------------

\* Everything matches() says is a firing time on the days a search from t may
\* look at.
Firing(expr, t) ==
  LET first == DayOf(FirstMinute(t))
  IN  {u \in first * DayLength .. (first + MaxSearchDays + 1) * DayLength - 1 :
         u % Minute = 0 /\ Matches(expr, u)}

\* The i-th answer of next_run, or its absence, is the one FiringTimes gives
\* for the instants that matches() accepts.
AnswerExact(i) ==
  LET after == IF i = 1 THEN query.after ELSE out[i - 1]
      fires == Firing(query.expr, Cursor(after, query.starts))
  IN  NextRun(fires, after, query.starts, query.ends) =
        IF i \in DOMAIN out THEN out[i] ELSE NoTime

\* next_after's walk over days, hours and minutes skips no firing time and
\* invents none, across the ends of hours, days, months and years, for every
\* shape of expression and window; it returns None exactly when matches()
\* accepts nothing in the days it may search or the window has closed.
SearchExact ==
  /\ \A i \in DOMAIN out : AnswerExact(i)
  /\ st = "listed" /\ Len(out) < Count => AnswerExact(Len(out) + 1)

\* A preview shows firing times in order, after the instant it was asked for
\* and within the window, provided that the window opens on a whole minute.
PreviewInWindow ==
  query.starts = NoTime \/ query.starts % Minute = 0 =>
    \A i \in DOMAIN out :
      /\ out[i] > IF i = 1 THEN query.after ELSE out[i - 1]
      /\ query.starts # NoTime => out[i] >= query.starts
      /\ query.ends # NoTime => out[i] <= query.ends

\* An expression that never fires ends the search rather than spin.
SearchEnds == <>(st \in {"listed", "rejected"})
=============================================================================
