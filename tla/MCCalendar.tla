------------------------------ MODULE MCCalendar ------------------------------
(***************************************************************************)
(* A year of three months with three, two and three days, two hours to a   *)
(* day, two minutes to an hour and two units of time to a minute.          *)
(***************************************************************************)
EXTENDS Calendar

MonthLength == <<3, 2, 3>>

MCDate == [d \in 0..7 |->
  CASE d < 3 -> [month |-> 1, day |-> d + 1]
    [] d \in 3..4 -> [month |-> 2, day |-> d - 2]
    [] d > 4 -> [month |-> 3, day |-> d - 4]]

Value(v) == [Star EXCEPT !.base = "value", !.from = v]
Run(a, b) == [Star EXCEPT !.base = "range", !.from = a, !.to = b]
Every(n, part) == [part EXCEPT !.step = n]

Always == [f \in Fields |-> <<Star>>]

MCExpressions == {
  Always,
  [Always EXCEPT !["minute"] = <<Value(0)>>, !["hour"] = <<Value(1)>>],
  [Always EXCEPT !["minute"] = <<Every(2, Star)>>, !["day"] = <<Every(2, Value(1))>>],
  [Always EXCEPT !["hour"] = <<Value(0)>>, !["day"] = <<Value(2)>>, !["weekday"] = <<Value(7)>>],
  [Always EXCEPT !["minute"] = <<Value(1)>>, !["weekday"] = <<Run(5, 7)>>],
  [Always EXCEPT !["minute"] = <<Value(1), Value(0)>>, !["hour"] = <<Value(1)>>, !["month"] = <<Value(2)>>],
  [Always EXCEPT !["day"] = <<Value(3)>>, !["month"] = <<Value(2)>>],
  [Always EXCEPT !["hour"] = <<Run(1, 0)>>]}

MCInstants == 0..(2 * DayLength)
MCStarts == {NoTime, 3, DayLength, DayLength + 7}
MCEnds == {NoTime, DayLength + 2, 9 * DayLength}
=============================================================================
