---------------------------- MODULE CalendarProofs ----------------------------
(***************************************************************************)
(* The search for firing times answers what the expression means, for      *)
(* every calendar, every expression and every length of minutes, hours and *)
(* days.                                                                   *)
(*                                                                         *)
(* An instant on a minute is the day, the hour and the minute it falls in  *)
(* (Decomposed), and the order of instants is the order of these.  So the  *)
(* openings of a day are the instants of that day that match and are not   *)
(* before the search's first minute (OpeningsMatch), and while it searches *)
(* no instant that matches lies between that minute and the day it looks   *)
(* at (SearchInv).                                                         *)
(***************************************************************************)
EXTENDS Calendar, WellFoundedInduction, TLAPS

-----------------------------------------------------------------------------
(* Division.                                                               *)

LEMMA Product ==
  ASSUME NEW n \in Nat \ {0}, NEW a \in Int, NEW b \in Int, a < b
  PROVE  n * a + n <= n * b
  OBVIOUS

LEMMA Divided ==
  ASSUME NEW n \in Nat \ {0}, NEW t \in Int
  PROVE  /\ t \div n \in Int /\ t % n \in 0 .. n - 1
         /\ t = n * (t \div n) + (t % n)
  OBVIOUS

\* A quotient and a remainder are the only ones.
LEMMA Quotient ==
  ASSUME NEW n \in Nat \ {0}, NEW q \in Int, NEW r \in 0 .. n - 1, NEW t \in Int,
         t = n * q + r
  PROVE  t \div n = q /\ t % n = r
<1>1. /\ t \div n \in Int /\ t % n \in 0 .. n - 1
      /\ t = n * (t \div n) + (t % n)
  BY Divided
<1>2. ASSUME NEW x \in Int, x = t \div n PROVE x = q
  <2>1. CASE x < q
    <3>1. n * x + n <= n * q
      BY <2>1, Product
    <3>2. QED
      BY <1>1, <1>2, <3>1
  <2>2. CASE q < x
    <3>1. n * q + n <= n * x
      BY <2>2, Product
    <3>2. QED
      BY <1>1, <1>2, <3>1
  <2>3. QED
    BY <2>1, <2>2
<1>3. QED
  BY <1>1, <1>2

LEMMA Smallest ==
  ASSUME NEW X \in SUBSET Nat, X # {}
  PROVE  Min(X) \in X /\ \A x \in X : Min(X) <= x
<1> DEFINE R == {p \in Nat \X Nat : p[1] < p[2]}
<1>1. IsWellFoundedOn(R, Nat)
  BY NatLessThanWellFounded DEF OpToRel
<1>2. PICK m \in X : \A y \in X : ~(<<y, m>> \in R)
  <2> HIDE DEF R
  <2>1. QED
    BY <1>1, WFMin
<1>3. ASSUME NEW y \in X PROVE m <= y
  <2>1. m \in Nat /\ y \in Nat
    OBVIOUS
  <2>2. ~(y < m)
    BY <1>2, <2>1
  <2>3. QED
    BY <2>1, <2>2
<1>4. QED
  BY <1>3 DEF Min

-----------------------------------------------------------------------------
(* Instants.                                                               *)

LEMMA Lengths ==
  /\ Minute \in Nat \ {0} /\ MinutesPerHour \in Nat \ {0} /\ HoursPerDay \in Nat \ {0}
  /\ HourLength \in Nat \ {0} /\ DayLength \in Nat \ {0}
<1>1. Minute \in Nat \ {0} /\ MinutesPerHour \in Nat \ {0} /\ HoursPerDay \in Nat \ {0}
  BY FiringTimesAssumption, CalendarAssumption
<1>2. HourLength \in Nat \ {0}
  BY <1>1 DEF HourLength
<1>3. DayLength \in Nat \ {0}
  BY <1>1, <1>2 DEF DayLength
<1>4. QED
  BY <1>1, <1>2, <1>3

\* What is left of a whole number of parts is at most a part from the end.
LEMMA Within ==
  ASSUME NEW n \in Nat \ {0}, NEW k \in Nat \ {0}, NEW a \in 0 .. k - 1, NEW r \in 0 .. n - 1
  PROVE  n * a + r \in 0 .. (k * n) - 1
<1>1. n * a + n <= n * k
  BY Product
<1>2. n * a \in Nat /\ n * k = k * n /\ k * n \in Nat
  OBVIOUS
<1>3. QED
  BY <1>1, <1>2

LEMMA AtParts ==
  ASSUME NEW d \in Nat, NEW h \in 0 .. HoursPerDay - 1, NEW m \in 0 .. MinutesPerHour - 1
  PROVE  /\ At(d, h, m) \in Nat /\ At(d, h, m) % Minute = 0
         /\ DayOf(At(d, h, m)) = d /\ HourOf(At(d, h, m)) = h /\ MinuteOf(At(d, h, m)) = m
<1>1. /\ Minute \in Nat \ {0} /\ MinutesPerHour \in Nat \ {0} /\ HoursPerDay \in Nat \ {0}
      /\ HourLength \in Nat \ {0} /\ DayLength \in Nat \ {0}
  BY Lengths
<1> DEFINE t == At(d, h, m)
           ofHour == Minute * m + 0
           ofDay == HourLength * h + ofHour
<1>2. ofHour \in 0 .. HourLength - 1
  BY <1>1, Within DEF HourLength
<1>3. ofDay \in 0 .. DayLength - 1
  <2> HIDE DEF ofHour
  <2>1. QED
    BY <1>1, <1>2, Within DEF DayLength
<1>4. t = DayLength * d + ofDay /\ t \in Nat
  <2>1. t = d * DayLength + h * HourLength + m * Minute
    BY DEF At
  <2>2. /\ d * DayLength = DayLength * d /\ h * HourLength = HourLength * h
        /\ m * Minute = Minute * m
        /\ DayLength * d \in Nat /\ HourLength * h \in Nat /\ Minute * m \in Nat
    BY <1>1
  <2>3. QED
    BY <2>1, <2>2
<1>5. DayOf(t) = d /\ t % DayLength = ofDay
  <2> HIDE DEF ofDay, t
  <2>1. QED
    BY <1>1, <1>3, <1>4, Quotient DEF DayOf
<1>6. HourOf(t) = h
  <2> HIDE DEF ofHour, t
  <2>1. ofDay \div HourLength = h
    BY <1>1, <1>2, Quotient
  <2>2. QED
    BY <1>5, <2>1 DEF HourOf
<1>7. t % HourLength = ofHour
  <2>1. PICK q \in Int : q = HoursPerDay * d + h
    BY <1>1
  <2>2. HourLength * q = DayLength * d + HourLength * h
    BY <1>1, <2>1 DEF DayLength
  <2>3. t = HourLength * q + ofHour
    BY <1>1, <1>4, <2>2
  <2>4. q \in Int /\ t \in Int /\ HourLength \in Nat \ {0}
    BY <1>1, <1>4
  <2> HIDE DEF ofHour, t
  <2>5. QED
    BY <1>2, <2>3, <2>4, Quotient
<1>8. MinuteOf(t) = m
  <2>1. ofHour \div Minute = m
    BY <1>1, Quotient
  <2>2. QED
    BY <1>7, <2>1 DEF MinuteOf
<1>9. t % Minute = 0
  <2>1. PICK q \in Int : q = MinutesPerHour * HoursPerDay * d + MinutesPerHour * h + m
    BY <1>1
  <2>2. t = Minute * q + 0
    BY <1>1, <1>4, <2>1 DEF DayLength, HourLength
  <2>3. q \in Int /\ t \in Int /\ Minute \in Nat \ {0} /\ 0 \in 0 .. Minute - 1
    BY <1>1, <1>4
  <2> HIDE DEF t
  <2>4. QED
    BY <2>2, <2>3, Quotient
<1>10. QED
  BY <1>4, <1>5, <1>6, <1>8, <1>9

LEMMA Decomposed ==
  ASSUME NEW t \in Nat, t % Minute = 0
  PROVE  /\ DayOf(t) \in Nat /\ HourOf(t) \in 0 .. HoursPerDay - 1
         /\ MinuteOf(t) \in 0 .. MinutesPerHour - 1
         /\ t = At(DayOf(t), HourOf(t), MinuteOf(t))
<1>1. /\ Minute \in Nat \ {0} /\ MinutesPerHour \in Nat \ {0} /\ HoursPerDay \in Nat \ {0}
      /\ HourLength \in Nat \ {0} /\ DayLength \in Nat \ {0}
  BY Lengths
<1> DEFINE d == DayOf(t)
           ofDay == t % DayLength
           h == ofDay \div HourLength
           ofHour == ofDay % HourLength
<1>2. d \in Int /\ ofDay \in 0 .. DayLength - 1 /\ t = DayLength * d + ofDay
  BY <1>1, Divided DEF DayOf
<1>3. d \in Nat
  <2>1. CASE d < 0
    <3>1. DayLength * d + DayLength <= DayLength * 0
      BY <1>1, <1>2, <2>1, Product
    <3>2. DayLength * d \in Int
      BY <1>1, <1>2
    <3> HIDE DEF d, ofDay
    <3>3. QED
      BY <1>1, <1>2, <3>1, <3>2
  <2>2. QED
    BY <1>2, <2>1
<1>4. h \in Int /\ ofHour \in 0 .. HourLength - 1 /\ ofDay = HourLength * h + ofHour
  <2>1. ofDay \in Int
    BY <1>2
  <2> HIDE DEF ofDay
  <2>2. QED
    BY <1>1, <2>1, Divided
<1>5. h \in 0 .. HoursPerDay - 1
  <2> HIDE DEF h, ofDay, ofHour
  <2>1. CASE h < 0
    <3>1. HourLength * h + HourLength <= HourLength * 0
      BY <1>1, <1>4, <2>1, Product
    <3>2. HourLength * h \in Int
      BY <1>1, <1>4
    <3>3. QED
      BY <1>1, <1>2, <1>4, <3>1, <3>2
  <2>2. CASE h > HoursPerDay - 1
    <3>1. HourLength * (HoursPerDay - 1) + HourLength <= HourLength * h
      BY <1>1, <1>4, <2>2, Product
    <3>2. HourLength * (HoursPerDay - 1) + HourLength = DayLength
      BY <1>1 DEF DayLength
    <3>3. HourLength * h \in Int
      BY <1>1, <1>4
    <3>4. QED
      BY <1>1, <1>2, <1>4, <3>1, <3>2, <3>3
  <2>3. QED
    BY <1>1, <1>4, <2>1, <2>2
<1>6. HourOf(t) = h
  BY DEF HourOf
\* The hour's length divides the day's, so the minute is the same by either.
<1>7. t % HourLength = ofHour
  <2>1. PICK q \in Int : q = HoursPerDay * d + h
    BY <1>1, <1>2, <1>4
  <2> HIDE DEF d, h, ofDay, ofHour
  <2>2. HourLength * q = DayLength * d + HourLength * h
    BY <1>1, <1>2, <1>4, <2>1 DEF DayLength
  <2>3. DayLength * d \in Int /\ HourLength * h \in Int
    BY <1>1, <1>2, <1>4
  <2>4. t = HourLength * q + ofHour
    BY <1>2, <1>4, <2>2, <2>3
  <2>5. q \in Int /\ t \in Int /\ HourLength \in Nat \ {0}
    BY <1>1
  <2>6. ofHour \in 0 .. HourLength - 1
    BY <1>4
  <2>7. QED
    BY <2>4, <2>5, <2>6, Quotient
<1> DEFINE m == ofHour \div Minute
           r == ofHour % Minute
<1>8. m \in Int /\ r \in 0 .. Minute - 1 /\ ofHour = Minute * m + r
  <2>1. ofHour \in Int
    BY <1>4
  <2> HIDE DEF ofHour
  <2>2. QED
    BY <1>1, <2>1, Divided
<1>9. MinuteOf(t) = m
  BY <1>7 DEF MinuteOf
<1>10. m \in 0 .. MinutesPerHour - 1
  <2> HIDE DEF m, r, ofHour
  <2>1. CASE m < 0
    <3>1. Minute * m + Minute <= Minute * 0
      BY <1>1, <1>8, <2>1, Product
    <3>2. Minute * m \in Int
      BY <1>1, <1>8
    <3>3. QED
      BY <1>1, <1>4, <1>8, <3>1, <3>2
  <2>2. CASE m > MinutesPerHour - 1
    <3>1. Minute * (MinutesPerHour - 1) + Minute <= Minute * m
      BY <1>1, <1>8, <2>2, Product
    <3>2. Minute * (MinutesPerHour - 1) + Minute = HourLength
      BY <1>1 DEF HourLength
    <3>3. Minute * m \in Int
      BY <1>1, <1>8
    <3>4. QED
      BY <1>1, <1>4, <1>8, <3>1, <3>2, <3>3
  <2>3. QED
    BY <1>1, <1>8, <2>1, <2>2
<1>11. r = 0
  <2>1. PICK q \in Int : q = MinutesPerHour * HoursPerDay * d + MinutesPerHour * h + m
    BY <1>1, <1>2, <1>4, <1>8
  <2> HIDE DEF d, h, m, r, ofDay, ofHour
  <2>2. Minute * q = DayLength * d + HourLength * h + Minute * m
    BY <1>1, <1>2, <1>4, <1>8, <2>1 DEF DayLength, HourLength
  <2>3. DayLength * d \in Int /\ HourLength * h \in Int /\ Minute * m \in Int
    BY <1>1, <1>2, <1>4, <1>8
  <2>4. t = Minute * q + r
    BY <1>2, <1>4, <1>8, <2>2, <2>3
  <2>5. q \in Int /\ t \in Int /\ Minute \in Nat \ {0}
    BY <1>1
  <2>6. t % Minute = r
    BY <1>8, <2>4, <2>5, Quotient
  <2>7. QED
    BY <2>6
<1>12. t = At(d, h, m)
  <2> HIDE DEF d, h, m, r, ofDay, ofHour
  <2>1. /\ d * DayLength = DayLength * d /\ h * HourLength = HourLength * h
        /\ m * Minute = Minute * m
        /\ DayLength * d \in Int /\ HourLength * h \in Int /\ Minute * m \in Int
    BY <1>1, <1>2, <1>4, <1>8
  <2>2. QED
    BY <1>2, <1>4, <1>8, <1>11, <2>1 DEF At
<1>13. QED
  BY <1>3, <1>5, <1>6, <1>9, <1>10, <1>12

\* Instants of an earlier day are earlier.
LEMMA DaysInOrder ==
  ASSUME NEW t \in Nat, NEW u \in Nat
  PROVE  /\ DayOf(t) \in Nat /\ DayOf(u) \in Nat
         /\ DayOf(t) < DayOf(u) => t < u
<1>1. DayLength \in Nat \ {0}
  BY Lengths
<1>2. /\ DayOf(t) \in Int /\ t % DayLength \in 0 .. DayLength - 1
      /\ t = DayLength * DayOf(t) + (t % DayLength)
  BY <1>1, Divided DEF DayOf
<1>3. /\ DayOf(u) \in Int /\ u % DayLength \in 0 .. DayLength - 1
      /\ u = DayLength * DayOf(u) + (u % DayLength)
  BY <1>1, Divided DEF DayOf
<1>4. DayLength * DayOf(t) \in Int /\ DayLength * DayOf(u) \in Int
  BY <1>1, <1>2, <1>3
<1>5. ASSUME NEW d \in Int, d < 0 PROVE DayLength * d + DayLength <= 0
  <2>1. DayLength * d + DayLength <= DayLength * 0
    BY <1>1, <1>5, Product
  <2>2. QED
    BY <1>1, <2>1
<1>6. ~(DayOf(t) < 0) /\ ~(DayOf(u) < 0)
  BY <1>1, <1>2, <1>3, <1>4, <1>5
<1>7. ASSUME DayOf(t) < DayOf(u) PROVE t < u
  <2>1. DayLength * DayOf(t) + DayLength <= DayLength * DayOf(u)
    BY <1>1, <1>2, <1>3, <1>7, Product
  <2>2. QED
    BY <1>1, <1>2, <1>3, <1>4, <2>1
<1>8. QED
  BY <1>2, <1>3, <1>6, <1>7

\* Within a day, hours and then minutes decide.
LEMMA ClockInOrder ==
  ASSUME NEW t \in Nat, t % Minute = 0, NEW u \in Nat, u % Minute = 0, DayOf(t) = DayOf(u)
  PROVE  t <= u <=> \/ HourOf(u) > HourOf(t)
                    \/ HourOf(u) = HourOf(t) /\ MinuteOf(u) >= MinuteOf(t)
<1> DEFINE Before(a, b) == \/ HourOf(b) > HourOf(a)
                           \/ HourOf(b) = HourOf(a) /\ MinuteOf(b) > MinuteOf(a)
<1>1. /\ Minute \in Nat \ {0} /\ MinutesPerHour \in Nat \ {0}
      /\ HourLength \in Nat \ {0} /\ DayLength \in Nat \ {0}
  BY Lengths
<1>2. ASSUME NEW a \in Nat, a % Minute = 0, NEW b \in Nat, b % Minute = 0,
             DayOf(a) = DayOf(b), Before(a, b)
      PROVE  a < b
  <2> DEFINE d == DayOf(a) * DayLength
             ha == HourLength * HourOf(a)
             hb == HourLength * HourOf(b)
             ma == Minute * MinuteOf(a)
             mb == Minute * MinuteOf(b)
  <2>1. /\ DayOf(a) \in Nat /\ HourOf(a) \in Nat /\ MinuteOf(a) \in 0 .. MinutesPerHour - 1
        /\ a = At(DayOf(a), HourOf(a), MinuteOf(a))
    BY <1>2, Decomposed
  <2>2. /\ DayOf(b) \in Nat /\ HourOf(b) \in Nat /\ MinuteOf(b) \in 0 .. MinutesPerHour - 1
        /\ b = At(DayOf(b), HourOf(b), MinuteOf(b))
    BY <1>2, Decomposed
  <2>3. d \in Int /\ ha \in Int /\ hb \in Int /\ ma \in Int /\ mb \in Int
    BY <1>1, <2>1, <2>2
  <2>4. a = d + ha + ma
    BY <1>1, <2>1 DEF At
  <2>5. b = d + hb + mb
    BY <1>1, <1>2, <2>1, <2>2 DEF At
  <2>6. Minute * MinuteOf(a) + 0 \in 0 .. HourLength - 1
    BY <1>1, <2>1, Within DEF HourLength
  <2>7. mb >= 0
    BY <1>1, <2>2
  <2>8. CASE HourOf(b) > HourOf(a)
    <3>1. ha + HourLength <= hb
      BY <1>1, <2>1, <2>2, <2>8, Product
    <3>2. ma < HourLength
      BY <1>1, <2>3, <2>6
    <3> HIDE DEF d, ha, hb, ma, mb
    <3>3. QED
      BY <1>1, <2>3, <2>4, <2>5, <2>7, <3>1, <3>2
  <2>9. CASE HourOf(b) = HourOf(a) /\ MinuteOf(b) > MinuteOf(a)
    <3>1. ma + Minute <= mb
      BY <1>1, <2>1, <2>2, <2>9, Product
    <3>2. ha = hb
      BY <2>9
    <3> HIDE DEF d, ha, hb, ma, mb
    <3>3. QED
      BY <1>1, <2>3, <2>4, <2>5, <3>1, <3>2
  <2>10. QED
    BY <1>2, <2>8, <2>9
<1>3. /\ HourOf(t) \in Nat /\ MinuteOf(t) \in Nat /\ HourOf(u) \in Nat /\ MinuteOf(u) \in Nat
      /\ t = At(DayOf(t), HourOf(t), MinuteOf(t)) /\ u = At(DayOf(u), HourOf(u), MinuteOf(u))
  BY Decomposed
<1>4. CASE Before(t, u)
  BY <1>2, <1>3, <1>4
<1>5. CASE Before(u, t)
  <2>1. u < t
    BY <1>2, <1>5
  <2>2. QED
    BY <1>3, <1>5, <2>1
<1>6. CASE HourOf(t) = HourOf(u) /\ MinuteOf(t) = MinuteOf(u)
  BY <1>3, <1>6
<1>7. QED
  BY <1>3, <1>4, <1>5, <1>6

\* The days a search may look at, as instants.
LEMMA DaysBetween ==
  ASSUME NEW first \in Nat, NEW last \in Nat, NEW t \in Nat
  PROVE  t \in first * DayLength .. (last + 1) * DayLength - 1 <=> DayOf(t) \in first .. last
<1>1. DayLength \in Nat \ {0}
  BY Lengths
<1>2. /\ DayOf(t) \in Nat /\ t % DayLength \in 0 .. DayLength - 1
      /\ t = DayLength * DayOf(t) + (t % DayLength)
  BY <1>1, Divided, DaysInOrder DEF DayOf
<1> DEFINE a == first * DayLength
           b == (last + 1) * DayLength
           c == DayLength * DayOf(t)
<1>3. a \in Int /\ b \in Int /\ c \in Int /\ a = DayLength * first /\ b = DayLength * (last + 1)
  BY <1>1, <1>2
<1>4. DayOf(t) < first => c + DayLength <= a
  BY <1>1, <1>2, <1>3, Product
<1>5. first < DayOf(t) => a + DayLength <= c
  BY <1>1, <1>2, <1>3, Product
<1>6. DayOf(t) < last + 1 => c + DayLength <= b
  BY <1>1, <1>2, <1>3, Product
<1>7. last + 1 < DayOf(t) => b + DayLength <= c
  BY <1>1, <1>2, <1>3, Product
<1>8. (DayOf(t) = first => a = c) /\ (DayOf(t) = last + 1 => b = c)
  BY <1>3
<1> HIDE DEF a, b, c
<1>9. t >= a /\ t < b <=> DayOf(t) >= first /\ DayOf(t) <= last
  <2>1. t = c + (t % DayLength) /\ t % DayLength >= 0 /\ t % DayLength < DayLength
    BY <1>1, <1>2 DEF c
  <2>2. t >= a <=> DayOf(t) >= first
    BY <1>1, <1>2, <1>3, <1>4, <1>5, <1>8, <2>1
  <2>3. t < b <=> DayOf(t) <= last
    BY <1>1, <1>2, <1>3, <1>6, <1>7, <1>8, <2>1
  <2>4. QED
    BY <2>2, <2>3
<1>10. t \in a .. b - 1 <=> t >= a /\ t < b
  BY <1>3
<1>11. QED
  BY <1>2, <1>9, <1>10 DEF a, b

\* The first minute after an instant.
LEMMA FirstMinuteAfter ==
  ASSUME NEW t \in Nat
  PROVE  /\ FirstMinute(t) \in Nat /\ FirstMinute(t) % Minute = 0
         /\ \A u \in Nat : u % Minute = 0 => (u > t <=> u >= FirstMinute(t))
         /\ t % Minute = 0 => FirstMinute(t) = t + Minute
<1>1. Minute \in Nat \ {0}
  BY Lengths
<1> DEFINE q == t \div Minute
           r == t % Minute
           f == FirstMinute(t)
<1>2. q \in Int /\ r \in 0 .. Minute - 1 /\ t = Minute * q + r
  BY <1>1, Divided
<1>3. Minute * q \in Int /\ f = Minute * q + Minute /\ f \in Nat
  BY <1>1, <1>2 DEF FirstMinute
<1>4. f % Minute = 0
  <2>1. PICK k \in Int : k = q + 1
    BY <1>2
  <2>2. f = Minute * k + 0
    BY <1>1, <1>2, <1>3, <2>1
  <2>3. f \in Int /\ 0 \in 0 .. Minute - 1
    BY <1>1, <1>3
  <2> HIDE DEF f, q
  <2>4. QED
    BY <1>1, <2>2, <2>3, Quotient
<1>5. ASSUME NEW u \in Nat, u % Minute = 0 PROVE u > t <=> u >= f
  <2> DEFINE k == u \div Minute
  <2>1. k \in Int /\ u = Minute * k
    <3>1. u \div Minute \in Int /\ u = Minute * (u \div Minute) + (u % Minute)
      BY <1>1, Divided
    <3>2. QED
      BY <1>1, <1>5, <3>1
  <2>2. q < k => Minute * q + Minute <= Minute * k
    BY <1>1, <1>2, <2>1, Product
  <2>3. k < q => Minute * k + Minute <= Minute * q
    BY <1>1, <1>2, <2>1, Product
  <2>4. k = q => u = Minute * q
    BY <2>1
  <2> HIDE DEF f, q, r, k
  <2>5. QED
    BY <1>1, <1>2, <1>3, <2>1, <2>2, <2>3, <2>4
<1>6. t % Minute = 0 => f = t + Minute
  BY <1>1, <1>2, <1>3 DEF FirstMinute
<1>7. QED
  BY <1>3, <1>4, <1>5, <1>6

-----------------------------------------------------------------------------
(* The openings of a day.                                                  *)

Expression == [Fields -> Seq(Part) \ {<<>>}]

LEMMA FieldsInRange ==
  ASSUME NEW expr \in Expression, Parses(expr), NEW f \in {"minute", "hour"}
  PROVE  FieldValues(expr, f) \subseteq 0 .. High(f)
<1>1. f \in Fields /\ Low(f) = 0 /\ High(f) \in Nat
  BY Lengths DEF Fields, Low, High
<1>2. ASSUME NEW i \in DOMAIN expr[f] PROVE PartValues(expr[f][i], f) \subseteq 0 .. High(f)
  <2>1. expr[f][i] \in Part
    <3>1. expr[f] \in Seq(Part)
      BY <1>1 DEF Expression
    <3>2. QED
      BY <1>2, <3>1
  <2>2. PICK part \in Part : part = expr[f][i]
    BY <2>1
  <2>3. PartParses(part, f)
    BY <1>1, <1>2, <2>2 DEF Parses
  <2>4. /\ part.base \in {"any", "value", "range"} /\ part.from \in Int /\ part.to \in Int
        /\ Step(part) \in Nat
    BY DEF Part, Step
  <2>5. CASE part.base = "any"
    BY <1>1, <2>2, <2>4, <2>5 DEF PartValues
  <2>6. CASE part.base = "value"
    BY <1>1, <2>2, <2>3, <2>4, <2>6 DEF PartValues, PartParses
  <2>7. CASE part.base = "range"
    BY <1>1, <2>2, <2>3, <2>4, <2>7 DEF PartValues, PartParses
  <2>8. QED
    BY <2>4, <2>5, <2>6, <2>7
<1>3. QED
  BY <1>2 DEF FieldValues

\* The openings are the instants of the day that match and are not too early.
LEMMA OpeningsMatch ==
  ASSUME NEW expr \in Expression, Parses(expr), NEW d \in Nat, NEW from \in Nat,
         from % Minute = 0, DayOf(from) <= d, DateMatches(expr, d)
  PROVE  /\ Openings(expr, d, from) \subseteq Nat
         /\ \A u \in Nat : u \in Openings(expr, d, from) <=>
              u % Minute = 0 /\ DayOf(u) = d /\ Matches(expr, u) /\ u >= from
<1> DEFINE H == FieldValues(expr, "hour")
           M == FieldValues(expr, "minute")
           Late(h, m) == d = DayOf(from) => \/ h > HourOf(from)
                                            \/ h = HourOf(from) /\ m >= MinuteOf(from)
<1>1. H \subseteq 0 .. HoursPerDay - 1 /\ M \subseteq 0 .. MinutesPerHour - 1
  BY FieldsInRange DEF High
<1>2. \A u : u \in Openings(expr, d, from) <=>
        \E h \in H, m \in M : Late(h, m) /\ u = At(d, h, m)
  <2> DEFINE S == {hm \in H \X M : Late(hm[1], hm[2])}
  <2>1. Openings(expr, d, from) = {At(d, hm[1], hm[2]) : hm \in S}
    BY DEF Openings, Clock
  <2> HIDE DEF Late, H, M
  <2>2. \A h \in H, m \in M : Late(h, m) <=> <<h, m>> \in S
    OBVIOUS
  <2>3. \A hm \in S : hm[1] \in H /\ hm[2] \in M /\ hm = <<hm[1], hm[2]>>
    OBVIOUS
  <2> HIDE DEF S
  <2>4. QED
    BY <2>1, <2>2, <2>3
<1>3. ASSUME NEW u \in Nat, u % Minute = 0, DayOf(u) = d
      PROVE  Late(HourOf(u), MinuteOf(u)) <=> u >= from
  <2>1. DayOf(from) \in Nat /\ (DayOf(from) < d => from < u)
    BY <1>3, DaysInOrder
  <2>2. CASE DayOf(from) < d
    BY <2>1, <2>2
  <2>3. CASE DayOf(from) = d
    BY <1>3, <2>3, ClockInOrder
  <2>4. QED
    BY <2>1, <2>2, <2>3
<1>4. ASSUME NEW h \in H, NEW m \in M, Late(h, m)
      PROVE  /\ At(d, h, m) \in Nat /\ At(d, h, m) % Minute = 0 /\ DayOf(At(d, h, m)) = d
             /\ Matches(expr, At(d, h, m)) /\ At(d, h, m) >= from
  <2>1. /\ At(d, h, m) \in Nat /\ At(d, h, m) % Minute = 0
        /\ DayOf(At(d, h, m)) = d /\ HourOf(At(d, h, m)) = h /\ MinuteOf(At(d, h, m)) = m
    BY <1>1, AtParts
  <2> HIDE DEF Late
  <2>2. At(d, h, m) >= from
    BY <1>3, <1>4, <2>1
  <2>3. QED
    BY <2>1, <2>2 DEF Matches
<1>5. ASSUME NEW u \in Nat, u % Minute = 0, DayOf(u) = d, Matches(expr, u), u >= from
      PROVE  \E h \in H, m \in M : Late(h, m) /\ u = At(d, h, m)
  <2>1. HourOf(u) \in H /\ MinuteOf(u) \in M
    BY <1>5 DEF Matches
  <2>2. u = At(d, HourOf(u), MinuteOf(u))
    BY <1>5, Decomposed
  <2> HIDE DEF H, M, Late
  <2>3. Late(HourOf(u), MinuteOf(u))
    BY <1>3, <1>5
  <2>4. QED
    BY <2>1, <2>2, <2>3
<1> HIDE DEF H, M, Late
<1>6. QED
  BY <1>2, <1>4, <1>5

-----------------------------------------------------------------------------
(* The invariant of the search.                                            *)

\* An instant the search is after.
Wanted(u) == u % Minute = 0 /\ Matches(query.expr, u) /\ u >= moment

CalendarTypes ==
  /\ query \in [expr : Expressions, after : Instants, starts : Starts, ends : Ends]
  /\ st \in {"asked", "searching", "listed", "rejected"}
  /\ moment \in Nat /\ day \in Nat
  /\ out \in Seq(Nat)

Searching ==
  /\ Parses(query.expr)
  /\ moment = FirstMinute(Cursor(Reached, query.starts))
  /\ DayOf(moment) <= day /\ day <= Limit + 1
  /\ \A u \in Nat : Wanted(u) => DayOf(u) >= day

SearchInv == CalendarTypes /\ (st = "searching" => Searching) /\ SearchExact

LEMMA QueryTypes ==
  ASSUME CalendarTypes
  PROVE  /\ query.expr \in Expression /\ query.after \in Nat
         /\ query.starts = NoTime \/ (query.starts \in Nat /\ query.starts >= Minute)
         /\ query.ends \in Nat \cup {NoTime}
         /\ Reached \in Nat /\ Cursor(Reached, query.starts) \in Nat
<1>1. /\ query.expr \in Expressions /\ query.after \in Instants
      /\ query.starts \in Starts /\ query.ends \in Ends
  BY DEF CalendarTypes
<1>2. /\ query.expr \in Expression /\ query.after \in Nat
      /\ query.starts = NoTime \/ (query.starts \in Nat /\ query.starts >= Minute)
      /\ query.ends \in Nat \cup {NoTime}
  BY <1>1, CalendarAssumption DEF Expression
<1>3. Reached \in Nat
  <2>1. out \in Seq(Nat) /\ (out # <<>> => Len(out) \in DOMAIN out)
    BY DEF CalendarTypes
  <2>2. QED
    BY <1>2, <2>1 DEF Reached
<1>4. Cursor(Reached, query.starts) \in Nat
  BY <1>2, <1>3, Lengths, FiringTimesAssumption DEF Cursor
<1>5. QED
  BY <1>2, <1>3, <1>4

LEMMA NextAfterIs ==
  ASSUME NEW fires \in SUBSET Nat, NEW t \in Nat, NEW u \in fires, u > t,
         \A v \in fires : v > t => u <= v
  PROVE  NextAfter(fires, t) = u
<1>1. IsNext(fires, t, u)
  BY DEF IsNext
<1>2. \A v \in fires : IsNext(fires, t, v) => v = u
  BY DEF IsNext
<1>3. QED
  BY <1>1, <1>2 DEF NextAfter

LEMMA FiringTypes ==
  ASSUME NEW expr, NEW t \in Nat
  PROVE  /\ Firing(expr, t) \subseteq Nat
         /\ \A u \in Nat : u \in Firing(expr, t) <=>
              /\ u % Minute = 0 /\ Matches(expr, u)
              /\ DayOf(u) \in DayOf(FirstMinute(t)) .. DayOf(FirstMinute(t)) + MaxSearchDays
<1> DEFINE first == DayOf(FirstMinute(t))
           last == first + MaxSearchDays
<1>1. first \in Nat /\ MaxSearchDays \in Nat /\ last \in Nat
  <2>1. FirstMinute(t) \in Nat
    BY FirstMinuteAfter
  <2>2. first \in Nat
    BY <2>1, DaysInOrder
  <2>3. QED
    BY <2>2, CalendarAssumption
<1>2. Firing(expr, t) = {u \in first * DayLength .. (last + 1) * DayLength - 1 :
                          u % Minute = 0 /\ Matches(expr, u)}
  BY <1>1 DEF Firing
<1>3. first * DayLength \in Nat /\ (last + 1) * DayLength \in Nat
  BY <1>1, Lengths
<1> HIDE DEF first, last
<1>4. \A u \in Nat : u \in first * DayLength .. (last + 1) * DayLength - 1
                       <=> DayOf(u) \in first .. last
  BY <1>1, DaysBetween
<1>5. QED
  BY <1>2, <1>3, <1>4 DEF first, last

-----------------------------------------------------------------------------
(* Each step keeps it.                                                     *)

LEMMA InitInv == Init => SearchInv
  BY DEF Init, SearchInv, CalendarTypes, SearchExact

\* The answers found so far stay what they were.
LEMMA AnswersStay ==
  ASSUME CalendarTypes, SearchExact, query' = query,
         out' = out \/ \E u \in Nat : out' = Append(out, u)
  PROVE  \A i \in DOMAIN out : AnswerExact(i)'
<1> SUFFICES ASSUME NEW i \in DOMAIN out PROVE AnswerExact(i)'
  OBVIOUS
<1>1. out \in Seq(Nat) /\ i \in 1 .. Len(out) /\ i \in DOMAIN out'
  BY DEF CalendarTypes
<1>2. out'[i] = out[i] /\ (i # 1 => out'[i - 1] = out[i - 1])
  <2>1. CASE out' = out
    BY <2>1
  <2>2. CASE \E u \in Nat : out' = Append(out, u)
    <3>1. PICK u \in Nat : out' = Append(out, u)
      BY <2>2
    <3>2. \A k \in 1 .. Len(out) : Append(out, u)[k] = out[k]
      BY <1>1
    <3>3. i # 1 => i - 1 \in 1 .. Len(out)
      BY <1>1
    <3>4. QED
      BY <1>1, <3>1, <3>2, <3>3
  <2>3. QED
    BY <2>1, <2>2
<1>3. AnswerExact(i)
  BY DEF SearchExact
<1>4. QED
  BY <1>1, <1>2, <1>3 DEF AnswerExact

LEMMA SearchStep ==
  ASSUME SearchInv, Search PROVE SearchInv'
<1> DEFINE from == FirstMinute(Cursor(Reached, query.starts))
<1>1. from \in Nat /\ from % Minute = 0 /\ DayOf(from) \in Nat
  <2>1. Cursor(Reached, query.starts) \in Nat
    BY QueryTypes DEF SearchInv
  <2>2. from \in Nat /\ from % Minute = 0
    BY <2>1, FirstMinuteAfter
  <2>3. QED
    BY <2>2, DaysInOrder
<1>2. moment' = from /\ day' = DayOf(from) /\ st' = "searching" /\ UNCHANGED <<query, out>>
  BY DEF Search
<1>3. CalendarTypes'
  BY <1>1, <1>2 DEF SearchInv, CalendarTypes
<1>4. SearchExact'
  BY <1>2 DEF SearchInv, SearchExact, AnswerExact
<1>5. Searching'
  <2>1. Reached' = Reached
    BY <1>2 DEF Reached
  <2>2. day' <= Limit' + 1 /\ DayOf(moment') <= day'
    BY <1>1, <1>2, CalendarAssumption DEF Limit
  <2>3. \A u \in Nat : u >= from => DayOf(u) >= DayOf(from)
    BY <1>1, DaysInOrder
  <2>4. QED
    BY <1>2, <2>1, <2>2, <2>3 DEF Searching, Search, Wanted
<1>6. QED
  BY <1>2, <1>3, <1>4, <1>5 DEF SearchInv

\* What the day has to offer the search.
LEMMA DayOpenings ==
  ASSUME CalendarTypes, Searching
  PROVE  /\ moment % Minute = 0
         /\ DateMatches(query.expr, day) =>
              /\ Openings(query.expr, day, moment) \subseteq Nat
              /\ \A u \in Nat : u \in Openings(query.expr, day, moment) <=>
                   Wanted(u) /\ DayOf(u) = day
<1>1. query.expr \in Expression /\ Cursor(Reached, query.starts) \in Nat
  BY QueryTypes
<1>2. moment % Minute = 0
  BY <1>1, FirstMinuteAfter DEF Searching
<1>3. ASSUME DateMatches(query.expr, day)
      PROVE  /\ Openings(query.expr, day, moment) \subseteq Nat
             /\ \A u \in Nat : u \in Openings(query.expr, day, moment) <=>
                  u % Minute = 0 /\ DayOf(u) = day /\ Matches(query.expr, u) /\ u >= moment
  BY <1>1, <1>2, <1>3, OpeningsMatch DEF CalendarTypes, Searching
<1>4. QED
  BY <1>2, <1>3 DEF Wanted

LEMMA NextDayStep ==
  ASSUME SearchInv, NextDay PROVE SearchInv'
<1>1. /\ st = "searching" /\ day <= Limit /\ ~Found /\ day' = day + 1
      /\ UNCHANGED <<query, st, moment, out>>
  BY DEF NextDay
<1>2. CalendarTypes /\ Searching /\ day \in Nat
  BY <1>1 DEF SearchInv, CalendarTypes
<1>3. ASSUME NEW u \in Nat, Wanted(u) PROVE DayOf(u) >= day + 1
  <2>1. DayOf(u) >= day /\ DayOf(u) \in Nat
    BY <1>2, <1>3, DaysInOrder DEF Searching
  <2>2. ASSUME DayOf(u) = day PROVE FALSE
    <3>1. DateMatches(query.expr, day)
      BY <1>3, <2>2 DEF Wanted, Matches
    <3>2. u \in Openings(query.expr, day, moment)
      BY <1>2, <1>3, <2>2, <3>1, DayOpenings
    <3>3. QED
      BY <1>1, <3>1, <3>2 DEF Found
  <2>3. QED
    BY <1>2, <2>1, <2>2
<1>4. DayOf(moment) \in Nat /\ MaxSearchDays \in Nat
  BY DaysInOrder, CalendarAssumption DEF SearchInv, CalendarTypes
<1>5. Limit' = Limit /\ Reached' = Reached
  BY <1>1 DEF Limit, Reached
<1>6. DayOf(moment) <= day + 1 /\ day + 1 <= Limit + 1
  BY <1>1, <1>2, <1>4 DEF Searching, Limit
<1>7. Searching'
  BY <1>1, <1>2, <1>3, <1>5, <1>6 DEF Searching, Wanted
<1>8. CalendarTypes' /\ SearchExact'
  BY <1>1, <1>2 DEF SearchInv, CalendarTypes, SearchExact, AnswerExact
<1>9. QED
  BY <1>7, <1>8 DEF SearchInv

\* The firing times after the cursor are what the search wants.
LEMMA FiringWanted ==
  ASSUME CalendarTypes, Searching, NEW u \in Nat
  PROVE  LET c == Cursor(Reached, query.starts)
         IN  u \in Firing(query.expr, c) /\ u > c <=> Wanted(u) /\ DayOf(u) <= Limit
<1> DEFINE c == Cursor(Reached, query.starts)
<1>1. c \in Nat /\ moment = FirstMinute(c)
  BY QueryTypes DEF Searching
<1>2. u % Minute = 0 => (u > c <=> u >= moment)
  BY <1>1, FirstMinuteAfter
<1>3. u \in Firing(query.expr, c) <=>
        /\ u % Minute = 0 /\ Matches(query.expr, u)
        /\ DayOf(u) \in DayOf(moment) .. DayOf(moment) + MaxSearchDays
  BY <1>1, FiringTypes
<1>4. /\ DayOf(u) \in Nat /\ DayOf(moment) \in Nat /\ MaxSearchDays \in Nat
      /\ u >= moment => DayOf(u) >= DayOf(moment)
  <2>1. moment \in Nat
    BY DEF CalendarTypes
  <2>2. /\ DayOf(u) \in Nat /\ DayOf(moment) \in Nat
        /\ DayOf(u) < DayOf(moment) => u < moment
    BY <2>1, DaysInOrder
  <2>3. QED
    BY <2>1, <2>2, CalendarAssumption
<1> HIDE DEF c
<1>5. u \in Firing(query.expr, c) /\ u > c <=> Wanted(u) /\ DayOf(u) <= Limit
  BY <1>2, <1>3, <1>4 DEF Wanted, Limit
<1>6. QED
  BY <1>5 DEF c

\* The first opening of the day is the next firing time.
LEMMA YieldsNext ==
  ASSUME CalendarTypes, Searching, day <= Limit, Found
  PROVE  LET c == Cursor(Reached, query.starts)
             u == Min(Openings(query.expr, day, moment))
         IN  u \in Nat /\ NextAfter(Firing(query.expr, c), c) = u
<1> DEFINE c == Cursor(Reached, query.starts)
           opens == Openings(query.expr, day, moment)
           u == Min(opens)
           fires == Firing(query.expr, c)
<1>1. /\ opens \subseteq Nat /\ opens # {}
      /\ \A v \in Nat : v \in opens <=> Wanted(v) /\ DayOf(v) = day
  BY DayOpenings DEF Found
<1>2. u \in opens /\ \A v \in opens : u <= v
  <2> HIDE DEF opens
  <2>1. QED
    BY <1>1, Smallest
<1>3. u \in Nat /\ Wanted(u) /\ DayOf(u) = day
  BY <1>1, <1>2
<1>4. c \in Nat /\ fires \in SUBSET Nat
  BY QueryTypes, FiringTypes
<1>5. u \in fires /\ u > c
  BY <1>3, FiringWanted
<1>6. ASSUME NEW v \in fires, v > c PROVE u <= v
  <2>1. v \in Nat /\ Wanted(v)
    BY <1>4, <1>6, FiringWanted
  <2>2. DayOf(v) >= day /\ DayOf(v) \in Nat
    BY <2>1, DaysInOrder DEF Searching
  <2>3. CASE DayOf(v) = day
    BY <1>1, <1>2, <2>1, <2>3
  <2>4. CASE DayOf(v) > day
    <3>1. u < v
      BY <1>3, <2>1, <2>4, DaysInOrder
    <3>2. QED
      BY <1>3, <2>1, <3>1
  <2>5. QED
    BY <2>2, <2>3, <2>4 DEF CalendarTypes
<1> HIDE DEF c, u, fires, opens
<1>7. NextAfter(fires, c) = u
  BY <1>4, <1>5, <1>6, NextAfterIs
<1>8. QED
  BY <1>3, <1>7 DEF c, u, fires, opens

\* The answer next_run owes now.
Owed == NextRun(Firing(query.expr, Cursor(Reached, query.starts)),
                Reached, query.starts, query.ends)

LEMMA OwedIsNext ==
  ASSUME CalendarTypes
  PROVE  AnswerExact(Len(out) + 1) <=> Owed = NoTime
<1>1. Len(out) \in Nat /\ DOMAIN out = 1 .. Len(out) /\ (out = <<>> <=> Len(out) = 0)
  BY DEF CalendarTypes
<1>2. Reached = IF Len(out) + 1 = 1 THEN query.after ELSE out[(Len(out) + 1) - 1]
  BY <1>1 DEF Reached
<1>3. Len(out) + 1 \notin DOMAIN out
  BY <1>1
<1>4. QED
  BY <1>2, <1>3 DEF AnswerExact, Owed

LEMMA YieldStep ==
  ASSUME SearchInv, Yield PROVE SearchInv'
<1> DEFINE u == Min(Openings(query.expr, day, moment))
           c == Cursor(Reached, query.starts)
<1>1. /\ st = "searching" /\ day <= Limit /\ Found
      /\ IF query.ends # NoTime /\ u > query.ends
           THEN st' = "listed" /\ out' = out
           ELSE st' = "asked" /\ out' = Append(out, u)
      /\ UNCHANGED <<query, moment, day>>
  BY DEF Yield
<1>2. CalendarTypes /\ Searching /\ SearchExact
  BY <1>1 DEF SearchInv
<1>3. u \in Nat /\ NextAfter(Firing(query.expr, c), c) = u
  BY <1>1, <1>2, YieldsNext
<1>4. u # NoTime
  BY <1>3, FiringTimesAssumption
<1>5. Owed = IF query.ends # NoTime /\ u > query.ends THEN NoTime ELSE u
  BY <1>3, <1>4 DEF Owed, NextRun
<1> HIDE DEF u, c
<1>6. CASE query.ends # NoTime /\ u > query.ends
  <2>1. st' = "listed" /\ out' = out
    BY <1>1, <1>6
  <2>2. AnswerExact(Len(out) + 1)
    BY <1>2, <1>5, <1>6, OwedIsNext
  <2>3. SearchExact'
    BY <1>1, <1>2, <2>1, <2>2 DEF SearchExact, AnswerExact
  <2>4. QED
    BY <1>1, <1>2, <2>1, <2>3 DEF SearchInv, CalendarTypes
<1>7. CASE ~(query.ends # NoTime /\ u > query.ends)
  <2>1. st' = "asked" /\ out' = Append(out, u)
    BY <1>1, <1>7
  <2>2. /\ out \in Seq(Nat) /\ Len(out') = Len(out) + 1 /\ out'[Len(out) + 1] = u
        /\ DOMAIN out' = 1 .. Len(out) + 1 /\ out' \in Seq(Nat)
        /\ \A i \in 1 .. Len(out) : out'[i] = out[i]
    BY <1>2, <1>3, <2>1 DEF CalendarTypes
  <2>3. ASSUME NEW i \in Nat, i = Len(out) + 1 PROVE AnswerExact(i)'
    <3>1. Len(out) \in Nat /\ (out = <<>> <=> Len(out) = 0)
      BY <1>2 DEF CalendarTypes
    <3>2. Reached = IF i = 1 THEN query.after ELSE out'[i - 1]
      BY <2>2, <2>3, <3>1 DEF Reached
    <3>3. Owed = u
      BY <1>5, <1>7
    <3>4. i \in DOMAIN out' /\ out'[i] = u
      BY <2>2, <2>3, <3>1
    <3>5. QED
      BY <1>1, <3>2, <3>3, <3>4 DEF AnswerExact, Owed
  <2>4. \A i \in DOMAIN out : AnswerExact(i)'
    BY <1>1, <1>2, <1>3, <2>1, AnswersStay
  <2>5. ASSUME NEW i \in DOMAIN out' PROVE AnswerExact(i)'
    <3>1. i \in Nat /\ (i \in DOMAIN out \/ i = Len(out) + 1)
      BY <2>2
    <3>2. QED
      BY <2>3, <2>4, <3>1
  <2>6. QED
    BY <1>1, <1>2, <2>1, <2>2, <2>5 DEF SearchInv, CalendarTypes, SearchExact
<1>8. QED
  BY <1>6, <1>7

LEMMA GiveUpStep ==
  ASSUME SearchInv, GiveUp PROVE SearchInv'
<1> DEFINE c == Cursor(Reached, query.starts)
           fires == Firing(query.expr, c)
<1>1. st = "searching" /\ day > Limit /\ st' = "listed" /\ UNCHANGED <<query, moment, day, out>>
  BY DEF GiveUp
<1>2. CalendarTypes /\ Searching /\ SearchExact
  BY <1>1 DEF SearchInv
<1>3. c \in Nat /\ fires \in SUBSET Nat
  BY <1>2, QueryTypes, FiringTypes
<1>4. \A u \in fires : ~(u > c)
  <2> SUFFICES ASSUME NEW u \in fires, u > c PROVE FALSE
    OBVIOUS
  <2>1. u \in Nat /\ Wanted(u) /\ DayOf(u) <= Limit
    BY <1>2, <1>3, FiringWanted
  <2>2. DayOf(u) >= day /\ DayOf(u) \in Nat /\ day \in Nat
    BY <1>2, <2>1, DaysInOrder DEF Searching, CalendarTypes
  <2>3. Limit \in Nat
    <3>1. moment \in Nat
      BY <1>2 DEF CalendarTypes
    <3>2. DayOf(moment) \in Nat
      BY <3>1, DaysInOrder
    <3>3. QED
      BY <3>2, CalendarAssumption DEF Limit
  <2>4. QED
    BY <1>1, <2>1, <2>2, <2>3
<1>5. NextAfter(fires, c) = NoTime
  BY <1>4 DEF NextAfter, IsNext
<1>6. Owed = NoTime
  BY <1>5 DEF Owed, NextRun
<1>7. AnswerExact(Len(out) + 1)
  BY <1>2, <1>6, OwedIsNext
<1>8. SearchExact'
  BY <1>1, <1>2, <1>7 DEF SearchExact, AnswerExact
<1>9. QED
  BY <1>1, <1>2, <1>8 DEF SearchInv, CalendarTypes

LEMMA OtherSteps ==
  ASSUME SearchInv, Reject \/ Stop \/ UNCHANGED vars PROVE SearchInv'
<1>1. CASE Reject
  <2>1. st' = "rejected" /\ UNCHANGED <<query, moment, day, out>>
    BY <1>1 DEF Reject
  <2>2. QED
    BY <2>1 DEF SearchInv, CalendarTypes, SearchExact, AnswerExact
<1>2. CASE Stop
  <2>1. st' = "listed" /\ Len(out) = Count /\ UNCHANGED <<query, moment, day, out>>
    BY <1>2 DEF Stop
  <2>2. ~(Len(out) < Count)
    BY <2>1, CalendarAssumption
  <2>3. QED
    BY <2>1, <2>2 DEF SearchInv, CalendarTypes, SearchExact, AnswerExact
<1>3. CASE UNCHANGED vars
  BY <1>3 DEF vars, SearchInv, CalendarTypes, Searching, Wanted, Limit, Reached,
     SearchExact, AnswerExact
<1>4. QED
  BY <1>1, <1>2, <1>3

LEMMA SearchKept == Spec => []SearchInv
<1>1. SearchInv /\ [Next]_vars => SearchInv'
  BY SearchStep, NextDayStep, YieldStep, GiveUpStep, OtherSteps DEF Next
<1>2. QED
  BY <1>1, InitInv, PTL DEF Spec

(* The walk over days, hours and minutes finds the first instant that the  *)
(* expression matches, or rightly none, for every calendar and expression. *)
THEOREM FindsFirst == Spec => []SearchExact
<1>1. SearchInv => SearchExact
  BY DEF SearchInv
<1>2. QED
  BY <1>1, SearchKept, PTL

(* A preview is in order, after the instant it was asked for and in the    *)
(* window, if the window opens on a whole minute.                          *)
THEOREM PreviewStays == Spec => []PreviewInWindow
<1>1. SearchInv => PreviewInWindow
  <2> SUFFICES ASSUME SearchInv, query.starts = NoTime \/ query.starts % Minute = 0,
                      NEW i \in DOMAIN out
               PROVE  /\ out[i] > IF i = 1 THEN query.after ELSE out[i - 1]
                      /\ query.starts # NoTime => out[i] >= query.starts
                      /\ query.ends # NoTime => out[i] <= query.ends
    BY DEF PreviewInWindow
  <2> DEFINE after == IF i = 1 THEN query.after ELSE out[i - 1]
             c == Cursor(after, query.starts)
             fires == Firing(query.expr, c)
             u == NextAfter(fires, c)
  <2>1. /\ query.after \in Nat /\ query.ends \in Nat \cup {NoTime}
        /\ query.starts = NoTime \/ (query.starts \in Nat /\ query.starts >= Minute)
    BY QueryTypes DEF SearchInv
  <2>2. out \in Seq(Nat) /\ i \in 1 .. Len(out) /\ out[i] \in Nat /\ after \in Nat
    BY <2>1 DEF SearchInv, CalendarTypes
  <2>3. NextRun(fires, after, query.starts, query.ends) = out[i]
    BY DEF SearchInv, SearchExact, AnswerExact
  <2>4. Minute \in Nat \ {0} /\ NoTime \notin Int
    BY Lengths, FiringTimesAssumption
  <2> HIDE DEF after
  <2>5. c \in Nat
    BY <2>1, <2>2, <2>4 DEF Cursor
  <2>6. fires \in SUBSET Nat
    BY <2>5, FiringTypes
  <2>7. out[i] = u /\ (query.ends # NoTime => ~(u > query.ends))
    BY <2>2, <2>3, <2>4 DEF NextRun
  <2>8. out[i] \in fires /\ out[i] > c
    <3>1. u # NoTime
      BY <2>2, <2>4, <2>7
    <3> HIDE DEF c, fires
    <3>2. u \in fires /\ u > c
      BY <3>1 DEF NextAfter, IsNext
    <3>3. QED
      BY <2>7, <3>2
  <2>9. out[i] % Minute = 0
    BY <2>2, <2>5, <2>8, FiringTypes
  <2>10. CASE query.starts # NoTime /\ query.starts > after
    <3>1. c = query.starts - Minute /\ query.starts \in Nat /\ query.starts % Minute = 0
      BY <2>1, <2>10 DEF Cursor
    <3>2. out[i] >= query.starts
      <4>1. PICK s \in Nat : s = query.starts
        BY <3>1
      <4>2. s % Minute = 0 /\ c = s - Minute
        BY <3>1, <4>1
      <4>3. c % Minute = 0
        <5>1. s \div Minute \in Int /\ s = Minute * (s \div Minute) + (s % Minute)
          <6>1. Minute \in Nat \ {0} /\ s \in Int
            BY <2>4
          <6>2. QED
            BY <6>1, Divided
        <5>2. PICK k \in Int : k = (s \div Minute) - 1
          BY <5>1
        <5>3. c = Minute * k + 0
          BY <2>4, <4>2, <5>1, <5>2
        <5>4. c \in Int /\ 0 \in 0 .. Minute - 1
          BY <2>4, <2>5
        <5> HIDE DEF c
        <5>5. QED
          BY <2>4, <5>3, <5>4, Quotient
      <4> HIDE DEF c
      <4>4. out[i] >= FirstMinute(c) /\ FirstMinute(c) = c + Minute
        BY <2>2, <2>5, <2>8, <2>9, <4>3, FirstMinuteAfter
      <4>5. QED
        BY <2>2, <2>4, <2>5, <4>1, <4>2, <4>4
    <3>3. QED
      BY <2>1, <2>2, <2>7, <2>10, <3>1, <3>2 DEF after
  <2>11. CASE ~(query.starts # NoTime /\ query.starts > after)
    <3>1. c = after
      BY <2>11 DEF Cursor
    <3>2. out[i] > after
      BY <2>8, <3>1
    <3>3. QED
      BY <2>1, <2>2, <2>7, <2>11, <3>2 DEF after
  <2>12. QED
    BY <2>10, <2>11
<1>2. QED
  BY <1>1, SearchKept, PTL
-----------------------------------------------------------------------------
(* The search ends: each of its steps uses up one of a number of steps that  *)
(* is known from the start, MaxSearchDays + 3 for every firing time that the *)
(* preview asks for.                                                         *)

Pace == MaxSearchDays + 3

StepsLeft ==
  CASE st = "asked"     -> (Count - Len(out)) * Pace + 1
    [] st = "searching" -> (Count - Len(out) - 1) * Pace + 1 + (Limit + 2 - day)
    [] OTHER            -> 0

EndInv ==
  /\ SearchInv
  /\ Len(out) <= Count
  /\ st = "searching" => Len(out) < Count

LEMMA EndKept == Spec => []EndInv
<1>1. Init => EndInv
  BY InitInv, CalendarAssumption DEF Init, EndInv
<1>2. ASSUME EndInv, [Next]_vars
      PROVE  Len(out') <= Count /\ (st' = "searching" => Len(out') < Count)
  <2>1. out \in Seq(Nat) /\ Len(out) \in Nat /\ Count \in Nat
    BY <1>2, CalendarAssumption DEF EndInv, SearchInv, CalendarTypes
  <2>2. CASE Yield
    <3>1. st = "searching" /\ day <= Limit /\ Found
      BY <2>2 DEF Yield
    <3>2. \/ out' = out /\ st' = "listed"
          \/ st' = "asked" /\ out' = Append(out, Min(Openings(query.expr, day, moment)))
      BY <2>2 DEF Yield
    <3>3. Min(Openings(query.expr, day, moment)) \in Nat
      BY <1>2, <3>1, YieldsNext DEF EndInv, SearchInv
    <3>4. Len(out') = Len(out) \/ Len(out') = Len(out) + 1
      BY <2>1, <3>2, <3>3
    <3>5. QED
      BY <1>2, <2>1, <3>1, <3>2, <3>4 DEF EndInv
  <2>3. CASE ~Yield
    BY <1>2, <2>3 DEF EndInv, Next, Reject, Search, NextDay, GiveUp, Stop, vars
  <2>4. QED
    BY <2>2, <2>3
<1>3. EndInv /\ SearchInv' /\ [Next]_vars => EndInv'
  BY <1>2 DEF EndInv
<1>4. QED
  BY <1>1, <1>3, SearchKept, PTL DEF Spec

\* A round of the search has its own share of the steps.
LEMMA Shares ==
  ASSUME EndInv
  PROVE  /\ Pace \in Nat /\ Pace = MaxSearchDays + 3 /\ Limit \in Nat
         /\ (Count - Len(out)) * Pace \in 0 .. Count * Pace
         /\ Len(out) < Count =>
              /\ (Count - Len(out) - 1) * Pace \in Nat
              /\ (Count - Len(out)) * Pace = (Count - Len(out) - 1) * Pace + Pace
<1>1. MaxSearchDays \in Nat /\ Pace \in Nat /\ Count \in Nat /\ Pace = MaxSearchDays + 3
  BY CalendarAssumption DEF Pace
<1>2. Len(out) \in 0 .. Count
  BY <1>1 DEF EndInv, SearchInv, CalendarTypes
<1>3. Limit \in Nat
  <2>1. moment \in Nat
    BY DEF EndInv, SearchInv, CalendarTypes
  <2>2. QED
    BY <1>1, <2>1, DaysInOrder DEF Limit
<1>4. \A m, n, p \in Nat : m <= n => m * p \in 0 .. n * p
  <2> SUFFICES ASSUME NEW m \in Nat, NEW n \in Nat, NEW p \in Nat, m <= n
               PROVE  m * p \in 0 .. n * p
    OBVIOUS
  <2>1. PICK d \in Nat : n = m + d
    OBVIOUS
  <2>2. n * p = m * p + d * p /\ m * p \in Nat /\ d * p \in Nat
    BY <2>1
  <2>3. QED
    BY <2>2
<1>5. \A m, p \in Nat : m > 0 => (m - 1) * p \in Nat /\ m * p = (m - 1) * p + p
  OBVIOUS
<1>6. PICK m \in Nat : m = Count - Len(out)
  BY <1>1, <1>2
<1>7. m <= Count /\ (Len(out) < Count <=> m > 0) /\ Count - Len(out) - 1 = m - 1
  BY <1>1, <1>2, <1>6
<1> HIDE DEF Pace
<1>8. QED
  BY <1>1, <1>3, <1>4, <1>5, <1>6, <1>7

LEMMA StepsUsed ==
  ASSUME EndInv, EndInv', Next
  PROVE  StepsLeft' < StepsLeft
<1> DEFINE share == (Count - Len(out) - 1) * Pace
<1>1. /\ Pace \in Nat /\ Pace = MaxSearchDays + 3 /\ Limit \in Nat /\ MaxSearchDays \in Nat
      /\ (Count - Len(out)) * Pace \in Nat
      /\ Len(out) < Count => share \in Nat /\ (Count - Len(out)) * Pace = share + Pace
  BY Shares, CalendarAssumption
<1>2. day \in Nat /\ (st = "searching" => day <= Limit + 1)
  BY <1>1 DEF EndInv, SearchInv, CalendarTypes, Searching
<1>3. /\ st = "asked" => StepsLeft = (Count - Len(out)) * Pace + 1
      /\ st = "searching" => StepsLeft = share + 1 + (Limit + 2 - day)
      /\ st' \in {"listed", "rejected"} => StepsLeft' = 0
      /\ st' = "asked" => StepsLeft' = (Count - Len(out')) * Pace + 1
      /\ st' = "searching" =>
           StepsLeft' = (Count - Len(out') - 1) * Pace + 1 + (Limit' + 2 - day')
  BY DEF StepsLeft, Pace
<1> HIDE DEF share
<1>4. st \in {"asked", "searching"} => StepsLeft > 0
  BY <1>1, <1>2, <1>3 DEF EndInv
<1>5. CASE Reject \/ GiveUp \/ Stop \/ (Yield /\ st' = "listed")
  BY <1>3, <1>4, <1>5 DEF Reject, GiveUp, Stop, Yield
<1>6. CASE Search
  <2>1. /\ st = "asked" /\ st' = "searching" /\ Len(out) < Count /\ out' = out
        /\ day' = DayOf(moment')
    BY <1>6 DEF Search
  <2>2. Limit' = day' + MaxSearchDays /\ day' \in Nat
    BY <2>1 DEF Limit, EndInv, SearchInv, CalendarTypes
  <2>3. StepsLeft' = share + 1 + (MaxSearchDays + 2)
    BY <1>1, <1>3, <2>1, <2>2 DEF share
  <2>4. QED
    BY <1>1, <1>3, <2>1, <2>3
<1>7. CASE NextDay
  <2>1. /\ st = "searching" /\ st' = "searching" /\ out' = out /\ moment' = moment
        /\ day' = day + 1
    BY <1>7 DEF NextDay
  <2>2. Limit' = Limit
    BY <2>1 DEF Limit
  <2>3. StepsLeft' = share + 1 + (Limit + 2 - (day + 1)) /\ share \in Nat
    BY <1>1, <1>3, <2>1, <2>2 DEF share, EndInv
  <2>4. QED
    BY <1>1, <1>2, <1>3, <2>1, <2>3
<1>8. CASE Yield /\ st' # "listed"
  <2>1. /\ st = "searching" /\ day <= Limit /\ Found /\ st' = "asked"
        /\ out' = Append(out, Min(Openings(query.expr, day, moment)))
    BY <1>8 DEF Yield
  <2>2. Len(out') = Len(out) + 1 /\ Len(out) \in Nat /\ Count \in Nat
    BY <2>1, YieldsNext, CalendarAssumption DEF EndInv, SearchInv, CalendarTypes
  <2>3. Count - Len(out') = Count - Len(out) - 1
    BY <2>2
  <2>4. StepsLeft' = share + 1 /\ share \in Nat
    BY <1>1, <1>3, <2>1, <2>3 DEF share, EndInv
  <2>5. QED
    BY <1>1, <1>2, <1>3, <2>1, <2>4
<1>9. QED
  BY <1>5, <1>6, <1>7, <1>8 DEF Next

\* A preview, whatever its expression, takes a bounded number of steps: none
\* keeps the search of the calendar going for longer.
THEOREM SearchBounded ==
  Spec => /\ [](StepsLeft \in 0 .. Count * Pace + 1)
          /\ [][StepsLeft' < StepsLeft]_vars
<1>1. EndInv => StepsLeft \in 0 .. Count * Pace + 1
  <2> SUFFICES ASSUME EndInv PROVE StepsLeft \in 0 .. Count * Pace + 1
    OBVIOUS
  <2> DEFINE share == (Count - Len(out) - 1) * Pace
             all == Count * Pace
  <2>1. /\ Pace \in Nat /\ Pace = MaxSearchDays + 3 /\ Limit \in Nat /\ MaxSearchDays \in Nat
        /\ all \in Nat /\ (Count - Len(out)) * Pace \in 0 .. all
        /\ Len(out) < Count => share \in Nat /\ (Count - Len(out)) * Pace = share + Pace
    BY Shares, CalendarAssumption
  <2>2. CASE st = "asked"
    BY <2>1, <2>2 DEF StepsLeft
  <2>3. CASE st = "searching"
    <3>1. StepsLeft = share + 1 + (Limit + 2 - day) /\ Len(out) < Count
      BY <2>3 DEF StepsLeft, EndInv
    <3>2. day \in Nat /\ DayOf(moment) <= day /\ day <= Limit + 1 /\ DayOf(moment) \in Nat
      BY <2>3, DaysInOrder DEF EndInv, SearchInv, CalendarTypes, Searching
    <3>3. Limit + 2 - day \in 0 .. MaxSearchDays + 2
      BY <2>1, <3>2 DEF Limit
    <3> HIDE DEF share, all
    <3>4. QED
      BY <2>1, <3>1, <3>3 DEF all
  <2>4. CASE st \notin {"asked", "searching"}
    BY <2>1, <2>4 DEF StepsLeft
  <2>5. QED
    BY <2>2, <2>3, <2>4
<1>2. EndInv /\ EndInv' /\ [Next]_vars => [StepsLeft' < StepsLeft]_vars
  BY StepsUsed
<1>3. QED
  BY <1>1, <1>2, EndKept, PTL DEF Spec
===============================================================================
