----------------------------- MODULE AskingProofs -----------------------------
(***************************************************************************)
(* What holds of questions for any number of them, of rounds, of members   *)
(* and of conversations.                                                   *)
(*                                                                         *)
(* Rows belong to the SQL shown with them because a question that runs     *)
(* carries the SQL of its round, and a stream holds, between rounds,       *)
(* nothing but an error of a round it has had (RoundsGood).  A turn stays  *)
(* with its owner because it was placed by someone who owns the            *)
(* conversation, and neither owners nor askers change (PlacedGood).        *)
(***************************************************************************)
EXTENDS MCAsking, TablesProofs, FiniteSetTheorems, WellFoundedInduction, TLAPS

ModelState == {"off", "called", "sent", "failed", "cancelled"}

\* What an answer shows belongs together (AnswerOfItsSql, of one question).
ShownGood(q, t) ==
  t.st \in {"answered", "saving", "replied"} =>
    /\ ~t.error => t.sql = t.of /\ t.of # 0
    /\ t.error => IF q \in Streamed THEN t.ran /\ t.of \in 1 .. t.sql
                                    ELSE t.sql \in {0, t.of}

\* What a stream holds between rounds is an error of the database.
HeldGood(q, t) ==
  q \in Streamed => /\ t.of <= t.round
                    /\ t.of # 0 => t.error /\ t.ran

RoundsGood(q, t) ==
  /\ t.st = "unasked" => t.of = 0
  /\ t.st \in {"generating", "running"} => t.round >= 1 /\ HeldGood(q, t)
  /\ t.st = "generating" => q \notin Typed
  /\ t.st = "running" => t.sql = t.round
  /\ q \in Typed => ~t.error /\ (t.st = "running" => t.sql = 1)
  /\ t.st = "saving" => t.sql # 0 /\ (q \in Streamed => ~t.error)
  /\ ShownGood(q, t)

PlacedGood(t) ==
  t.st = "saving" /\ t.within # NoConversation => talk[t.within].owner = t.by

RowGood(q, row) ==
  row.there => row.rows \in (IF q \in Plain THEN {0} ELSE {}) \cup {row.sql}

Inv ==
  /\ AskingTypes
  /\ NoCallForNobody
  /\ \A q \in Question : RoundsGood(q, turn[q]) /\ PlacedGood(turn[q])
                           /\ RowGood(q, history[q])
  /\ TurnsOfTheirOwner

\* What every action of a question does to it.
TaskMoves(q) ==
  \E x \in Turn, m \in ModelState :
    /\ turn' = [turn EXCEPT ![q] = x] /\ model' = [model EXCEPT ![q] = m]
    /\ RoundsGood(q, x) /\ PlacedGood(x) /\ x.by = turn[q].by
    /\ m = "called" => x.st = "generating"

-----------------------------------------------------------------------------
LEMMA TypesHold ==
  ASSUME Inv, NEW q \in Question
  PROVE  /\ turn[q] \in Turn /\ model[q] \in ModelState /\ history[q] \in Row
         /\ RoundsGood(q, turn[q]) /\ PlacedGood(turn[q]) /\ RowGood(q, history[q])
         /\ model[q] = "called" => turn[q].st = "generating"
         /\ turn \in [Question -> Turn] /\ model \in [Question -> ModelState]
         /\ model = [model EXCEPT ![q] = model[q]]
<1>1. turn \in [Question -> Turn] /\ model \in [Question -> ModelState]
        /\ history \in [Question -> Row]
  BY DEF Inv, AskingTypes, ModelState
<1>2. QED
  BY <1>1 DEF Inv, NoCallForNobody

LEMMA Kinds ==
  ASSUME NEW q \in Question
  PROVE  /\ q \in Plain \/ q \in Streamed \/ q \in Typed
         /\ q \in Plain => q \notin Streamed /\ q \notin Typed
         /\ q \in Streamed => q \notin Typed
  BY AskingAssumption DEF Question

LEMMA TurnFields ==
  ASSUME NEW t \in Turn
  PROVE  /\ t.st \in Stage /\ t.by \in Member /\ t.round \in 0 .. MaxAttempts
         /\ t.sql \in 0 .. MaxAttempts /\ t.of \in 0 .. MaxAttempts
         /\ t.within \in Conversation \cup {NoConversation}
         /\ t.late \in BOOLEAN /\ t.error \in BOOLEAN /\ t.ran \in BOOLEAN
  BY DEF Turn

\* Another stage, and another round, of a question.
LEMMA TurnWrite ==
  ASSUME NEW t \in Turn, NEW st \in Stage, NEW nth \in 0 .. MaxAttempts
  PROVE  /\ [t EXCEPT !.st = st] \in Turn
         /\ [t EXCEPT !.st = st, !.round = nth] \in Turn
  BY DEF Turn

\* A question that stands still as to its model.
LEMMA MovesAlone ==
  ASSUME Inv, NEW q \in Question, NEW x \in Turn, Goes(q, x), UNCHANGED model,
         RoundsGood(q, x), PlacedGood(x), x.by = turn[q].by,
         model[q] = "called" => x.st = "generating"
  PROVE  TaskMoves(q)
<1>1. model[q] \in ModelState /\ model' = [model EXCEPT ![q] = model[q]]
  BY TypesHold
<1>2. QED
  BY <1>1 DEF TaskMoves, Goes

-----------------------------------------------------------------------------
(* Rounds.                                                                 *)

\* A failed round leads to the next, or to an answer of what is held.
LEMMA NextRoundGood ==
  ASSUME Inv, NEW q \in Question, q \notin Typed, NEW t \in Turn, t.by = turn[q].by,
         t.round >= 1, HeldGood(q, t), model[q] # "called",
         q \in Streamed => t.sql = t.round,
         q \in Plain => t.error /\ t.sql \in {0, t.of},
         NextRound(q, t)
  PROVE  TaskMoves(q)
<1>1. t.round \in 0 .. MaxAttempts /\ MaxAttempts \in Nat
  BY TurnFields, AskingAssumption
<1>2. CASE t.round < MaxAttempts /\ (q \in Plain => ~t.late)
  <2> DEFINE x == [t EXCEPT !.st = "generating", !.round = t.round + 1]
  <2>1. t.round + 1 \in 0 .. MaxAttempts /\ "generating" \in Stage
    BY <1>1, <1>2 DEF Stage
  <2>2. x \in Turn
    BY <2>1, TurnFields, TurnWrite
  <2>3. /\ x.st = "generating" /\ x.round = t.round + 1 /\ x.by = t.by
        /\ x.of = t.of /\ x.error = t.error /\ x.ran = t.ran
    BY DEF Turn
  <2>4. Goes(q, x) /\ model' = [model EXCEPT ![q] = "called"]
    BY <1>2 DEF NextRound
  <2> HIDE DEF x
  <2>5. x.of \in Nat /\ t.of \in Nat
    BY <2>3, TurnFields
  <2>6. RoundsGood(q, x)
    BY <1>1, <2>3, <2>5 DEF RoundsGood, HeldGood, ShownGood
  <2>7. PlacedGood(x)
    BY <2>3 DEF PlacedGood
  <2>8. QED
    BY <2>2, <2>3, <2>4, <2>6, <2>7 DEF TaskMoves, Goes, ModelState
<1>3. CASE ~(t.round < MaxAttempts /\ (q \in Plain => ~t.late))
  <2> DEFINE st == IF q \in Streamed /\ t.of = 0 THEN "refused" ELSE "answered"
             x == [t EXCEPT !.st = st]
  <2>1. st \in Stage
    BY DEF Stage
  <2>2. x \in Turn
    BY <2>1, TurnFields, TurnWrite
  <2>3. /\ x.st = st /\ x.round = t.round /\ x.by = t.by /\ x.sql = t.sql
        /\ x.of = t.of /\ x.error = t.error /\ x.ran = t.ran
    BY DEF Turn
  <2>4. Goes(q, x) /\ UNCHANGED model
    BY <1>3 DEF NextRound
  <2> HIDE DEF x
  <2>5. t.of \in Nat /\ t.sql \in Nat
    BY TurnFields
  <2>6. st = "answered" /\ q \in Streamed => t.ran /\ t.error /\ t.of \in 1 .. t.sql
    BY <1>1, <2>5 DEF HeldGood
  <2>7. ShownGood(q, x)
    BY <2>3, <2>5, <2>6, Kinds DEF ShownGood
  <2>8. RoundsGood(q, x)
    BY <2>3, <2>7 DEF RoundsGood
  <2>9. PlacedGood(x)
    BY <2>3 DEF PlacedGood
  <2>10. QED
    BY <2>2, <2>3, <2>4, <2>8, <2>9, MovesAlone
<1>4. QED
  BY <1>2, <1>3

LEMMA GeneratedMoves ==
  ASSUME Inv, NEW q \in Question, Generated(q)
  PROVE  TaskMoves(q)
<1> DEFINE t == [turn[q] EXCEPT !.sql = turn[q].round]
           e == [turn[q] EXCEPT !.sql = 0]
<1>1. /\ turn[q] \in Turn /\ RoundsGood(q, turn[q]) /\ model[q] = "sent"
      /\ turn[q].st = "generating" /\ q \notin Typed
      /\ turn[q].round \in 0 .. MaxAttempts /\ turn[q].round >= 1
      /\ HeldGood(q, turn[q])
  BY TypesHold, TurnFields DEF Generated, RoundsGood
<1>2. t \in Turn /\ e \in Turn /\ 0 \in 0 .. MaxAttempts
  <2>1. 0 \in 0 .. MaxAttempts
    BY AskingAssumption
  <2>2. QED
    BY <1>1, <2>1 DEF Turn
<1>3. /\ t.st = turn[q].st /\ t.round = turn[q].round /\ t.by = turn[q].by
      /\ t.of = turn[q].of /\ t.error = turn[q].error /\ t.ran = turn[q].ran
      /\ t.sql = turn[q].round
      /\ e.st = turn[q].st /\ e.round = turn[q].round /\ e.by = turn[q].by
      /\ e.of = turn[q].of /\ e.error = turn[q].error /\ e.ran = turn[q].ran
      /\ e.sql = 0
  BY <1>1 DEF Turn
<1>4. \/ Goes(q, [t EXCEPT !.st = "running"]) /\ UNCHANGED model
      \/ Invalid(q, t)
      \/ q \in Plain /\ Invalid(q, e)
      \/ q \in Streamed /\ Goes(q, [e EXCEPT !.st = "refused"]) /\ UNCHANGED model
  BY DEF Generated
<1> HIDE DEF t, e
<1>5. CASE Goes(q, [t EXCEPT !.st = "running"]) /\ UNCHANGED model
  <2> DEFINE x == [t EXCEPT !.st = "running"]
  <2>1. x \in Turn
    BY <1>2, TurnFields, TurnWrite DEF Stage
  <2>2. /\ x.st = "running" /\ x.round = t.round /\ x.by = t.by /\ x.sql = t.sql
        /\ x.of = t.of /\ x.error = t.error /\ x.ran = t.ran
    BY <1>2 DEF Turn
  <2>3. Goes(q, x)
    BY <1>5
  <2> HIDE DEF x
  <2>4. RoundsGood(q, x) /\ PlacedGood(x)
    BY <1>1, <1>3, <2>2 DEF RoundsGood, HeldGood, ShownGood, PlacedGood
  <2>5. QED
    BY <1>1, <1>3, <1>5, <2>1, <2>2, <2>3, <2>4, MovesAlone
<1>6. ASSUME NEW u \in Turn, u.round = turn[q].round, u.by = turn[q].by,
             u.of = turn[q].of, u.error = turn[q].error, u.ran = turn[q].ran,
             u.sql = turn[q].round \/ (q \in Plain /\ u.sql = 0),
             Invalid(q, u)
      PROVE  TaskMoves(q)
  <2>1. CASE q \in Plain
    <3> DEFINE v == [u EXCEPT !.of = u.round, !.error = TRUE, !.ran = FALSE]
    <3>1. u.round \in 0 .. MaxAttempts
      BY <1>6, TurnFields
    <3>2. v \in Turn
      BY <3>1 DEF Turn
    <3>3. v.round = u.round /\ v.by = u.by /\ v.of = u.round /\ v.error = TRUE
            /\ v.sql = u.sql
      BY DEF Turn
    <3>4. NextRound(q, v)
      BY <1>6, <2>1 DEF Invalid
    <3> HIDE DEF v
    <3>5. HeldGood(q, v) /\ q \notin Streamed
      BY <2>1, Kinds DEF HeldGood
    <3>6. QED
      BY <1>1, <1>6, <2>1, <3>2, <3>3, <3>4, <3>5, NextRoundGood
  <2>2. CASE q \notin Plain
    <3>1. NextRound(q, u) /\ HeldGood(q, u)
      BY <1>1, <1>6, <2>2 DEF Invalid, HeldGood
    <3>2. QED
      BY <1>1, <1>6, <2>2, <3>1, NextRoundGood
  <2>3. QED
    BY <2>1, <2>2
<1>7. CASE Goes(q, [e EXCEPT !.st = "refused"]) /\ q \in Streamed /\ UNCHANGED model
  <2> DEFINE x == [e EXCEPT !.st = "refused"]
  <2>1. x \in Turn
    BY <1>2, TurnFields, TurnWrite DEF Stage
  <2>2. x.st = "refused" /\ x.by = e.by
    BY <1>2 DEF Turn
  <2>3. Goes(q, x)
    BY <1>7
  <2> HIDE DEF x
  <2>4. RoundsGood(q, x) /\ PlacedGood(x)
    BY <1>1, <1>7, <2>2, Kinds DEF RoundsGood, ShownGood, PlacedGood
  <2>5. QED
    BY <1>1, <1>3, <1>7, <2>1, <2>2, <2>3, <2>4, MovesAlone
<1>8. QED
  BY <1>2, <1>3, <1>4, <1>5, <1>6, <1>7

\* No SQL and an error, or the error event of a stream.
LEMMA FailsMoves ==
  ASSUME Inv, NEW q \in Question, q \notin Typed, Fails(q),
         NEW m \in ModelState, model' = [model EXCEPT ![q] = m], m # "called"
  PROVE  TaskMoves(q)
<1> DEFINE x == IF q \in Plain
                  THEN [turn[q] EXCEPT !.st = "answered", !.sql = 0,
                                       !.of = 0, !.error = TRUE, !.ran = FALSE]
                  ELSE [turn[q] EXCEPT !.st = "refused"]
<1>1. turn[q] \in Turn /\ 0 \in 0 .. MaxAttempts
  BY TypesHold, AskingAssumption
<1>2. CASE q \in Plain
  <2>1. x \in Turn
    BY <1>1, <1>2 DEF Turn, Stage
  <2>2. x.st = "answered" /\ x.sql = 0 /\ x.of = 0 /\ x.error = TRUE /\ x.by = turn[q].by
    BY <1>1, <1>2 DEF Turn
  <2>3. Goes(q, x)
    BY DEF Fails
  <2> HIDE DEF x
  <2>4. RoundsGood(q, x) /\ PlacedGood(x)
    BY <1>2, <2>2, Kinds DEF RoundsGood, ShownGood, PlacedGood
  <2>5. QED
    BY <2>1, <2>2, <2>3, <2>4 DEF TaskMoves, Goes
<1>3. CASE q \notin Plain
  <2>1. x \in Turn
    BY <1>1, <1>3 DEF Turn, Stage
  <2>2. x.st = "refused" /\ x.by = turn[q].by
    BY <1>1, <1>3 DEF Turn
  <2>3. Goes(q, x)
    BY DEF Fails
  <2> HIDE DEF x
  <2>4. RoundsGood(q, x) /\ PlacedGood(x)
    BY <2>2 DEF RoundsGood, ShownGood, PlacedGood
  <2>5. QED
    BY <2>1, <2>2, <2>3, <2>4 DEF TaskMoves, Goes
<1>4. QED
  BY <1>2, <1>3

LEMMA NotGeneratedMoves ==
  ASSUME Inv, NEW q \in Question, NotGenerated(q)
  PROVE  TaskMoves(q)
<1>1. q \notin Typed /\ Fails(q) /\ model[q] = "failed" /\ model' = model
  BY TypesHold DEF NotGenerated, RoundsGood
<1>2. model' = [model EXCEPT ![q] = model[q]] /\ model[q] \in ModelState
  BY <1>1, TypesHold
<1>3. QED
  BY <1>1, <1>2, FailsMoves

LEMMA DropStops ==
  ASSUME Inv, NEW q \in Question, Drop(q)
  PROVE  \E m \in ModelState : m # "called" /\ model' = [model EXCEPT ![q] = m]
<1>1. model[q] \in ModelState
  BY TypesHold
<1>2. model' = [model EXCEPT ![q] = IF model[q] = "called" THEN "cancelled" ELSE model[q]]
  BY DEF Drop
<1>3. (IF model[q] = "called" THEN "cancelled" ELSE model[q]) \in ModelState \ {"called"}
  BY <1>1 DEF ModelState
<1>4. QED
  BY <1>2, <1>3

LEMMA TimeOutMoves ==
  ASSUME Inv, NEW q \in Question, TimeOut(q)
  PROVE  TaskMoves(q)
<1>1. q \notin Typed /\ Fails(q) /\ Drop(q)
  BY TypesHold DEF TimeOut, RoundsGood
<1>2. QED
  BY <1>1, DropStops, FailsMoves

LEMMA LeaveMoves ==
  ASSUME Inv, NEW q \in Question, Leave(q)
  PROVE  TaskMoves(q)
<1> DEFINE x == [turn[q] EXCEPT !.st = "left"]
<1>1. turn[q] \in Turn /\ "left" \in Stage
  BY TypesHold DEF Stage
<1>2. x \in Turn /\ x.st = "left" /\ x.by = turn[q].by /\ x.error = turn[q].error
  BY <1>1 DEF Turn
<1>3. Goes(q, x) /\ Drop(q) /\ q \in Streamed
  BY DEF Leave
<1> HIDE DEF x
<1>4. RoundsGood(q, x) /\ PlacedGood(x)
  BY <1>2, <1>3, Kinds DEF RoundsGood, ShownGood, PlacedGood
<1>5. PICK m \in ModelState : m # "called" /\ model' = [model EXCEPT ![q] = m]
  BY <1>3, DropStops
<1>6. QED
  BY <1>2, <1>3, <1>4, <1>5 DEF TaskMoves, Goes

LEMMA RunTypedMoves ==
  ASSUME Inv, NEW q \in Question, RunTyped(q)
  PROVE  TaskMoves(q)
<1> DEFINE x == [turn[q] EXCEPT !.st = "answered", !.of = 1, !.ran = TRUE]
           y == [turn[q] EXCEPT !.st = "refused"]
<1>1. /\ turn[q] \in Turn /\ q \in Typed /\ turn[q].st = "running" /\ UNCHANGED model
      /\ turn[q].sql = 1 /\ turn[q].error = FALSE /\ model[q] # "called"
  BY TypesHold, TurnFields DEF RunTyped, RoundsGood
<1>2. 1 \in 0 .. MaxAttempts
  BY AskingAssumption
<1>3. x \in Turn /\ y \in Turn
  BY <1>1, <1>2 DEF Turn, Stage
<1>4. /\ x.st = "answered" /\ x.sql = 1 /\ x.of = 1 /\ x.error = FALSE /\ x.by = turn[q].by
      /\ y.st = "refused" /\ y.error = FALSE /\ y.by = turn[q].by
  BY <1>1 DEF Turn
<1>5. Goes(q, x) \/ Goes(q, y)
  BY DEF RunTyped
<1> HIDE DEF x, y
<1>6. RoundsGood(q, x) /\ PlacedGood(x) /\ RoundsGood(q, y) /\ PlacedGood(y)
  BY <1>4 DEF RoundsGood, ShownGood, PlacedGood
<1>7. QED
  BY <1>1, <1>3, <1>4, <1>5, <1>6, MovesAlone

LEMMA RefuseMoves ==
  ASSUME Inv, NEW q \in Question, Refuse(q)
  PROVE  TaskMoves(q)
<1> DEFINE x == [turn[q] EXCEPT !.st = "refused"]
<1>1. turn[q] \in Turn /\ UNCHANGED model /\ model[q] # "called" /\ RoundsGood(q, turn[q])
  BY TypesHold DEF Refuse
<1>2. x \in Turn /\ x.st = "refused" /\ x.by = turn[q].by /\ x.error = turn[q].error
  BY <1>1 DEF Turn, Stage
<1>3. Goes(q, x)
  BY DEF Refuse
<1> HIDE DEF x
<1>4. RoundsGood(q, x) /\ PlacedGood(x)
  BY <1>1, <1>2 DEF RoundsGood, ShownGood, PlacedGood
<1>5. QED
  BY <1>1, <1>2, <1>3, <1>4, MovesAlone

LEMMA AskMoves ==
  ASSUME Inv, NEW q \in Question, Ask(q)
  PROVE  TaskMoves(q)
<1> DEFINE x == [turn[q] EXCEPT !.st = "generating", !.round = 1]
<1>1. /\ turn[q] \in Turn /\ q \notin Typed /\ turn[q].of = 0
      /\ model' = [model EXCEPT ![q] = "called"]
  BY TypesHold DEF Ask, RoundsGood
<1>2. 1 \in 0 .. MaxAttempts
  BY AskingAssumption
<1>3. x \in Turn
  BY <1>1, <1>2, TurnWrite DEF Stage
<1>4. x.st = "generating" /\ x.round = 1 /\ x.of = 0 /\ x.by = turn[q].by
  BY <1>1 DEF Turn
<1>5. Goes(q, x)
  BY DEF Ask
<1> HIDE DEF x
<1>6. RoundsGood(q, x) /\ PlacedGood(x)
  BY <1>1, <1>4 DEF RoundsGood, HeldGood, ShownGood, PlacedGood
<1>7. QED
  BY <1>1, <1>3, <1>4, <1>5, <1>6 DEF TaskMoves, Goes, ModelState

LEMMA TypeSqlMoves ==
  ASSUME Inv, NEW q \in Question, TypeSql(q)
  PROVE  TaskMoves(q)
<1> DEFINE x == [turn[q] EXCEPT !.st = "running", !.round = 1, !.sql = 1]
<1>1. /\ turn[q] \in Turn /\ q \in Typed /\ RoundsGood(q, turn[q]) /\ turn[q].error = FALSE
      /\ UNCHANGED model /\ model[q] # "called"
  BY TypesHold, TurnFields DEF TypeSql, RoundsGood
<1>2. 1 \in 0 .. MaxAttempts
  BY AskingAssumption
<1>3. x \in Turn
  BY <1>1, <1>2 DEF Turn, Stage
<1>4. /\ x.st = "running" /\ x.round = 1 /\ x.sql = 1 /\ x.by = turn[q].by
      /\ x.error = FALSE
  BY <1>1 DEF Turn
<1>5. Goes(q, x)
  BY DEF TypeSql
<1> HIDE DEF x
<1>6. RoundsGood(q, x) /\ PlacedGood(x)
  BY <1>1, <1>4, Kinds DEF RoundsGood, HeldGood, ShownGood, PlacedGood
<1>7. QED
  BY <1>1, <1>3, <1>4, <1>5, <1>6, MovesAlone

LEMMA GetLateMoves ==
  ASSUME Inv, NEW q \in Question, GetLate(q)
  PROVE  TaskMoves(q)
<1> DEFINE t == turn[q]
           x == [turn[q] EXCEPT !.late = TRUE]
<1>1. t \in Turn /\ RoundsGood(q, t) /\ PlacedGood(t) /\ UNCHANGED model
        /\ (model[q] = "called" => t.st = "generating")
  BY TypesHold DEF GetLate
<1>2. x \in Turn
  BY <1>1 DEF Turn
<1>3. /\ x.st = t.st /\ x.by = t.by /\ x.round = t.round /\ x.sql = t.sql /\ x.of = t.of
      /\ x.error = t.error /\ x.ran = t.ran /\ x.within = t.within
  BY <1>1 DEF Turn
<1>4. Goes(q, x)
  BY DEF GetLate
<1> HIDE DEF x
<1>5. RoundsGood(q, x) /\ PlacedGood(x)
  BY <1>1, <1>3 DEF RoundsGood, HeldGood, ShownGood, PlacedGood
<1>6. QED
  BY <1>1, <1>2, <1>3, <1>4, <1>5, MovesAlone

LEMMA ExecutedMoves ==
  ASSUME Inv, NEW q \in Question, Executed(q)
  PROVE  TaskMoves(q)
<1> DEFINE t == turn[q]
           x == [turn[q] EXCEPT !.st = "answered", !.of = turn[q].round,
                                !.error = FALSE, !.ran = TRUE]
<1>1. /\ t \in Turn /\ RoundsGood(q, t) /\ UNCHANGED model /\ t.st = "running"
      /\ q \notin Typed /\ model[q] # "called" /\ t.round \in 0 .. MaxAttempts
  BY TypesHold, TurnFields DEF Executed
<1>2. x \in Turn
  BY <1>1 DEF Turn, Stage
<1>3. /\ x.st = "answered" /\ x.by = t.by /\ x.sql = t.sql /\ x.of = t.round
      /\ x.error = FALSE
  BY <1>1 DEF Turn
<1>4. Goes(q, x)
  BY DEF Executed
<1>5. t.sql = t.round /\ t.round >= 1
  BY <1>1 DEF RoundsGood
<1> HIDE DEF x
<1>6. RoundsGood(q, x) /\ PlacedGood(x)
  BY <1>1, <1>3, <1>5 DEF RoundsGood, ShownGood, PlacedGood
<1>7. QED
  BY <1>1, <1>2, <1>3, <1>4, <1>6, MovesAlone

LEMMA NotExecutedMoves ==
  ASSUME Inv, NEW q \in Question, NotExecuted(q)
  PROVE  TaskMoves(q)
<1> DEFINE t == turn[q]
           v == [turn[q] EXCEPT !.of = turn[q].round, !.error = TRUE, !.ran = TRUE]
<1>1. /\ t \in Turn /\ RoundsGood(q, t) /\ t.st = "running" /\ q \notin Typed
      /\ model[q] # "called" /\ t.round \in 0 .. MaxAttempts
  BY TypesHold, TurnFields DEF NotExecuted
<1>2. CASE NextRound(q, v)
  <2>1. v \in Turn
    BY <1>1 DEF Turn
  <2>2. /\ v.by = t.by /\ v.round = t.round /\ v.of = t.round /\ v.error = TRUE
        /\ v.ran = TRUE /\ v.sql = t.sql
    BY <1>1 DEF Turn
  <2> HIDE DEF v
  <2>3. HeldGood(q, v) /\ v.round >= 1 /\ v.sql = v.round
    BY <1>1, <2>2 DEF HeldGood, RoundsGood
  <2>4. QED
    BY <1>1, <1>2, <2>1, <2>2, <2>3, NextRoundGood
<1>3. CASE Fails(q) /\ UNCHANGED model
  <2>1. model' = [model EXCEPT ![q] = model[q]] /\ model[q] \in ModelState
    BY <1>3, TypesHold
  <2>2. QED
    BY <1>1, <1>3, <2>1, FailsMoves
<1>4. QED
  BY <1>2, <1>3 DEF NotExecuted

LEMMA PlaceTurnMoves ==
  ASSUME Inv, NEW q \in Question, PlaceTurn(q)
  PROVE  TaskMoves(q)
<1> DEFINE t == turn[q]
           home == IF OwnedBy(t.within, t.by) THEN t.within ELSE NoConversation
           x == [turn[q] EXCEPT !.st = "saving", !.within =
                  IF OwnedBy(turn[q].within, turn[q].by) THEN turn[q].within
                  ELSE NoConversation]
           y == [turn[q] EXCEPT !.st = "replied"]
<1>1. /\ t \in Turn /\ RoundsGood(q, t) /\ t.st = "answered" /\ model[q] # "called"
      /\ UNCHANGED model /\ t.within \in Conversation \cup {NoConversation}
  BY TypesHold, TurnFields DEF PlaceTurn
<1>2. home \in Conversation \cup {NoConversation}
  BY <1>1
<1>3. x \in Turn /\ y \in Turn
  BY <1>1, <1>2 DEF Turn, Stage
<1>4. /\ x.st = "saving" /\ x.by = t.by /\ x.sql = t.sql /\ x.of = t.of /\ x.within = home
      /\ x.error = t.error /\ x.ran = t.ran
      /\ y.st = "replied" /\ y.by = t.by /\ y.sql = t.sql /\ y.of = t.of
      /\ y.error = t.error /\ y.ran = t.ran
  BY <1>1 DEF Turn
<1>5. (Saved(q) /\ Goes(q, x)) \/ Goes(q, y)
  BY DEF PlaceTurn
<1>6. home # NoConversation => talk[home].owner = t.by
  BY DEF OwnedBy
<1> HIDE DEF x, y, home
<1>7. RoundsGood(q, y) /\ PlacedGood(y) /\ PlacedGood(x)
  BY <1>1, <1>4, <1>6 DEF RoundsGood, ShownGood, PlacedGood
<1>8. Saved(q) => RoundsGood(q, x)
  BY <1>1, <1>4 DEF RoundsGood, ShownGood, Saved
<1>9. QED
  BY <1>1, <1>3, <1>4, <1>5, <1>7, <1>8, MovesAlone

LEMMA ModelRepliesMoves ==
  ASSUME Inv, NEW q \in Question, ModelReplies(q)
  PROVE  TaskMoves(q)
<1>1. /\ turn[q] \in Turn /\ RoundsGood(q, turn[q]) /\ PlacedGood(turn[q])
      /\ turn = [turn EXCEPT ![q] = turn[q]]
  BY TypesHold
<1>2. PICK m \in {"sent", "failed"} : model' = [model EXCEPT ![q] = m]
  BY DEF ModelReplies
<1>3. turn' = [turn EXCEPT ![q] = turn[q]]
  BY <1>1 DEF ModelReplies
<1>4. QED
  BY <1>1, <1>2, <1>3 DEF TaskMoves, ModelState

\* The turn that is saved carries the answer's SQL and rows, and belongs to a
\* conversation of the asker that is open at that moment, or to none.
LEMMA SaveQueryMoves ==
  ASSUME Inv, NEW q \in Question, SaveQuery(q)
  PROVE  /\ TaskMoves(q)
         /\ \/ history' = history
            \/ \E row \in Row :
                 /\ history' = [history EXCEPT ![q] = row] /\ RowGood(q, row)
                 /\ row.within # NoConversation => OwnedBy(row.within, turn[q].by)
<1> DEFINE t == turn[q]
           x == [turn[q] EXCEPT !.st = "replied"]
           row == [there |-> TRUE, sql |-> t.sql, within |-> t.within,
                   rows |-> IF t.error THEN 0 ELSE t.of]
<1>1. /\ t \in Turn /\ RoundsGood(q, t) /\ PlacedGood(t) /\ t.st = "saving"
      /\ model[q] # "called" /\ UNCHANGED model
      /\ t.sql \in 0 .. MaxAttempts /\ t.of \in 0 .. MaxAttempts
      /\ t.within \in Conversation \cup {NoConversation} /\ t.error \in BOOLEAN
  BY TypesHold, TurnFields DEF SaveQuery
<1>2. x \in Turn
  BY <1>1, TurnWrite DEF Stage
<1>3. /\ x.st = "replied" /\ x.by = t.by /\ x.sql = t.sql /\ x.of = t.of
      /\ x.error = t.error /\ x.ran = t.ran
  BY <1>1 DEF Turn
<1>4. Goes(q, x)
  BY DEF SaveQuery
<1>5. \/ history' = history
      \/ /\ history' = [history EXCEPT ![q] = row]
         /\ t.within # NoConversation => talk[t.within].life = "open"
  BY DEF SaveQuery
<1>6. row \in Row
  <2>1. (IF t.error THEN 0 ELSE t.of) \in 0 .. MaxAttempts
    BY <1>1, AskingAssumption
  <2>2. QED
    BY <1>1, <2>1 DEF Row
<1>7. row.within = t.within /\ row.sql = t.sql /\ row.rows = (IF t.error THEN 0 ELSE t.of)
  OBVIOUS
<1> HIDE DEF x, row
<1>8. RoundsGood(q, x) /\ PlacedGood(x)
  BY <1>1, <1>3 DEF RoundsGood, ShownGood, PlacedGood
<1>9. RowGood(q, row)
  BY <1>1, <1>7, Kinds DEF RowGood, RoundsGood, ShownGood
<1>10. t.within # NoConversation /\ talk[t.within].life = "open"
         => OwnedBy(t.within, t.by)
  BY <1>1 DEF PlacedGood, OwnedBy
<1>11. TaskMoves(q)
  BY <1>1, <1>2, <1>3, <1>4, <1>8, MovesAlone
<1>12. QED
  BY <1>5, <1>6, <1>7, <1>9, <1>10, <1>11

LEMMA QuestionsMove ==
  ASSUME Inv, NEW q \in Question,
         \/ Refuse(q) \/ Ask(q) \/ TypeSql(q) \/ GetLate(q) \/ ModelReplies(q)
         \/ Serve(q) \/ Leave(q)
  PROVE  TaskMoves(q)
<1>1. Serve(q) => TaskMoves(q)
  BY GeneratedMoves, NotGeneratedMoves, TimeOutMoves, ExecutedMoves, NotExecutedMoves,
     RunTypedMoves, PlaceTurnMoves, SaveQueryMoves DEF Serve
<1>2. QED
  BY <1>1, RefuseMoves, AskMoves, TypeSqlMoves, GetLateMoves, ModelRepliesMoves, LeaveMoves

-----------------------------------------------------------------------------
(* Conversations and turns.                                                *)

\* Which actions touch what.
LEMMA TurnsAlone ==
  ASSUME Inv, AskingNext
  PROVE  \/ turn' = turn /\ model' = model
         \/ \E q \in Question : TaskMoves(q) /\ talk' = talk
<1>1. ASSUME NEW q \in Question, DeleteHistoryEntry(q)
      PROVE  turn' = turn /\ model' = model
  BY <1>1 DEF DeleteHistoryEntry
<1>2. ASSUME ClearHistory \/ \E c \in Conversation : CreateConversation(c)
      PROVE  turn' = turn /\ model' = model
  BY <1>2 DEF ClearHistory, CreateConversation
<1>3. ASSUME NEW u \in Member,
             \/ \E c \in Conversation : DeleteConversation(u, c)
             \/ ClearConversations(u) \/ CommitPurge(u) \/ FailPurge(u)
      PROVE  turn' = turn /\ model' = model
  BY <1>3 DEF DeleteConversation, ClearConversations, BeginPurge, CommitPurge, FailPurge
<1>4. ASSUME NEW q \in Question,
             \/ Refuse(q) \/ Ask(q) \/ TypeSql(q) \/ GetLate(q) \/ ModelReplies(q)
             \/ Serve(q) \/ Leave(q)
      PROVE  talk' = talk
  BY <1>4 DEF Refuse, Ask, TypeSql, GetLate, ModelReplies, Serve, Leave, Generated,
              NotGenerated, TimeOut, Executed, NotExecuted, RunTyped, PlaceTurn, SaveQuery
<1>5. QED
  BY <1>1, <1>2, <1>3, <1>4, QuestionsMove DEF AskingNext

LEMMA TalksStep ==
  ASSUME Inv, AskingNext
  PROVE  /\ talk' \in [Conversation -> Talk]
         /\ \A c \in Conversation : talk'[c].owner = talk[c].owner
         /\ \/ \A c \in Conversation : talk[c].life = "open" => talk'[c].life = "open"
            \/ \E u \in Member : CommitPurge(u)
<1>1. talk \in [Conversation -> Talk]
  BY DEF Inv, AskingTypes
<1>2. ASSUME NEW c \in Conversation, CreateConversation(c)
      PROVE  /\ talk' \in [Conversation -> Talk]
             /\ \A d \in Conversation : talk'[d].owner = talk[d].owner
             /\ \A d \in Conversation : talk[d].life = "open" => talk'[d].life = "open"
  BY <1>1, <1>2 DEF CreateConversation, Talk
<1>3. ASSUME NEW u \in Member, CommitPurge(u)
      PROVE  /\ talk' \in [Conversation -> Talk]
             /\ \A d \in Conversation : talk'[d].owner = talk[d].owner
  <2>1. ASSUME NEW c \in Conversation
        PROVE  LET gone == [talk[c] EXCEPT !.life = "gone"]
               IN  gone \in Talk /\ gone.owner = talk[c].owner
    BY <1>1 DEF Talk
  <2>2. talk' = [c \in Conversation |->
          IF c \in Doomed(u) THEN [talk[c] EXCEPT !.life = "gone"] ELSE talk[c]]
    BY <1>3 DEF CommitPurge
  <2>3. QED
    BY <1>1, <2>1, <2>2
<1>4. ASSUME NEW q \in Question,
             \/ Refuse(q) \/ Ask(q) \/ TypeSql(q) \/ GetLate(q) \/ ModelReplies(q)
             \/ Serve(q) \/ Leave(q) \/ DeleteHistoryEntry(q)
      PROVE  talk' = talk
  BY <1>4 DEF Refuse, Ask, TypeSql, GetLate, ModelReplies, Serve, Leave, Generated,
              NotGenerated, TimeOut, Executed, NotExecuted, RunTyped, PlaceTurn, SaveQuery,
              DeleteHistoryEntry
<1>5. ClearHistory => talk' = talk
  BY DEF ClearHistory
<1>6. ASSUME NEW u \in Member,
             \/ \E c \in Conversation : DeleteConversation(u, c)
             \/ ClearConversations(u) \/ FailPurge(u)
      PROVE  talk' = talk
  BY <1>6 DEF DeleteConversation, ClearConversations, BeginPurge, FailPurge
<1>7. QED
  BY <1>1, <1>2, <1>3, <1>4, <1>5, <1>6 DEF AskingNext

\* The part of the invariant about questions.
LEMMA TurnsStep ==
  ASSUME Inv, AskingNext
  PROVE  /\ turn' \in [Question -> Turn] /\ model' \in [Question -> ModelState]
         /\ NoCallForNobody'
         /\ \A q \in Question : /\ RoundsGood(q, turn'[q]) /\ PlacedGood(turn[q])'
                                /\ turn'[q].by = turn[q].by
<1>1. ASSUME NEW t \in Turn, PlacedGood(t)
      PROVE  t.st = "saving" /\ t.within # NoConversation => talk'[t.within].owner = t.by
  BY <1>1, TalksStep, TurnFields DEF PlacedGood
<1>2. CASE turn' = turn /\ model' = model
  BY <1>1, <1>2, TypesHold DEF PlacedGood, NoCallForNobody, Inv, AskingTypes, ModelState
<1>3. ASSUME NEW q \in Question, TaskMoves(q), talk' = talk
      PROVE  /\ turn' \in [Question -> Turn] /\ model' \in [Question -> ModelState]
             /\ NoCallForNobody'
             /\ \A p \in Question : /\ RoundsGood(p, turn'[p]) /\ PlacedGood(turn[p])'
                                    /\ turn'[p].by = turn[p].by
  <2>1. PICK x \in Turn, m \in ModelState :
          /\ turn' = [turn EXCEPT ![q] = x] /\ model' = [model EXCEPT ![q] = m]
          /\ RoundsGood(q, x) /\ PlacedGood(x) /\ x.by = turn[q].by
          /\ m = "called" => x.st = "generating"
    BY <1>3 DEF TaskMoves
  <2>2. turn \in [Question -> Turn] /\ model \in [Question -> ModelState]
    BY DEF Inv, AskingTypes, ModelState
  <2>3. NoCallForNobody'
    BY <2>1, <2>2 DEF NoCallForNobody, Inv
  <2>4. ASSUME NEW p \in Question
        PROVE  RoundsGood(p, turn'[p]) /\ PlacedGood(turn[p])' /\ turn'[p].by = turn[p].by
    <3>1. turn'[p] = IF p = q THEN x ELSE turn[p]
      BY <2>1, <2>2
    <3>2. RoundsGood(p, turn[p]) /\ PlacedGood(turn[p]) /\ turn[p] \in Turn
      BY TypesHold
    <3>3. turn'[p] \in Turn /\ PlacedGood(turn'[p])
      BY <2>1, <3>1, <3>2
    <3>4. PlacedGood(turn[p])'
      BY <1>1, <3>3 DEF PlacedGood
    <3>5. QED
      BY <2>1, <3>1, <3>2, <3>4
  <2>5. QED
    BY <2>1, <2>2, <2>3, <2>4
<1>4. QED
  BY <1>2, <1>3, TurnsAlone

\* A row is as it should be, given who owns what.
RowHome(q, row) == row.within # NoConversation => OwnedBy(row.within, turn[q].by)

LEMMA NoRowGood ==
  /\ NoRow \in Row /\ NoRow.within = NoConversation
  /\ \A q \in Question : RowGood(q, NoRow)
  BY AskingAssumption DEF NoRow, Row, RowGood

LEMMA RowsAlone ==
  ASSUME AskingNext
  PROVE  \/ history' = history
         \/ \E q \in Question : SaveQuery(q) \/ DeleteHistoryEntry(q)
         \/ ClearHistory
         \/ \E u \in Member : CommitPurge(u)
<1>1. ASSUME NEW q \in Question,
             \/ Refuse(q) \/ Ask(q) \/ TypeSql(q) \/ GetLate(q) \/ ModelReplies(q)
             \/ Leave(q) \/ Generated(q) \/ NotGenerated(q) \/ TimeOut(q) \/ Executed(q)
             \/ NotExecuted(q) \/ RunTyped(q) \/ PlaceTurn(q)
      PROVE  history' = history
  BY <1>1 DEF Refuse, Ask, TypeSql, GetLate, ModelReplies, Leave, Generated,
              NotGenerated, TimeOut, Executed, NotExecuted, RunTyped, PlaceTurn
<1>2. ASSUME NEW c \in Conversation, CreateConversation(c)
      PROVE  history' = history
  BY <1>2 DEF CreateConversation
<1>3. ASSUME NEW u \in Member,
             \/ \E c \in Conversation : DeleteConversation(u, c)
             \/ ClearConversations(u) \/ FailPurge(u)
      PROVE  history' = history
  BY <1>3 DEF DeleteConversation, ClearConversations, BeginPurge, FailPurge
<1>4. QED
  BY <1>1, <1>2, <1>3 DEF AskingNext, Serve

\* Conversations keep their rows, or leave them unlinked.
LEMMA PurgeKeepsHomes ==
  ASSUME Inv, NEW u \in Member, CommitPurge(u)
  PROVE  /\ history' \in [Question -> Row]
         /\ \A q \in Question : RowGood(q, history'[q])
         /\ \A q \in Question : history'[q].within # NoConversation =>
              OwnedBy(history[q].within, turn[q].by)'
<1>1. ASSUME NEW q \in Question
      PROVE  LET cut == [history[q] EXCEPT !.within = NoConversation]
             IN  cut \in Row /\ cut.within = NoConversation /\ RowGood(q, cut)
  <2>1. history[q] \in Row /\ RowGood(q, history[q])
    BY TypesHold
  <2> DEFINE cut == [history[q] EXCEPT !.within = NoConversation]
  <2>2. /\ cut \in Row /\ cut.within = NoConversation /\ cut.there = history[q].there
        /\ cut.sql = history[q].sql /\ cut.rows = history[q].rows
    BY <2>1 DEF Row
  <2> HIDE DEF cut
  <2>3. RowGood(q, cut)
    BY <2>1, <2>2 DEF RowGood
  <2> USE DEF cut
  <2>4. QED
    BY <2>2, <2>3
<1>2. history' = [q \in Question |->
        IF q \in purge[u].rows THEN NoRow
        ELSE IF history[q].within \in Doomed(u)
               THEN [history[q] EXCEPT !.within = NoConversation]
        ELSE history[q]]
  BY DEF CommitPurge
<1>3. talk' = [c \in Conversation |->
        IF c \in Doomed(u) THEN [talk[c] EXCEPT !.life = "gone"] ELSE talk[c]]
  BY DEF CommitPurge
<1>4. turn' = turn
  BY DEF CommitPurge
<1>5. ASSUME NEW q \in Question
      PROVE  /\ history'[q] \in Row /\ RowGood(q, history'[q])
             /\ \/ history'[q].within = NoConversation
                \/ /\ history'[q].within = history[q].within
                   /\ history[q].within \notin Doomed(u)
  BY <1>1, <1>2, NoRowGood, TypesHold
<1>6. ASSUME NEW q \in Question, history'[q].within # NoConversation
      PROVE  OwnedBy(history[q].within, turn[q].by)'
  <2>1. history'[q].within = history[q].within /\ history[q].within \notin Doomed(u)
    BY <1>5, <1>6
  <2>2. OwnedBy(history[q].within, turn[q].by) /\ history[q].within \in Conversation
    BY <1>6, <2>1, TypesHold DEF Inv, TurnsOfTheirOwner, Row
  <2>3. talk'[history[q].within] = talk[history[q].within]
    BY <1>3, <2>1, <2>2
  <2>4. QED
    BY <1>4, <2>1, <2>2, <2>3 DEF OwnedBy
<1>7. history' \in [Question -> Row]
  <2>1. \A q \in Question : history'[q] \in Row
    BY <1>5
  <2>2. QED
    BY <1>2, <2>1
<1>8. QED
  BY <1>5, <1>6, <1>7

LEMMA RowsStep ==
  ASSUME Inv, AskingNext
  PROVE  /\ history' \in [Question -> Row]
         /\ \A q \in Question : RowGood(q, history'[q])
         /\ TurnsOfTheirOwner'
<1>1. /\ history \in [Question -> Row]
      /\ \A q \in Question : RowGood(q, history[q]) /\ RowHome(q, history[q])
  BY DEF Inv, AskingTypes, TurnsOfTheirOwner, RowHome
<1>2. CASE \E u \in Member : CommitPurge(u)
  BY <1>2, PurgeKeepsHomes DEF TurnsOfTheirOwner
<1>3. ASSUME \A c \in Conversation : talk[c].life = "open" => talk'[c].life = "open",
             NEW q \in Question, NEW row \in Row, RowHome(q, row)
      PROVE  row.within # NoConversation => OwnedBy(row.within, turn[q].by)'
  <2>1. SUFFICES ASSUME row.within # NoConversation
                 PROVE  OwnedBy(row.within, turn[q].by)'
    OBVIOUS
  <2>2. row.within \in Conversation /\ OwnedBy(row.within, turn[q].by)
    BY <1>3, <2>1 DEF Row, RowHome
  <2>3. talk'[row.within].life = "open" /\ talk'[row.within].owner = turn'[q].by
    BY <1>3, <2>2, TalksStep, TurnsStep DEF OwnedBy
  <2>4. QED
    BY <2>1, <2>3 DEF OwnedBy
<1>4. ASSUME \A c \in Conversation : talk[c].life = "open" => talk'[c].life = "open",
             history' \in [Question -> Row],
             \A q \in Question : RowHome(q, history'[q])
      PROVE  TurnsOfTheirOwner'
  <2>1. ASSUME NEW q \in Question
        PROVE  history'[q].within # NoConversation =>
                 OwnedBy(history[q].within, turn[q].by)'
    <3>1. history'[q] \in Row /\ RowHome(q, history'[q])
      BY <1>4
    <3>2. QED
      BY <1>3, <1>4, <3>1
  <2>2. QED
    BY <2>1 DEF TurnsOfTheirOwner
<1>5. CASE history' = history
  BY <1>1, <1>2, <1>4, <1>5, TalksStep
<1>6. ASSUME NEW q \in Question, SaveQuery(q)
      PROVE  /\ history' \in [Question -> Row]
             /\ \A p \in Question : RowGood(p, history'[p]) /\ RowHome(p, history'[p])
  BY <1>1, <1>6, SaveQueryMoves DEF RowHome
<1>7. ASSUME ClearHistory \/ \E q \in Question : DeleteHistoryEntry(q)
      PROVE  /\ history' \in [Question -> Row]
             /\ \A p \in Question : RowGood(p, history'[p]) /\ RowHome(p, history'[p])
  BY <1>1, <1>7, NoRowGood DEF ClearHistory, DeleteHistoryEntry, RowHome
<1>8. QED
  BY <1>2, <1>4, <1>5, <1>6, <1>7, RowsAlone, TalksStep

LEMMA PurgesStep ==
  ASSUME Inv, AskingNext
  PROVE  purge' \in [Member -> Purge]
<1>1. purge \in [Member -> Purge]
  BY DEF Inv, AskingTypes
<1>2. NoPurge \in Purge
  BY DEF NoPurge, Purge
<1>3. ASSUME NEW u \in Member, NEW all \in BOOLEAN, NEW cs \in SUBSET Conversation,
             BeginPurge(u, all, cs)
      PROVE  purge' \in [Member -> Purge]
  <2> DEFINE p == [on |-> TRUE, all |-> all, talks |-> cs,
       rows |-> {q \in Question : history[q].there /\ history[q].within \in cs}]
  <2>1. p \in Purge
    BY DEF Purge
  <2>2. purge' = [purge EXCEPT ![u] = p]
    BY <1>3 DEF BeginPurge
  <2>3. QED
    BY <1>1, <2>1, <2>2
<1>4. ASSUME NEW u \in Member,
             \/ \E c \in Conversation : DeleteConversation(u, c)
             \/ ClearConversations(u)
      PROVE  purge' \in [Member -> Purge]
  BY <1>3, <1>4 DEF DeleteConversation, ClearConversations
<1>5. ASSUME NEW u \in Member, CommitPurge(u) \/ FailPurge(u)
      PROVE  purge' \in [Member -> Purge]
  BY <1>1, <1>2, <1>5 DEF CommitPurge, FailPurge
<1>6. ASSUME NEW q \in Question,
             \/ Refuse(q) \/ Ask(q) \/ TypeSql(q) \/ GetLate(q) \/ ModelReplies(q)
             \/ Serve(q) \/ Leave(q) \/ DeleteHistoryEntry(q)
      PROVE  purge' = purge
  BY <1>6 DEF Refuse, Ask, TypeSql, GetLate, ModelReplies, Serve, Leave, Generated,
              NotGenerated, TimeOut, Executed, NotExecuted, RunTyped, PlaceTurn, SaveQuery,
              DeleteHistoryEntry
<1>7. ASSUME ClearHistory \/ \E c \in Conversation : CreateConversation(c)
      PROVE  purge' = purge
  BY <1>7 DEF ClearHistory, CreateConversation
<1>8. QED
  BY <1>1, <1>4, <1>5, <1>6, <1>7 DEF AskingNext

-----------------------------------------------------------------------------
(* The invariant.                                                          *)

LEMMA InvInit ==
  ASSUME AskingInit
  PROVE  Inv
<1>1. ASSUME NEW q \in Question
      PROVE  /\ turn[q] \in Turn /\ RoundsGood(q, turn[q]) /\ PlacedGood(turn[q])
  <2>1. /\ turn[q].st = "unasked" /\ turn[q].round = 0 /\ turn[q].of = 0
        /\ turn[q].error = FALSE
        /\ turn[q] \in [st : {"unasked"}, by : Member,
             within : Conversation \cup {NoConversation}, round : {0}, late : {FALSE},
             sql : {0}, of : {0}, error : {FALSE}, ran : {FALSE}]
    BY DEF AskingInit
  <2>2. turn[q] \in Turn
    <3>1. 0 \in 0 .. MaxAttempts
      BY AskingAssumption
    <3>2. QED
      BY <2>1, <3>1 DEF Turn, Stage
  <2>3. QED
    BY <2>1, <2>2 DEF RoundsGood, ShownGood, PlacedGood
<1>2. turn \in [Question -> Turn]
  BY <1>1 DEF AskingInit
<1>3. talk \in [Conversation -> Talk]
  BY DEF AskingInit, Talk
<1>4. purge \in [Member -> Purge]
  BY DEF AskingInit, Purge, NoPurge
<1>5. history \in [Question -> Row]
        /\ \A q \in Question : RowGood(q, history[q]) /\ history[q].within = NoConversation
  BY NoRowGood DEF AskingInit
<1>6. model \in [Question -> ModelState] /\ \A q \in Question : model[q] = "off"
  BY DEF AskingInit, ModelState
<1>7. AskingTypes
  BY <1>2, <1>3, <1>4, <1>5, <1>6 DEF AskingTypes, ModelState
<1>8. QED
  BY <1>1, <1>5, <1>6, <1>7 DEF Inv, NoCallForNobody, TurnsOfTheirOwner

LEMMA InvStep ==
  ASSUME Inv, [AskingNext]_askingVars
  PROVE  Inv'
<1>1. CASE AskingNext
  <2>1. AskingTypes'
    BY <1>1, TurnsStep, TalksStep, RowsStep, PurgesStep DEF AskingTypes, ModelState
  <2>2. \A q \in Question : /\ RoundsGood(q, turn[q])' /\ PlacedGood(turn[q])'
                            /\ RowGood(q, history[q])'
    BY <1>1, TurnsStep, RowsStep DEF RoundsGood, HeldGood, ShownGood, RowGood
  <2>3. QED
    BY <1>1, <2>1, <2>2, TurnsStep, RowsStep DEF Inv
<1>2. CASE UNCHANGED askingVars
  BY <1>2 DEF askingVars, Inv, AskingTypes, NoCallForNobody, TurnsOfTheirOwner, OwnedBy,
              RoundsGood, HeldGood, ShownGood, PlacedGood, RowGood
<1>3. QED
  BY <1>1, <1>2

LEMMA InvAlways == AskingSpec => []Inv
  BY InvInit, InvStep, PTL DEF AskingSpec

\* Questions, turns and deletions keep their types in every run: a question
\* takes no more rounds than _MAX_ATTEMPTS, however they fail.
THEOREM AskingTyped == AskingSpec => []AskingTypes
<1>1. Inv => AskingTypes
  BY DEF Inv
<1>2. QED
  BY <1>1, InvAlways, PTL

\* The model is called for a question that waits for it and for no other: one
\* whose reader left, or whose time is over, has no call in progress.
THEOREM CallsOwned == AskingSpec => []NoCallForNobody
<1>1. Inv => NoCallForNobody
  BY DEF Inv
<1>2. QED
  BY <1>1, InvAlways, PTL

\* However many rounds failed before, the rows of an answer, and of the turn
\* kept of it, are those its SQL fetched, and an error shown with SQL is that
\* SQL's or, in a stream, one the database gave to a round before.
THEOREM RowsOfTheSql == AskingSpec => []AnswerOfItsSql
<1>1. Inv => AnswerOfItsSql
  BY DEF Inv, RoundsGood, ShownGood, RowGood, AnswerOfItsSql
<1>2. QED
  BY <1>1, InvAlways, PTL

\* A turn is in a conversation that is there and that belongs to the member
\* who asked, whatever was deleted between the look and the save.
THEOREM TurnsStayHome == AskingSpec => []TurnsOfTheirOwner
<1>1. Inv => TurnsOfTheirOwner
  BY DEF Inv
<1>2. QED
  BY <1>1, InvAlways, PTL

-----------------------------------------------------------------------------
(* Questions end: what happens to a question takes it to a later round, or   *)
(* to a later stage of the round it is in, or tells it that it is late, or   *)
(* has its one call of the model return; a question that ended stays as it   *)
(* is.  As rounds are bounded (AskingTypes), this leaves a question so many  *)
(* steps and no more; that they are taken is up to fairness.                 *)

StageOf(t) ==
  CASE t.st = "generating" -> 1 [] t.st = "running" -> 2 [] t.st = "answered" -> 3
    [] t.st = "saving" -> 4 [] OTHER -> 5

TurnDescends(t, u) ==
  /\ t.st \notin Ended /\ u.st # "unasked"
  /\ \/ t.st = "unasked"
     \/ u.round > t.round
     \/ /\ u.round = t.round
        /\ \/ StageOf(u) > StageOf(t)
           \/ u.st = t.st /\ ~t.late /\ u.late

QuestionDescends(q) ==
  \/ TurnDescends(turn[q], turn'[q])
  \/ /\ turn'[q] = turn[q]
     /\ \/ model'[q] = model[q]
        \/ model[q] = "called" /\ model'[q] \in {"sent", "failed"}

\* A question takes a step, the others none.
LEMMA OneDescends ==
  ASSUME Inv, NEW q \in Question, NEW x, Goes(q, x), TurnDescends(turn[q], x),
         \/ UNCHANGED model
         \/ \E m \in ModelState : model' = [model EXCEPT ![q] = m]
  PROVE  \A p \in Question : QuestionDescends(p)
<1>1. turn \in [Question -> Turn] /\ model \in [Question -> ModelState]
  BY TypesHold DEF Inv, AskingTypes, ModelState
<1>2. turn'[q] = x /\ \A p \in Question \ {q} : turn'[p] = turn[p] /\ model'[p] = model[p]
  BY <1>1 DEF Goes
<1>3. QED
  BY <1>2 DEF QuestionDescends

\* Another stage of the same round.
LEMMA LaterStage ==
  ASSUME NEW t \in Turn, NEW x, x.round = t.round,
         \/ t.st = "generating" /\ x.st \in Stage \ {"unasked", "generating"}
         \/ t.st = "running" /\ x.st \in {"answered", "saving"} \cup Ended
         \/ t.st = "answered" /\ x.st \in {"saving"} \cup Ended
         \/ t.st = "saving" /\ x.st \in Ended
  PROVE  TurnDescends(t, x)
  BY DEF TurnDescends, StageOf, Stage, Ended

LEMMA NextRoundDescends ==
  ASSUME Inv, NEW q \in Question, NEW t \in Turn, t.round = turn[q].round,
         turn[q].st \in {"generating", "running"}, NextRound(q, t)
  PROVE  \A p \in Question : QuestionDescends(p)
<1>1. turn[q] \in Turn /\ t.round \in Nat
  BY TypesHold, TurnFields
<1>2. CASE t.round < MaxAttempts /\ (q \in Plain => ~t.late)
  <2> DEFINE x == [t EXCEPT !.st = "generating", !.round = t.round + 1]
  <2>1. x.round = t.round + 1
    BY DEF Turn
  <2>2. Goes(q, x) /\ model' = [model EXCEPT ![q] = "called"]
    BY <1>2 DEF NextRound
  <2>3. x.st = "generating"
    BY DEF Turn
  <2> HIDE DEF x
  <2>4. TurnDescends(turn[q], x)
    BY <1>1, <2>1, <2>3 DEF TurnDescends, Ended
  <2>5. QED
    BY <2>2, <2>4, OneDescends DEF ModelState
<1>3. CASE ~(t.round < MaxAttempts /\ (q \in Plain => ~t.late))
  <2> DEFINE st == IF q \in Streamed /\ t.of = 0 THEN "refused" ELSE "answered"
             x == [t EXCEPT !.st = st]
  <2>1. x.round = t.round /\ x.st = st /\ st \in {"refused", "answered"}
    BY DEF Turn
  <2>2. Goes(q, x) /\ UNCHANGED model
    BY <1>3 DEF NextRound
  <2> HIDE DEF x, st
  <2>3. TurnDescends(turn[q], x)
    BY <1>1, <2>1, LaterStage DEF Stage, Ended
  <2>4. QED
    BY <2>2, <2>3, OneDescends
<1>4. QED
  BY <1>2, <1>3

LEMMA FailsDescends ==
  ASSUME Inv, NEW q \in Question, turn[q].st \in {"generating", "running"}, Fails(q),
         \/ UNCHANGED model
         \/ \E m \in ModelState : model' = [model EXCEPT ![q] = m]
  PROVE  \A p \in Question : QuestionDescends(p)
<1> DEFINE t == turn[q]
           x == IF q \in Plain
                  THEN [t EXCEPT !.st = "answered", !.sql = 0,
                                 !.of = 0, !.error = TRUE, !.ran = FALSE]
                  ELSE [t EXCEPT !.st = "refused"]
<1>1. t \in Turn
  BY TypesHold
<1>2. x.round = t.round /\ x.st \in {"answered", "refused"}
  BY <1>1 DEF Turn
<1>3. Goes(q, x)
  BY DEF Fails
<1> HIDE DEF x
<1>4. TurnDescends(t, x)
  BY <1>1, <1>2, LaterStage DEF Stage, Ended
<1>5. QED
  BY <1>3, <1>4, OneDescends

LEMMA DropWrites ==
  ASSUME Inv, NEW q \in Question, Drop(q)
  PROVE  \E m \in ModelState : model' = [model EXCEPT ![q] = m]
<1>1. model[q] \in ModelState /\ "cancelled" \in ModelState
  BY TypesHold DEF ModelState
<1>2. QED
  BY <1>1 DEF Drop

LEMMA GeneratedDescends ==
  ASSUME Inv, NEW q \in Question, Generated(q)
  PROVE  \A p \in Question : QuestionDescends(p)
<1> DEFINE t == [turn[q] EXCEPT !.sql = turn[q].round]
           e == [turn[q] EXCEPT !.sql = 0]
           Held(u) == IF q \in Plain
                        THEN [u EXCEPT !.of = u.round, !.error = TRUE, !.ran = FALSE]
                        ELSE u
<1>1. turn[q] \in Turn /\ turn[q].st = "generating"
  BY TypesHold DEF Generated
<1>2. /\ t \in Turn /\ t.round = turn[q].round
      /\ e \in Turn /\ e.round = turn[q].round
  <2>1. turn[q].round \in 0 .. MaxAttempts /\ 0 \in 0 .. MaxAttempts
    BY <1>1, TurnFields, AskingAssumption
  <2>2. QED
    BY <1>1, <2>1 DEF Turn
<1>3. ASSUME NEW u \in Turn, u.round = turn[q].round, Invalid(q, u)
      PROVE  \A p \in Question : QuestionDescends(p)
  <2>1. Held(u) \in Turn /\ Held(u).round = u.round
    BY DEF Turn
  <2>2. NextRound(q, Held(u))
    BY <1>3 DEF Invalid
  <2> HIDE DEF Held
  <2>3. QED
    BY <1>1, <1>3, <2>1, <2>2, NextRoundDescends
<1>4. ASSUME NEW u \in Turn, u.round = turn[q].round, NEW st \in {"running", "refused"},
             Goes(q, [u EXCEPT !.st = st]), UNCHANGED model
      PROVE  \A p \in Question : QuestionDescends(p)
  <2> DEFINE x == [u EXCEPT !.st = st]
  <2>1. x.round = turn[q].round /\ x.st = st
    BY <1>4 DEF Turn
  <2> HIDE DEF x
  <2>2. TurnDescends(turn[q], x)
    BY <1>1, <2>1, LaterStage DEF Stage, Ended
  <2>3. QED
    BY <1>4, <2>2, OneDescends DEF x
<1>5. \/ Goes(q, [t EXCEPT !.st = "running"]) /\ UNCHANGED model
      \/ Invalid(q, t)
      \/ Invalid(q, e)
      \/ Goes(q, [e EXCEPT !.st = "refused"]) /\ UNCHANGED model
  BY DEF Generated
<1> HIDE DEF t, e
<1>6. QED
  BY <1>2, <1>3, <1>4, <1>5

LEMMA NotExecutedDescends ==
  ASSUME Inv, NEW q \in Question, NotExecuted(q)
  PROVE  \A p \in Question : QuestionDescends(p)
<1> DEFINE t == [turn[q] EXCEPT !.of = turn[q].round, !.error = TRUE, !.ran = TRUE]
<1>1. turn[q] \in Turn /\ turn[q].st = "running"
  BY TypesHold DEF NotExecuted
<1>2. t \in Turn /\ t.round = turn[q].round
  BY <1>1, TurnFields DEF Turn
<1>3. NextRound(q, t) \/ (Fails(q) /\ UNCHANGED model)
  BY DEF NotExecuted
<1> HIDE DEF t
<1>4. QED
  BY <1>1, <1>2, <1>3, NextRoundDescends, FailsDescends

\* Handlers that go on to one stage, whichever it is.
LEMMA ServedDescends ==
  ASSUME Inv, NEW q \in Question,
         \/ Refuse(q) \/ Ask(q) \/ TypeSql(q) \/ RunTyped(q) \/ Executed(q)
         \/ PlaceTurn(q) \/ SaveQuery(q) \/ Leave(q)
  PROVE  \A p \in Question : QuestionDescends(p)
<1> DEFINE t == turn[q]
<1>1. t \in Turn
  BY TypesHold
<1>2. ASSUME NEW x, Goes(q, x), TurnDescends(t, x), UNCHANGED model
      PROVE  \A p \in Question : QuestionDescends(p)
  BY <1>2, OneDescends
<1>3. CASE Refuse(q)
  <2>1. t.st = "unasked" /\ Goes(q, [t EXCEPT !.st = "refused"]) /\ UNCHANGED model
    BY <1>3 DEF Refuse
  <2>2. [t EXCEPT !.st = "refused"].st = "refused"
    BY <1>1 DEF Turn
  <2>3. QED
    BY <1>2, <2>1, <2>2 DEF TurnDescends, Ended
<1>4. CASE Ask(q)
  <2> DEFINE x == [t EXCEPT !.st = "generating", !.round = 1]
  <2>1. t.st = "unasked" /\ Goes(q, x) /\ model' = [model EXCEPT ![q] = "called"]
    BY <1>4 DEF Ask
  <2>2. x.st = "generating"
    BY <1>1 DEF Turn
  <2> HIDE DEF x
  <2>3. TurnDescends(t, x)
    BY <2>1, <2>2 DEF TurnDescends, Ended
  <2>4. QED
    BY <2>1, <2>3, OneDescends DEF ModelState
<1>5. CASE TypeSql(q)
  <2> DEFINE x == [t EXCEPT !.st = "running", !.round = 1, !.sql = 1]
  <2>1. t.st = "unasked" /\ Goes(q, x) /\ UNCHANGED model
    BY <1>5 DEF TypeSql
  <2>2. x.st = "running"
    BY <1>1 DEF Turn
  <2> HIDE DEF x
  <2>3. QED
    BY <1>2, <2>1, <2>2 DEF TurnDescends, Ended
<1>6. CASE RunTyped(q) \/ Executed(q)
  <2> DEFINE one == [t EXCEPT !.st = "answered", !.of = 1, !.ran = TRUE]
             shows == [t EXCEPT !.st = "answered", !.of = t.round,
                                !.error = FALSE, !.ran = TRUE]
             none == [t EXCEPT !.st = "refused"]
  <2>1. /\ one.round = t.round /\ one.st = "answered"
        /\ shows.round = t.round /\ shows.st = "answered"
        /\ none.round = t.round /\ none.st = "refused"
    BY <1>1 DEF Turn
  <2>2. t.st = "running" /\ (Goes(q, one) \/ Goes(q, shows) \/ Goes(q, none)) /\ UNCHANGED model
    BY <1>6 DEF RunTyped, Executed
  <2> HIDE DEF one, shows, none
  <2>3. TurnDescends(t, one) /\ TurnDescends(t, shows) /\ TurnDescends(t, none)
    BY <1>1, <2>1, <2>2, LaterStage DEF Ended
  <2>4. QED
    BY <1>2, <2>2, <2>3
<1>7. CASE PlaceTurn(q)
  <2> DEFINE c == IF OwnedBy(t.within, t.by) THEN t.within ELSE NoConversation
             x == [t EXCEPT !.st = "saving", !.within = c]
             y == [t EXCEPT !.st = "replied"]
  <2>1. /\ x.round = t.round /\ x.st = "saving"
        /\ y.round = t.round /\ y.st = "replied"
    BY <1>1 DEF Turn
  <2>2. t.st = "answered" /\ (Goes(q, x) \/ Goes(q, y)) /\ UNCHANGED model
    BY <1>7 DEF PlaceTurn
  <2> HIDE DEF x, y
  <2>3. TurnDescends(t, x) /\ TurnDescends(t, y)
    BY <1>1, <2>1, <2>2, LaterStage DEF Ended
  <2>4. QED
    BY <1>2, <2>2, <2>3
<1>8. CASE SaveQuery(q)
  <2> DEFINE x == [t EXCEPT !.st = "replied"]
  <2>1. x.round = t.round /\ x.st = "replied"
    BY <1>1 DEF Turn
  <2>2. t.st = "saving" /\ Goes(q, x) /\ UNCHANGED model
    BY <1>8 DEF SaveQuery
  <2> HIDE DEF x
  <2>3. TurnDescends(t, x)
    BY <1>1, <2>1, <2>2, LaterStage DEF Ended
  <2>4. QED
    BY <1>2, <2>2, <2>3
<1>9. CASE Leave(q)
  <2> DEFINE x == [t EXCEPT !.st = "left"]
  <2>1. x.round = t.round /\ x.st = "left"
    BY <1>1 DEF Turn
  <2>2. t.st \in Stage \ (Ended \cup {"unasked"}) /\ Goes(q, x) /\ Drop(q)
    BY <1>1, <1>9, TurnFields DEF Leave
  <2> HIDE DEF x
  <2>3. TurnDescends(t, x)
    BY <1>1, <2>1, <2>2, LaterStage DEF Stage, Ended
  <2>4. QED
    BY <2>2, <2>3, DropWrites, OneDescends
<1>10. QED
  BY <1>3, <1>4, <1>5, <1>6, <1>7, <1>8, <1>9

LEMMA LateDescends ==
  ASSUME Inv, NEW q \in Question, GetLate(q)
  PROVE  \A p \in Question : QuestionDescends(p)
<1> DEFINE t == turn[q]
           x == [t EXCEPT !.late = TRUE]
<1>1. t \in Turn /\ t.st \in {"generating", "running"} /\ ~t.late
        /\ Goes(q, x) /\ UNCHANGED model
  BY TypesHold DEF GetLate
<1>2. x.round = t.round /\ x.st = t.st /\ x.late = TRUE
  BY <1>1 DEF Turn
<1> HIDE DEF x
<1>3. TurnDescends(t, x)
  BY <1>1, <1>2 DEF TurnDescends, Ended
<1>4. QED
  BY <1>1, <1>3, OneDescends

\* Every step of a question, its own or its model's, is one that descends.
THEOREM QuestionsDescend ==
  AskingSpec => [][\A q \in Question : QuestionDescends(q)]_askingVars
<1> DEFINE Descend == \A q \in Question : QuestionDescends(q)
<1>1. ASSUME Inv, AskingNext PROVE Descend
  <2>1. ASSUME turn' = turn, model' = model PROVE Descend
    BY <2>1 DEF QuestionDescends
  <2>2. ASSUME NEW q \in Question, ModelReplies(q) PROVE Descend
    <3>1. PICK reply \in {"sent", "failed"} :
            model[q] = "called" /\ model' = [model EXCEPT ![q] = reply] /\ turn' = turn
      BY <2>2 DEF ModelReplies
    <3>2. model \in [Question -> ModelState]
      BY <1>1, <2>2, TypesHold
    <3>3. QED
      BY <3>1, <3>2 DEF QuestionDescends
  <2>3. ASSUME NEW q \in Question, NotGenerated(q) \/ TimeOut(q) PROVE Descend
    <3>1. turn[q].st = "generating" /\ Fails(q)
      BY <2>3 DEF NotGenerated, TimeOut
    <3>2. UNCHANGED model \/ Drop(q)
      BY <2>3 DEF NotGenerated, TimeOut
    <3>3. QED
      BY <1>1, <3>1, <3>2, DropWrites, FailsDescends
  <2>4. ASSUME NEW q \in Question, Serve(q) PROVE Descend
    BY <1>1, <2>3, <2>4, GeneratedDescends, NotExecutedDescends, ServedDescends DEF Serve
  <2>5. ASSUME NEW q \in Question, DeleteHistoryEntry(q)
        PROVE  turn' = turn /\ model' = model
    BY <2>5 DEF DeleteHistoryEntry
  <2>6. ASSUME ClearHistory \/ \E c \in Conversation : CreateConversation(c)
        PROVE  turn' = turn /\ model' = model
    BY <2>6 DEF ClearHistory, CreateConversation
  <2>7. ASSUME NEW u \in Member,
               \/ \E c \in Conversation : DeleteConversation(u, c)
               \/ ClearConversations(u) \/ CommitPurge(u) \/ FailPurge(u)
        PROVE  turn' = turn /\ model' = model
    BY <2>7 DEF DeleteConversation, ClearConversations, BeginPurge, CommitPurge, FailPurge
  <2> HIDE DEF Descend
  <2>8. ASSUME NEW q \in Question, Refuse(q) \/ Ask(q) \/ TypeSql(q) \/ Leave(q)
        PROVE  Descend
    BY <1>1, <2>8, ServedDescends DEF Descend
  <2>9. ASSUME NEW q \in Question, GetLate(q)
        PROVE  Descend
    BY <1>1, <2>9, LateDescends DEF Descend
  <2>10. QED
    BY <1>1, <2>1, <2>2, <2>4, <2>5, <2>6, <2>7, <2>8, <2>9 DEF AskingNext
<1>2. Inv /\ [AskingNext]_askingVars => [Descend]_askingVars
  BY <1>1
<1>3. QED
  BY <1>2, InvAlways, PTL DEF AskingSpec

-----------------------------------------------------------------------------
(***************************************************************************)
(* Slack's questions, for any number of commands, teams and installations  *)
(* in progress.                                                            *)
(*                                                                         *)
(* Slots are counted over the queries that run, a set that stays finite    *)
(* however many commands there are.  Nobody is left waiting because what   *)
(* is being posted has something to say (TaskGood), and because past the   *)
(* first cancellation only apologies are pending (ServerGood).             *)
(***************************************************************************)

Running == {k \in Command : command[k].st = "running"}

TaskGood(t) ==
  /\ t.st = "unsent" => t.times = 0
  /\ t.st = "posting" => t.body # "none"
  /\ t.st = "done" => t.heard # "none" \/ t.lost

ServerGood ==
  /\ server = "closing" =>
       \A k \in Command : command[k].st \in Pending => command[k].st = "sorry"
  /\ server = "down" => \A k \in Command : command[k].st \notin Pending

\* A workspace has one team.
OneTeam == \A t, o \in Team :
  t # o /\ install[t] = install[o] => install[t] = NoWorkspace

SlackInv ==
  /\ SlackTypes
  /\ IsFiniteSet(Running) /\ SlotsAccounted
  /\ \A k \in Command : TaskGood(command[k])
  /\ ServerGood
  /\ OneTeam

-----------------------------------------------------------------------------
(* Commands.                                                               *)

LEMMA TaskFields ==
  ASSUME NEW t \in Task
  PROVE  /\ t.team \in Team /\ t.times \in 0 .. 1
         /\ t.body \in {"none", "answer", "timeout", "error"}
         /\ t.heard \in {"none", "answer", "timeout", "error", "restarted"}
         /\ t.lost \in BOOLEAN
         /\ t.db \in Workspace \cup {NoWorkspace}
  BY DEF Task

LEMMA CommandHolds ==
  ASSUME SlackInv, NEW k \in Command
  PROVE  command[k] \in Task /\ TaskGood(command[k]) /\ command \in [Command -> Task]
  BY DEF SlackInv, SlackTypes

\* A query that was not running becomes something that is not running either.
Elsewhere(k) ==
  \E x \in Task :
    /\ command' = [command EXCEPT ![k] = x] /\ TaskGood(x) /\ free' = free
    /\ command[k].st # "running" /\ x.st # "running"
    /\ x.st \in Pending => server = "up" \/ command[k].st \in Pending
    /\ server = "closing" => x.st \notin Pending \/ x.st = "sorry"

LEMMA StartElsewhere ==
  ASSUME SlackInv, NEW k \in Command, NEW again \in BOOLEAN, Start(k, again)
  PROVE  Elsewhere(k)
<1> DEFINE w == Installed(k)
           t == [command[k] EXCEPT !.times = command[k].times + 1]
           x(st) == [t EXCEPT !.st = st, !.home = w, !.db = w]
           y == [t EXCEPT !.st = "turned away"]
<1>1. /\ command[k] \in Task /\ command[k].st = "unsent" /\ command[k].times = 0
      /\ server = "up" /\ free' = free
  BY CommandHolds DEF Start, Handled, TaskGood
<1>2. w \in Workspace \cup {NoWorkspace}
  BY <1>1, TaskFields DEF SlackInv, SlackTypes, Installed
<1>3. t \in Task /\ t.st = "unsent"
  <2>1. command[k].times + 1 \in 0 .. 1
    BY <1>1
  <2>2. QED
    BY <1>1, <2>1 DEF Task
<1>4. Becomes(k, y) \/ \E st \in {"queued", "offered"} : Becomes(k, x(st))
  BY DEF Start
<1> HIDE DEF t, w
<1>5. y \in Task /\ y.st = "turned away"
  BY <1>3 DEF Task
<1>6. ASSUME NEW st \in {"queued", "offered"} PROVE x(st) \in Task /\ x(st).st = st
  BY <1>2, <1>3, <1>6 DEF Task, Pending
<1> HIDE DEF x, y
<1>7. TaskGood(y) /\ \A st \in {"queued", "offered"} : TaskGood(x(st))
  BY <1>5, <1>6 DEF TaskGood
<1>8. CASE Becomes(k, y)
  BY <1>1, <1>5, <1>7, <1>8 DEF Elsewhere, Becomes, Pending
<1>9. ASSUME NEW st \in {"queued", "offered"}, Becomes(k, x(st)) PROVE Elsewhere(k)
  BY <1>1, <1>6, <1>7, <1>9 DEF Elsewhere, Becomes
<1>10. QED
  BY <1>4, <1>8, <1>9

LEMMA PickElsewhere ==
  ASSUME SlackInv, NEW k \in Command, Pick(k)
  PROVE  Elsewhere(k)
<1> DEFINE w == Installed(k)
           x == [command[k] EXCEPT !.st = "queued", !.home = w]
           y == [command[k] EXCEPT !.st = "turned away"]
<1>1. command[k] \in Task /\ command[k].st = "offered" /\ server = "up" /\ free' = free
  BY CommandHolds DEF Pick
<1>2. w \in Workspace \cup {NoWorkspace}
  BY <1>1, TaskFields DEF SlackInv, SlackTypes, Installed
<1>3. Becomes(k, y) \/ Becomes(k, x)
  BY DEF Pick
<1> HIDE DEF w
<1>4. x \in Task /\ x.st = "queued" /\ y \in Task /\ y.st = "turned away"
  BY <1>1, <1>2 DEF Task, Pending
<1> HIDE DEF x, y
<1>5. TaskGood(x) /\ TaskGood(y)
  BY <1>4 DEF TaskGood
<1>6. QED
  BY <1>1, <1>3, <1>4, <1>5 DEF Elsewhere, Becomes, Pending

LEMMA PostElsewhere ==
  ASSUME SlackInv, NEW k \in Command, PostResponse(k)
  PROVE  Elsewhere(k)
<1> DEFINE said == IF command[k].st = "sorry" THEN "restarted" ELSE command[k].body
           x == [command[k] EXCEPT !.st = "done", !.heard = said]
           y == [command[k] EXCEPT !.st = "done", !.lost = TRUE]
<1>1. /\ command[k] \in Task /\ TaskGood(command[k]) /\ free' = free
      /\ command[k].st \in {"posting", "sorry"}
  BY CommandHolds DEF PostResponse
<1>2. said # "none"
        /\ said \in {"none", "answer", "timeout", "error", "restarted"}
  BY <1>1, TaskFields DEF TaskGood
<1>3. Becomes(k, y) \/ Becomes(k, x)
  BY DEF PostResponse
<1> HIDE DEF said
<1>4. /\ x \in Task /\ x.st = "done" /\ x.heard = said
      /\ y \in Task /\ y.st = "done" /\ y.lost = TRUE
  BY <1>1, <1>2 DEF Task
<1> HIDE DEF x, y
<1>5. TaskGood(x) /\ TaskGood(y)
  BY <1>2, <1>4 DEF TaskGood
<1>6. QED
  BY <1>1, <1>3, <1>4, <1>5 DEF Elsewhere, Becomes, Pending

\* A query leaves its slot, or the queue, with something to say.
Leaves(k) ==
  \E x \in Task :
    /\ command' = [command EXCEPT ![k] = x] /\ TaskGood(x) /\ x.st = "posting"
    /\ command[k].st \in {"queued", "running"} /\ Release({k})

LEMMA RepliesLeaves ==
  ASSUME SlackInv, NEW k \in Command, NEW body \in {"answer", "timeout", "error"},
         command[k].st \in {"queued", "running"}, Replies(k, body)
  PROVE  Leaves(k)
<1> DEFINE x == [command[k] EXCEPT !.st = "posting", !.body = body]
<1>1. command[k] \in Task
  BY CommandHolds
<1>2. x \in Task /\ x.st = "posting" /\ x.body = body
  BY <1>1 DEF Task, Pending
<1>3. Becomes(k, x) /\ Release({k})
  BY DEF Replies
<1> HIDE DEF x
<1>4. TaskGood(x)
  BY <1>2 DEF TaskGood
<1>5. QED
  BY <1>2, <1>3, <1>4 DEF Leaves, Becomes

\* A command holds a slot.
Enters(k) ==
  \E x \in Task :
    /\ command' = [command EXCEPT ![k] = x] /\ TaskGood(x) /\ x.st = "running"
    /\ command[k].st = "queued" /\ free > 0 /\ free' = free - 1

LEMMA AcquireEnters ==
  ASSUME SlackInv, NEW k \in Command, Acquire(k)
  PROVE  Enters(k)
<1> DEFINE x == [command[k] EXCEPT !.st = "running"]
<1>1. command[k] \in Task
  BY CommandHolds
<1>2. x \in Task /\ x.st = "running"
  BY <1>1 DEF Task, Pending
<1>3. Becomes(k, x) /\ command[k].st = "queued" /\ free > 0 /\ free' = free - 1
  BY DEF Acquire
<1> HIDE DEF x
<1>4. TaskGood(x)
  BY <1>2 DEF TaskGood
<1>5. QED
  BY <1>2, <1>3, <1>4 DEF Enters, Becomes

\* What becomes of every task that is cancelled.
LEMMA CancelledTask ==
  ASSUME NEW t \in Task, TaskGood(t), t.st \in Pending, NEW x \in Cancelled(t)
  PROVE  /\ x \in Task /\ TaskGood(x)
         /\ \/ x.st = "sorry" /\ t.st \in {"queued", "running"}
            \/ x.st = "done" /\ t.st \in {"posting", "sorry"}
<1>1. CASE t.st \in {"queued", "running"}
  <2> DEFINE y == [t EXCEPT !.st = "sorry"]
  <2>1. x = y
    BY <1>1 DEF Cancelled
  <2>2. y \in Task /\ y.st = "sorry"
    BY DEF Task, Pending
  <2> HIDE DEF y
  <2>3. TaskGood(y)
    BY <2>2 DEF TaskGood
  <2>4. QED
    BY <1>1, <2>1, <2>2, <2>3
<1>2. CASE t.st \in {"posting", "sorry"}
  <2> DEFINE said == IF t.st = "sorry" THEN "restarted" ELSE t.body
             y == [t EXCEPT !.st = "done", !.lost = TRUE]
             z == [t EXCEPT !.st = "done", !.heard = said]
  <2>1. x = y \/ x = z
    BY <1>2 DEF Cancelled
  <2>2. said # "none" /\ said \in {"none", "answer", "timeout", "error", "restarted"}
    BY <1>2, TaskFields DEF TaskGood
  <2> HIDE DEF said
  <2>3. /\ y \in Task /\ y.st = "done" /\ y.lost = TRUE
        /\ z \in Task /\ z.st = "done" /\ z.heard = said
    BY <2>2 DEF Task
  <2> HIDE DEF y, z
  <2>4. TaskGood(y) /\ TaskGood(z)
    BY <2>2, <2>3 DEF TaskGood
  <2>5. QED
    BY <1>2, <2>1, <2>3, <2>4
<1>3. QED
  BY <1>1, <1>2 DEF Pending

-----------------------------------------------------------------------------
(* Slots.                                                                  *)

LEMMA SlotsElsewhere ==
  ASSUME SlackInv, NEW k \in Command, Elsewhere(k)
  PROVE  /\ command' \in [Command -> Task] /\ \A j \in Command : TaskGood(command'[j])
         /\ Running' = Running /\ free' = free
         /\ \A j \in Command : command'[j].st \in Pending =>
              server = "up" \/ command[j].st \in Pending
         /\ server = "closing" => \A j \in Command : command'[j].st \in Pending =>
              command'[j].st = "sorry"
<1>1. PICK x \in Task :
    /\ command' = [command EXCEPT ![k] = x] /\ TaskGood(x) /\ free' = free
    /\ command[k].st # "running" /\ x.st # "running"
    /\ x.st \in Pending => server = "up" \/ command[k].st \in Pending
    /\ server = "closing" => x.st \notin Pending \/ x.st = "sorry"
  BY DEF Elsewhere
<1>2. command \in [Command -> Task] /\ \A j \in Command : TaskGood(command[j])
  BY CommandHolds
<1>3. \A j \in Command : command'[j] = IF j = k THEN x ELSE command[j]
  BY <1>1, <1>2
<1>4. Running' = Running
  BY <1>1, <1>3 DEF Running
<1>5. server = "closing" => \A j \in Command : command'[j].st \in Pending =>
        command'[j].st = "sorry"
  BY <1>1, <1>3 DEF SlackInv, ServerGood
<1>6. QED
  BY <1>1, <1>2, <1>3, <1>4, <1>5

LEMMA SlotsLeave ==
  ASSUME SlackInv, NEW k \in Command, Leaves(k)
  PROVE  /\ command' \in [Command -> Task] /\ \A j \in Command : TaskGood(command'[j])
         /\ IsFiniteSet(Running') /\ free' + Cardinality(Running') = Slots
         /\ free' \in Nat
         /\ \A j \in Command : command'[j].st \in Pending => command[j].st \in Pending
         /\ server \notin {"closing", "down"}
<1>1. PICK x \in Task :
    /\ command' = [command EXCEPT ![k] = x] /\ TaskGood(x) /\ x.st = "posting"
    /\ command[k].st \in {"queued", "running"} /\ Release({k})
  BY DEF Leaves
<1>2. command \in [Command -> Task] /\ \A j \in Command : TaskGood(command[j])
  BY CommandHolds
<1>3. \A j \in Command : command'[j] = IF j = k THEN x ELSE command[j]
  BY <1>1, <1>2
<1>4. /\ IsFiniteSet(Running) /\ free + Cardinality(Running) = Slots /\ free \in Nat
      /\ Slots \in Nat
  BY SlackAssumption DEF SlackInv, SlotsAccounted, SlackTypes, Running
<1>5. server \notin {"closing", "down"}
  BY <1>1 DEF SlackInv, ServerGood, Pending
<1>6. CASE command[k].st = "running"
  <2>1. {j \in {k} : command[j].st = "running"} = {k}
    BY <1>6
  <2>2. free' = free + 1
    BY <1>1, <2>1, FS_Singleton DEF Release
  <2>3. Running' = Running \ {k} /\ k \in Running
    BY <1>1, <1>3, <1>6 DEF Running
  <2>4. IsFiniteSet(Running') /\ Cardinality(Running') = Cardinality(Running) - 1
    BY <1>4, <2>3, FS_RemoveElement
  <2>5. Cardinality(Running) \in Nat
    BY <1>4, FS_CardinalityType
  <2>6. QED
    BY <1>1, <1>2, <1>3, <1>4, <1>5, <2>2, <2>4, <2>5 DEF Pending
<1>7. CASE command[k].st = "queued"
  <2>1. {j \in {k} : command[j].st = "running"} = {}
    BY <1>7
  <2>2. free' = free + 0
    BY <1>1, <2>1, FS_EmptySet DEF Release
  <2>3. Running' = Running
    BY <1>1, <1>3, <1>7 DEF Running
  <2>4. QED
    BY <1>1, <1>2, <1>3, <1>4, <1>5, <2>2, <2>3 DEF Pending
<1>8. QED
  BY <1>1, <1>6, <1>7

LEMMA SlotsEnter ==
  ASSUME SlackInv, NEW k \in Command, Enters(k)
  PROVE  /\ command' \in [Command -> Task] /\ \A j \in Command : TaskGood(command'[j])
         /\ IsFiniteSet(Running') /\ free' + Cardinality(Running') = Slots
         /\ free' \in Nat
         /\ \A j \in Command : command'[j].st \in Pending => command[j].st \in Pending
         /\ server \notin {"closing", "down"}
<1>1. PICK x \in Task :
    /\ command' = [command EXCEPT ![k] = x] /\ TaskGood(x) /\ x.st = "running"
    /\ command[k].st = "queued" /\ free > 0 /\ free' = free - 1
  BY DEF Enters
<1>2. command \in [Command -> Task] /\ \A j \in Command : TaskGood(command[j])
  BY CommandHolds
<1>3. \A j \in Command : command'[j] = IF j = k THEN x ELSE command[j]
  BY <1>1, <1>2
<1>4. /\ IsFiniteSet(Running) /\ free + Cardinality(Running) = Slots /\ free \in Nat
      /\ Slots \in Nat
  BY SlackAssumption DEF SlackInv, SlotsAccounted, SlackTypes, Running
<1>5. server \notin {"closing", "down"}
  BY <1>1 DEF SlackInv, ServerGood, Pending
<1>6. Running' = Running \cup {k} /\ k \notin Running
  BY <1>1, <1>3 DEF Running
<1>7. IsFiniteSet(Running') /\ Cardinality(Running') = Cardinality(Running) + 1
  BY <1>4, <1>6, FS_AddElement
<1>8. Cardinality(Running) \in Nat
  BY <1>4, FS_CardinalityType
<1>9. QED
  BY <1>1, <1>2, <1>3, <1>4, <1>5, <1>7, <1>8 DEF Pending

LEMMA SlotsCancel ==
  ASSUME SlackInv, CancelPending
  PROVE  /\ command' \in [Command -> Task] /\ \A j \in Command : TaskGood(command'[j])
         /\ Running' = {} /\ free' = Slots
         /\ \A j \in Command :
              command'[j].st \in Pending => /\ command'[j].st = "sorry"
                                            /\ command[j].st \in {"queued", "running"}
<1>1. \A k \in Command : command[k] \in Task /\ TaskGood(command[k])
  BY CommandHolds
<1>2. \E s : command' \in [Command -> s]
  BY DEF CancelPending
<1>3. \A k \in Command :
        command'[k] \in IF k \in PendingTasks THEN Cancelled(command[k]) ELSE {command[k]}
  BY DEF CancelPending
<1>4. ASSUME NEW k \in Command
      PROVE  /\ command'[k] \in Task /\ TaskGood(command'[k])
             /\ command'[k].st \in Pending => /\ command'[k].st = "sorry"
                                              /\ command[k].st \in {"queued", "running"}
             /\ command'[k].st # "running"
  <2>1. CASE k \in PendingTasks
    <3>1. command'[k] \in Cancelled(command[k]) /\ command[k].st \in Pending
      BY <1>3, <2>1 DEF PendingTasks
    <3>2. QED
      BY <1>1, <3>1, CancelledTask DEF Pending
  <2>2. CASE k \notin PendingTasks
    BY <1>1, <1>3, <2>2 DEF PendingTasks, Pending
  <2>3. QED
    BY <2>1, <2>2
<1>5. Running' = {}
  BY <1>4 DEF Running
<1>6. {k \in PendingTasks : command[k].st = "running"} = Running
  BY DEF PendingTasks, Pending, Running
<1>7. free' = free + Cardinality(Running)
  BY <1>6 DEF CancelPending, Release
<1>8. free' = Slots
  BY <1>7 DEF SlackInv, SlotsAccounted, Running
<1>9. QED
  BY <1>2, <1>4, <1>5, <1>8

\* Which actions touch what.
LEMMA CommandsAlone ==
  ASSUME SlackInv, SlackNext
  PROVE  \/ command' = command /\ free' = free /\ (server' = server \/ Shutdown)
         \/ /\ server' = server
            /\ \E k \in Command : Elsewhere(k) \/ Leaves(k) \/ Enters(k)
         \/ GiveUp \/ Close
<1>1. ASSUME NEW k \in Command, NEW again \in BOOLEAN,
             Start(k, again) \/ Pick(k) \/ PostResponse(k)
      PROVE  Elsewhere(k) /\ server' = server
  BY <1>1, StartElsewhere, PickElsewhere, PostElsewhere DEF Start, Pick, PostResponse
<1>2. ASSUME NEW k \in Command, Answer(k) \/ Fail(k) \/ TimeOutQuery(k)
      PROVE  Leaves(k) /\ server' = server
  <2>1. \E body \in {"answer", "timeout", "error"} :
          Replies(k, body) /\ command[k].st \in {"queued", "running"}
    BY <1>2 DEF Answer, Fail, TimeOutQuery
  <2>2. QED
    BY <2>1, RepliesLeaves DEF Replies
<1>3. ASSUME NEW k \in Command, Acquire(k)
      PROVE  Enters(k) /\ server' = server
  BY <1>3, AcquireEnters DEF Acquire
<1>4. ASSUME \/ Shutdown
             \/ \E w \in Workspace : Reconnect(w)
             \/ \E i \in Install : \/ \E t \in Team, w \in Workspace : BeginInstall(i, t, w)
                                   \/ CommitInstall(i)
             \/ \E t \in Team : Uninstall(t)
      PROVE  command' = command /\ free' = free /\ (server' = server \/ Shutdown)
  BY <1>4 DEF Shutdown, Reconnect, BeginInstall, CommitInstall, Uninstall
<1>5. QED
  BY <1>1, <1>2, <1>3, <1>4 DEF SlackNext

LEMMA CommandsStep ==
  ASSUME SlackInv, SlackNext
  PROVE  /\ command' \in [Command -> Task] /\ \A k \in Command : TaskGood(command'[k])
         /\ IsFiniteSet(Running') /\ free' \in Nat
         /\ free' + Cardinality(Running') = Slots
         /\ server' \in {"up", "draining", "closing", "down"}
         /\ ServerGood'
<1>1. /\ command \in [Command -> Task] /\ \A k \in Command : TaskGood(command[k])
      /\ IsFiniteSet(Running) /\ free \in Nat /\ Slots \in Nat
      /\ free + Cardinality(Running) = Slots
      /\ server \in {"up", "draining", "closing", "down"} /\ ServerGood
  BY SlackAssumption DEF SlackInv, SlackTypes, SlotsAccounted, Running
<1>2. CASE command' = command /\ free' = free /\ (server' = server \/ Shutdown)
  <2>1. Running' = Running
    BY <1>2 DEF Running
  <2>2. server' \in {"up", "draining", "closing", "down"} /\ ServerGood'
    BY <1>1, <1>2 DEF ServerGood, Shutdown
  <2>3. QED
    BY <1>1, <1>2, <2>1, <2>2
<1>3. ASSUME NEW k \in Command, Elsewhere(k), server' = server
      PROVE  /\ command' \in [Command -> Task] /\ \A j \in Command : TaskGood(command'[j])
             /\ Running' = Running /\ free' = free /\ ServerGood'
  <2>1. ServerGood'
    BY <1>1, <1>3, SlotsElsewhere DEF ServerGood
  <2>2. QED
    BY <1>3, <2>1, SlotsElsewhere
<1>4. ASSUME NEW k \in Command, Leaves(k) \/ Enters(k), server' = server
      PROVE  /\ command' \in [Command -> Task] /\ \A j \in Command : TaskGood(command'[j])
             /\ IsFiniteSet(Running') /\ free' \in Nat
             /\ free' + Cardinality(Running') = Slots /\ ServerGood'
  <2>1. server' \notin {"closing", "down"}
    BY <1>4, SlotsLeave, SlotsEnter
  <2>2. QED
    BY <1>4, <2>1, SlotsLeave, SlotsEnter DEF ServerGood
<1>5. ASSUME GiveUp \/ Close
      PROVE  /\ command' \in [Command -> Task] /\ \A j \in Command : TaskGood(command'[j])
             /\ Running' = {} /\ free' = Slots
             /\ server' \in {"up", "draining", "closing", "down"} /\ ServerGood'
  <2>1. CancelPending
    BY <1>5 DEF GiveUp, Close
  <2>2. CASE GiveUp
    BY <2>1, <2>2, SlotsCancel DEF GiveUp, ServerGood
  <2>3. CASE Close
    <3>1. \A k \in Command : command[k].st \notin {"queued", "running"}
      BY <1>1, <2>3 DEF Close, PendingTasks, Pending, ServerGood
    <3>2. server' = "down"
      BY <2>3 DEF Close
    <3>3. QED
      BY <2>1, <3>1, <3>2, SlotsCancel DEF ServerGood
  <2>4. QED
    BY <1>5, <2>1, <2>2, <2>3, SlotsCancel
<1>6. IsFiniteSet({}) /\ Cardinality({}) = 0
  BY FS_EmptySet
<1>7. CASE \E k \in Command : (Elsewhere(k) \/ Leaves(k) \/ Enters(k)) /\ server' = server
  BY <1>1, <1>3, <1>4, <1>7
<1>8. CASE GiveUp \/ Close
  BY <1>1, <1>5, <1>6, <1>8
<1>9. QED
  BY <1>2, <1>7, <1>8, CommandsAlone

-----------------------------------------------------------------------------
(* Installations.                                                          *)

LEMMA NotSavingTyped == NotSaving \in Saving
<1>1. (CHOOSE t \in Team : TRUE) \in Team /\ (CHOOSE w \in Workspace : TRUE) \in Workspace
  BY SlackAssumption
<1>2. QED
  BY <1>1 DEF NotSaving, Saving

LEMMA CommitInstallKeeps ==
  ASSUME SlackInv, NEW i \in Install, CommitInstall(i)
  PROVE  /\ install' \in [Team -> Workspace \cup {NoWorkspace}]
         /\ InstallationsStay /\ OneTeam'
<1> DEFINE t == saving[i].team
           w == saving[i].for
           old == saving[i].old
<1>1. /\ t \in Team /\ w \in Workspace /\ NoWorkspace \notin Workspace
      /\ install \in [Team -> Workspace \cup {NoWorkspace}]
  BY SlackAssumption DEF SlackInv, SlackTypes, Saving
<1>2. \/ install' = install
      \/ /\ install[t] \in {NoWorkspace, w}
         /\ \A o \in Team \ (old \cup {t}) : install[o] # w
         /\ install' = [o \in Team |->
              IF o = t THEN w
              ELSE IF o \in old /\ install[o] = w THEN NoWorkspace ELSE install[o]]
  BY DEF CommitInstall, Allowed
<1>3. \A o, p \in Team : o # p /\ install[o] = install[p] => install[o] = NoWorkspace
  BY DEF SlackInv, OneTeam
<1> HIDE DEF t, w, old
<1>4. CASE install' = install
  BY <1>1, <1>3, <1>4 DEF InstallationsStay, OneTeam
<1>5. CASE install' # install
  <2>1. install' \in [Team -> Workspace \cup {NoWorkspace}]
    BY <1>1, <1>2, <1>5
  <2>2. \A o \in Team : install[o] # NoWorkspace /\ install'[o] # NoWorkspace
                          => install'[o] = install[o]
    BY <1>1, <1>2, <1>5
  <2>3. \A o \in Team : o # t => install'[o] # w
    BY <1>1, <1>2, <1>5
  <2>4. install'[t] = w
    BY <1>1, <1>2, <1>5
  <2>5. \A o \in Team : o # t => install'[o] \in {install[o], NoWorkspace}
    BY <1>1, <1>2, <1>5
  <2>6. ASSUME NEW o \in Team, NEW p \in Team, o # p, install'[o] = install'[p]
        PROVE  install'[o] = NoWorkspace
    <3>1. o # t /\ p # t
      BY <2>3, <2>4, <2>6
    <3>2. QED
      BY <1>3, <2>5, <2>6, <3>1
  <2>7. QED
    BY <2>1, <2>2, <2>6 DEF InstallationsStay, OneTeam
<1>6. QED
  BY <1>4, <1>5

LEMMA InstallsStep ==
  ASSUME SlackInv, SlackNext
  PROVE  /\ install' \in [Team -> Workspace \cup {NoWorkspace}]
         /\ connected' \subseteq Workspace /\ saving' \in [Install -> Saving]
         /\ InstallationsStay /\ OneTeam'
<1>1. /\ install \in [Team -> Workspace \cup {NoWorkspace}] /\ OneTeam
      /\ connected \subseteq Workspace /\ saving \in [Install -> Saving]
  BY DEF SlackInv, SlackTypes
<1>2. install' = install => InstallationsStay /\ OneTeam'
  BY <1>1 DEF InstallationsStay, OneTeam
<1>3. ASSUME NEW k \in Command, NEW again \in BOOLEAN,
             \/ Start(k, again) \/ Pick(k) \/ Acquire(k) \/ Answer(k) \/ Fail(k)
             \/ TimeOutQuery(k) \/ PostResponse(k)
      PROVE  install' = install /\ connected' = connected /\ saving' = saving
  BY <1>3 DEF Start, Pick, Acquire, Answer, Fail, TimeOutQuery, PostResponse, Replies
<1>4. ASSUME Shutdown \/ GiveUp \/ Close
      PROVE  install' = install /\ connected' = connected /\ saving' = saving
  BY <1>4 DEF Shutdown, GiveUp, Close, CancelPending
<1>5. ASSUME NEW w \in Workspace, Reconnect(w)
      PROVE  install' = install /\ connected' \subseteq Workspace /\ saving' = saving
  BY <1>1, <1>5 DEF Reconnect
<1>6. ASSUME NEW i \in Install, NEW t \in Team, NEW w \in Workspace, BeginInstall(i, t, w)
      PROVE  install' = install /\ connected' = connected /\ saving' \in [Install -> Saving]
  <2>1. [on |-> TRUE, team |-> t, for |-> w,
         old |-> {o \in Team \ {t} : install[o] = w}] \in Saving
    BY DEF Saving
  <2>2. QED
    BY <1>1, <1>6, <2>1 DEF BeginInstall
<1>7. ASSUME NEW i \in Install, CommitInstall(i)
      PROVE  connected' = connected /\ saving' \in [Install -> Saving]
  BY <1>1, <1>7, NotSavingTyped DEF CommitInstall
<1>8. ASSUME NEW t \in Team, Uninstall(t)
      PROVE  /\ install' \in [Team -> Workspace \cup {NoWorkspace}]
             /\ InstallationsStay /\ OneTeam'
             /\ connected' = connected /\ saving' = saving
  <2>1. install' = [install EXCEPT ![t] = NoWorkspace]
    BY <1>8 DEF Uninstall
  <2>2. \A o \in Team : install'[o] = IF o = t THEN NoWorkspace ELSE install[o]
    BY <1>1, <2>1
  <2>3. InstallationsStay /\ OneTeam'
    BY <1>1, <2>2 DEF InstallationsStay, OneTeam
  <2>4. QED
    BY <1>1, <1>8, <2>1, <2>3 DEF Uninstall
<1>9. QED
  BY <1>1, <1>2, <1>3, <1>4, <1>5, <1>6, <1>7, <1>8, CommitInstallKeeps DEF SlackNext

-----------------------------------------------------------------------------
(* The invariant.                                                          *)

LEMMA SlotsBound ==
  ASSUME NEW n \in Nat, NEW S, IsFiniteSet(S), n + Cardinality(S) = Slots
  PROVE  n \in 0 .. Slots
  BY FS_CardinalityType, SlackAssumption

LEMMA SlackInvInit ==
  ASSUME SlackInit
  PROVE  SlackInv
<1>1. ASSUME NEW k \in Command
      PROVE  command[k] \in Task /\ TaskGood(command[k]) /\ command[k].st = "unsent"
  <2>1. PICK t \in Team : command[k] = Fresh(t)
    BY DEF SlackInit
  <2>2. Fresh(t) \in Task /\ Fresh(t).st = "unsent" /\ Fresh(t).times = 0
    BY DEF Fresh, Task
  <2>3. QED
    BY <2>1, <2>2 DEF TaskGood
<1>2. command \in [Command -> Task]
  BY <1>1 DEF SlackInit
<1>3. Running = {} /\ free = Slots
  BY <1>1 DEF Running, SlackInit
<1>4. IsFiniteSet(Running) /\ SlotsAccounted /\ free \in 0 .. Slots
  BY <1>3, FS_EmptySet, SlackAssumption DEF SlotsAccounted, Running
<1>5. install \in [Team -> Workspace \cup {NoWorkspace}] /\ OneTeam
        /\ connected \subseteq Workspace /\ saving \in [Install -> Saving]
  BY NotSavingTyped DEF SlackInit, OneTeam
<1>6. server = "up"
  BY DEF SlackInit
<1>7. QED
  BY <1>1, <1>2, <1>4, <1>5, <1>6 DEF SlackInv, SlackTypes, ServerGood

LEMMA SlackInvStep ==
  ASSUME SlackInv, [SlackNext]_slackVars
  PROVE  SlackInv'
<1>1. CASE SlackNext
  <2>1. free' \in 0 .. Slots
    BY <1>1, CommandsStep, SlotsBound
  <2>2. SlackTypes'
    BY <1>1, <2>1, CommandsStep, InstallsStep DEF SlackTypes
  <2>3. SlotsAccounted'
    BY <1>1, CommandsStep DEF SlotsAccounted, Running
  <2>4. \A k \in Command : TaskGood(command[k])'
    BY <1>1, CommandsStep DEF TaskGood
  <2>5. QED
    BY <1>1, <2>2, <2>3, <2>4, CommandsStep, InstallsStep DEF SlackInv
<1>2. CASE UNCHANGED slackVars
  BY <1>2 DEF slackVars, SlackInv, SlackTypes, Running, SlotsAccounted, TaskGood, ServerGood,
              OneTeam
<1>3. QED
  BY <1>1, <1>2

LEMMA SlackInvAlways == SlackSpec => []SlackInv
  BY SlackInvInit, SlackInvStep, PTL DEF SlackSpec

\* Commands, slots and installations keep their types in every run: a command
\* that Slack delivers again is handled once, and slots are never over-released.
THEOREM SlackTyped == SlackSpec => []SlackTypes
<1>1. SlackInv => SlackTypes
  BY DEF SlackInv
<1>2. QED
  BY <1>1, SlackInvAlways, PTL

\* Every slot that is not free is held by a query that runs, whichever way
\* queries end: no slot leaks, none is given twice.
THEOREM SlotsHeld == SlackSpec => []SlotsAccounted
<1>1. SlackInv => SlotsAccounted
  BY DEF SlackInv
<1>2. QED
  BY <1>1, SlackInvAlways, PTL

\* The drain tells everyone whose command was accepted, or has lost a message
\* on its way, and no task outlives the loop.
THEOREM EveryoneTold == SlackSpec => []NobodyLeftWaiting
<1>1. SlackInv => NobodyLeftWaiting
  BY DEF SlackInv, TaskGood, ServerGood, NobodyLeftWaiting
<1>2. QED
  BY <1>1, SlackInvAlways, PTL

\* No installation takes a team from the workspace that has it, and no
\* workspace gets two teams, however many callbacks are in progress.
THEOREM InstallsHeld == SlackSpec => InstallationsHeld
<1>1. SlackInv /\ [SlackNext]_slackVars => [InstallationsStay]_slackVars
  BY InstallsStep
<1>2. QED
  BY <1>1, SlackInvAlways, PTL DEF SlackSpec, InstallationsHeld

-----------------------------------------------------------------------------
(* Commands end: what happens to a command takes it to a later stage, and    *)
(* what happens to another leaves it alone.  There are five steps at most    *)
(* from the command to the end of its task; that they are taken is up to     *)
(* fairness.                                                                 *)

CommandStage(t) ==
  CASE t.st = "unsent" -> 0 [] t.st = "offered" -> 1 [] t.st = "queued" -> 2
    [] t.st = "running" -> 3 [] t.st \in {"posting", "sorry"} -> 4 [] OTHER -> 5

CommandDescends(k) ==
  command'[k] = command[k] \/ CommandStage(command'[k]) > CommandStage(command[k])

\* A command moves on, the others stay.
LEMMA OneMovesOn ==
  ASSUME SlackInv, NEW k \in Command, NEW x, Becomes(k, x),
         CommandStage(x) > CommandStage(command[k])
  PROVE  \A j \in Command : CommandDescends(j)
<1>1. command'[k] = x /\ \A j \in Command \ {k} : command'[j] = command[j]
  BY CommandHolds DEF Becomes
<1>2. QED
  BY <1>1 DEF CommandDescends

LEMMA TurnedAway ==
  ASSUME NEW x, x.st = "turned away" PROVE CommandStage(x) = 5
  BY Zenon DEF CommandStage

LEMMA LaterStages ==
  ASSUME NEW t, NEW x,
         \/ t.st = "unsent" /\ x.st \in {"queued", "offered"}
         \/ t.st = "offered" /\ x.st = "queued"
         \/ t.st \in {"unsent", "offered"} /\ CommandStage(x) = 5
         \/ t.st = "queued" /\ x.st \in {"running", "posting", "sorry"}
         \/ t.st = "running" /\ x.st \in {"posting", "sorry"}
         \/ t.st \in {"posting", "sorry"} /\ x.st = "done"
  PROVE  CommandStage(x) > CommandStage(t)
  BY DEF CommandStage

LEMMA StartDescends ==
  ASSUME SlackInv, NEW k \in Command, NEW again \in BOOLEAN, Start(k, again)
  PROVE  \A j \in Command : CommandDescends(j)
<1> DEFINE w == Installed(k)
           t == [command[k] EXCEPT !.times = command[k].times + 1]
           x(st) == [t EXCEPT !.st = st, !.home = w, !.db = w]
           y == [t EXCEPT !.st = "turned away"]
<1>1. command[k].st = "unsent" /\ command[k] \in Task
  BY CommandHolds DEF Start, Handled
<1>2. Becomes(k, y) \/ \E st \in {"queued", "offered"} : Becomes(k, x(st))
  BY DEF Start
<1> HIDE DEF w
<1>3. y.st = "turned away" /\ \A st \in {"queued", "offered"} : x(st).st = st
  BY <1>1 DEF Task
<1> HIDE DEF t, x, y
<1>4. CASE Becomes(k, y)
  <2>1. CommandStage(y) > CommandStage(command[k])
    BY <1>1, <1>3, TurnedAway, LaterStages
  <2>2. QED
    BY <1>4, <2>1, OneMovesOn
<1>5. ASSUME NEW st \in {"queued", "offered"}, Becomes(k, x(st))
      PROVE  \A j \in Command : CommandDescends(j)
  <2>1. CommandStage(x(st)) > CommandStage(command[k])
    BY <1>1, <1>3, LaterStages
  <2>2. QED
    BY <1>5, <2>1, OneMovesOn
<1>6. QED
  BY <1>2, <1>4, <1>5

LEMMA StepDescends ==
  ASSUME SlackInv, NEW k \in Command,
         \/ Pick(k) \/ Acquire(k) \/ PostResponse(k)
         \/ Answer(k) \/ Fail(k) \/ TimeOutQuery(k)
  PROVE  \A j \in Command : CommandDescends(j)
<1>1. command[k] \in Task
  BY CommandHolds
<1>2. PICK x : Becomes(k, x) /\ <<command[k].st, x.st>> \in
        {<<"offered", "queued">>, <<"offered", "turned away">>, <<"queued", "running">>,
         <<"queued", "posting">>, <<"running", "posting">>,
         <<"posting", "done">>, <<"sorry", "done">>}
  <2>1. ASSUME NEW f \in {"queued", "turned away", "running", "posting", "done"}
        PROVE  [command[k] EXCEPT !.st = f].st = f
    BY <1>1 DEF Task
  <2>2. CASE Pick(k)
    <3> DEFINE x == [command[k] EXCEPT !.st = "queued", !.home = Installed(k)]
    <3>1. x.st = "queued"
      BY <1>1 DEF Task
    <3>2. command[k].st = "offered"
            /\ (Becomes(k, x) \/ Becomes(k, [command[k] EXCEPT !.st = "turned away"]))
      BY <2>2 DEF Pick
    <3> HIDE DEF x
    <3>3. QED
      BY <2>1, <3>1, <3>2
  <2>3. CASE Acquire(k)
    BY <2>1, <2>3 DEF Acquire
  <2>4. CASE PostResponse(k)
    <3> DEFINE said == IF command[k].st = "sorry" THEN "restarted" ELSE command[k].body
               x == [command[k] EXCEPT !.st = "done", !.heard = said]
               y == [command[k] EXCEPT !.st = "done", !.lost = TRUE]
    <3>1. x.st = "done" /\ y.st = "done"
      BY <1>1 DEF Task
    <3>2. command[k].st \in {"posting", "sorry"} /\ (Becomes(k, x) \/ Becomes(k, y))
      BY <2>4 DEF PostResponse
    <3> HIDE DEF x, y
    <3>3. QED
      BY <3>1, <3>2
  <2>5. CASE Answer(k) \/ Fail(k) \/ TimeOutQuery(k)
    <3>1. PICK body : Replies(k, body) /\ command[k].st \in {"queued", "running"}
      BY <2>5 DEF Answer, Fail, TimeOutQuery
    <3> DEFINE x == [command[k] EXCEPT !.st = "posting", !.body = body]
    <3>2. x.st = "posting"
      BY <1>1 DEF Task
    <3>3. Becomes(k, x)
      BY <3>1 DEF Replies
    <3> HIDE DEF x
    <3>4. QED
      BY <3>1, <3>2, <3>3
  <2>6. QED
    BY <2>2, <2>3, <2>4, <2>5
<1>3. \/ command[k].st = "offered" /\ (x.st = "queued" \/ CommandStage(x) = 5)
      \/ command[k].st = "queued" /\ x.st \in {"running", "posting"}
      \/ command[k].st = "running" /\ x.st = "posting"
      \/ command[k].st \in {"posting", "sorry"} /\ x.st = "done"
  BY <1>2, TurnedAway
<1>4. CommandStage(x) > CommandStage(command[k])
  BY <1>3, LaterStages
<1>5. QED
  BY <1>2, <1>4, OneMovesOn

LEMMA CancelDescends ==
  ASSUME SlackInv, CancelPending
  PROVE  \A k \in Command : CommandDescends(k)
<1> SUFFICES ASSUME NEW k \in Command PROVE CommandDescends(k)
  OBVIOUS
<1>1. command'[k] \in IF k \in PendingTasks THEN Cancelled(command[k]) ELSE {command[k]}
  BY DEF CancelPending
<1>2. CASE k \in PendingTasks
  <2>1. command[k] \in Task /\ TaskGood(command[k]) /\ command[k].st \in Pending
    BY <1>2, CommandHolds DEF PendingTasks
  <2>2. \/ command'[k].st = "sorry" /\ command[k].st \in {"queued", "running"}
        \/ command'[k].st = "done" /\ command[k].st \in {"posting", "sorry"}
    BY <1>1, <1>2, <2>1, CancelledTask
  <2>3. CommandStage(command'[k]) > CommandStage(command[k])
    BY <2>2, LaterStages
  <2>4. QED
    BY <2>3 DEF CommandDescends
<1>3. CASE k \notin PendingTasks
  BY <1>1, <1>3 DEF CommandDescends
<1>4. QED
  BY <1>2, <1>3

\* No step takes a command back, cancelled or redelivered as it may be.
THEOREM CommandsDescend ==
  SlackSpec => [][\A k \in Command : CommandDescends(k)]_slackVars
<1> DEFINE Descend == \A k \in Command : CommandDescends(k)
<1>1. ASSUME SlackInv, SlackNext PROVE Descend
  <2>1. ASSUME \/ Shutdown
               \/ \E w \in Workspace : Reconnect(w)
               \/ \E i \in Install : \/ \E t \in Team, w \in Workspace : BeginInstall(i, t, w)
                                     \/ CommitInstall(i)
               \/ \E t \in Team : Uninstall(t)
        PROVE  command' = command
    BY <2>1 DEF Shutdown, Reconnect, BeginInstall, CommitInstall, Uninstall
  <2>2. ASSUME command' = command PROVE Descend
    BY <2>2 DEF CommandDescends
  <2>3. ASSUME GiveUp \/ Close PROVE Descend
    BY <1>1, <2>3, CancelDescends DEF GiveUp, Close
  <2> HIDE DEF Descend
  <2>4. ASSUME NEW k \in Command,
               \/ \E again \in BOOLEAN : Start(k, again)
               \/ Pick(k) \/ Acquire(k) \/ PostResponse(k)
               \/ Answer(k) \/ Fail(k) \/ TimeOutQuery(k)
        PROVE  Descend
    BY <1>1, <2>4, StartDescends, StepDescends DEF Descend
  <2>5. QED
    BY <1>1, <2>1, <2>2, <2>3, <2>4 DEF SlackNext
<1> HIDE DEF Descend
<1>2. SlackInv /\ [SlackNext]_slackVars => [Descend]_slackVars
  BY <1>1
<1>3. QED
  BY <1>2, SlackInvAlways, PTL DEF SlackSpec, Descend


-----------------------------------------------------------------------------
(***************************************************************************)
(* The tables a question is linked to, for any schema and any scores.      *)
(*                                                                         *)
(* In a walk, what a table refers to has been met or is still on the       *)
(* table's list, and only tables whose call has not returned have a list   *)
(* (WalkGood).  So when the first call returns, what was met is closed     *)
(* under references, and it was all reached: it is what can be reached     *)
(* (WalkedExact).  The first tables of an order are as many as asked for,  *)
(* or all of them (FirstFew).                                              *)
(***************************************************************************)

-----------------------------------------------------------------------------
(* The first of a finite set, by a strict order.                           *)

\* A finite set that is ordered has a last element.
LEMMA LastOf ==
  ASSUME NEW X, IsFiniteSet(X), X # {}, NEW L \in SUBSET (X \X X),
         \A x \in X : <<x, x>> \notin L,
         \A x, y, z \in X : <<x, y>> \in L /\ <<y, z>> \in L => <<x, z>> \in L
  PROVE  \E m \in X : \A x \in X : <<m, x>> \notin L
<1> DEFINE After(x) == {u \in X : <<x, u>> \in L}
           T == {After(x) : x \in X}
           R == StrictSubsetOrdering(X)
<1>1. T \subseteq FiniteSubsetsOf(X) /\ T # {}
  <2>1. FiniteSubsetsOf(X) = SUBSET X
    BY FS_FiniteSubsetsOfFinite
  <2>2. \A x \in X : After(x) \in SUBSET X
    OBVIOUS
  <2> HIDE DEF After
  <2>3. T \subseteq SUBSET X
    BY <2>2
  <2>4. T # {}
    OBVIOUS
  <2>5. QED
    BY <2>1, <2>3, <2>4
<1>2. PICK S \in T : \A U \in T : ~ (<<U, S>> \in R)
  <2> HIDE DEF T, R
  <2>1. IsWellFoundedOn(R, FiniteSubsetsOf(X))
    BY FS_StrictSubsetOrderingWellFounded DEF R
  <2>2. QED
    BY <1>1, <2>1, WFMin
<1>3. PICK m \in X : S = After(m)
  BY <1>2
<1>4. ASSUME NEW x \in X, <<m, x>> \in L PROVE FALSE
  <2>1. After(x) \subseteq After(m) /\ x \in After(m) /\ x \notin After(x)
    BY <1>4
  <2>2. After(x) # After(m)
    BY <2>1
  <2>3. PICK pair \in (SUBSET X) \X (SUBSET X) : pair = <<After(x), After(m)>>
    OBVIOUS
  <2>4. pair[1] = After(x) /\ pair[2] = After(m)
    BY <2>3
  <2>5. pair \in R
    BY <2>1, <2>2, <2>4 DEF StrictSubsetOrdering
  <2>6. QED
    BY <1>2, <1>3, <2>3, <2>5
<1>5. QED
  BY <1>4

LEMMA TableFinite == IsFiniteSet(Table) /\ Table \subseteq Nat
  BY LinkingAssumption, FS_Interval DEF Table

LEMMA ScoreNat ==
  ASSUME signal \in Signal, NEW t \in Table, NEW picks
  PROVE  Score(t, picks) \in Nat /\ signal.rows[t] \in Nat
<1>1. /\ signal.name[t] \in Nat /\ signal.keys[t] \in Nat /\ signal.columns[t] \in Nat
      /\ signal.values[t] \in Nat /\ signal.rows[t] \in Nat
  BY DEF Signal
<1>2. \A n \in Nat : Capped(n) \in Nat
  BY DEF Capped
<1>3. 3 * signal.keys[t] + 2 * signal.columns[t] \in Nat /\ 4 * signal.values[t] \in Nat
  BY <1>1
<1>4. TableScore(t) \in Nat
  <2> HIDE DEF Capped
  <2>1. Capped(3 * signal.keys[t] + 2 * signal.columns[t]) \in Nat
        /\ Capped(4 * signal.values[t]) \in Nat
    BY <1>2, <1>3
  <2>2. 6 * signal.name[t] \in Nat
    BY <1>1
  <2>3. QED
    BY <2>1, <2>2 DEF TableScore
<1>5. QED
  BY <1>1, <1>4 DEF Score

\* Tables are ordered, whatever the shortlist.
LEMMA BeforeOrders ==
  ASSUME signal \in Signal, NEW picks
  PROVE  /\ \A a \in Table : ~Before(a, a, picks)
         /\ \A a, b, c \in Table :
              Before(a, b, picks) /\ Before(b, c, picks) => Before(a, c, picks)
         /\ \A a, b \in Table : a # b => Before(a, b, picks) \/ Before(b, a, picks)
<1> DEFINE points(t) == IF \A u \in Table : Score(u, picks) = 0
                          THEN signal.rows[t] ELSE Score(t, picks)
<1>1. \A t \in Table : points(t) \in Nat /\ t \in Nat
  BY ScoreNat, TableFinite
<1>2. \A a, b \in Table : Before(a, b, picks) <=>
        points(a) > points(b) \/ (points(a) = points(b) /\ a < b)
  BY DEF Before
<1> HIDE DEF points
<1>3. QED
  BY <1>1, <1>2

LEMMA FirstFew ==
  ASSUME signal \in Signal, NEW picks, NEW S \in SUBSET Table, NEW n \in Nat
  PROVE  LET F == FirstOf(S, n, picks)
         IN  F \subseteq S /\ Cardinality(F) <= n /\ (Cardinality(F) < n => F = S)
<1> DEFINE F == FirstOf(S, n, picks)
           Ahead(t) == {u \in S : Before(u, t, picks)}
<1>1. F = {t \in S : Cardinality(Ahead(t)) < n}
  BY DEF FirstOf
<1>2. IsFiniteSet(S) /\ \A X \in SUBSET S : IsFiniteSet(X) /\ Cardinality(X) \in Nat
  BY TableFinite, FS_Subset, FS_CardinalityType
<1>3. /\ \A a \in S : ~Before(a, a, picks)
      /\ \A a, b, c \in S : Before(a, b, picks) /\ Before(b, c, picks) => Before(a, c, picks)
      /\ \A a, b \in S : a # b => Before(a, b, picks) \/ Before(b, a, picks)
  BY BeforeOrders
<1>4. F \in SUBSET S /\ \A t \in S : Ahead(t) \in SUBSET S
  BY <1>1
<1> HIDE DEF F
<1>5. Cardinality(F) <= n
  <2>1. CASE F = {}
    BY <2>1, FS_EmptySet
  <2>2. CASE F # {}
    <3> DEFINE L == {p \in F \X F : Before(p[1], p[2], picks)}
    <3>1. PICK m \in F : \A x \in F : <<m, x>> \notin L
      <4>1. \A x \in F : <<x, x>> \notin L
        BY <1>3, <1>4
      <4>2. \A x, y, z \in F : <<x, y>> \in L /\ <<y, z>> \in L => <<x, z>> \in L
        BY <1>3, <1>4
      <4>3. L \in SUBSET (F \X F) /\ IsFiniteSet(F)
        BY <1>2, <1>4
      <4> HIDE DEF L
      <4>4. QED
        BY <2>2, <4>1, <4>2, <4>3, LastOf
    <3>2. F \subseteq Ahead(m) \cup {m}
      <4>1. \A x \in F : ~Before(m, x, picks)
        BY <3>1
      <4>2. QED
        BY <1>3, <1>4, <4>1
    <3>3. Ahead(m) \in SUBSET S /\ Cardinality(Ahead(m)) < n /\ m \notin Ahead(m)
      BY <1>1, <1>3, <1>4
    <3> HIDE DEF Ahead
    <3>4. Cardinality(Ahead(m) \cup {m}) = Cardinality(Ahead(m)) + 1
          /\ IsFiniteSet(Ahead(m) \cup {m})
      BY <1>2, <3>3, FS_AddElement
    <3>5. Cardinality(F) <= Cardinality(Ahead(m) \cup {m})
      BY <3>2, <3>4, FS_Subset
    <3>6. QED
      BY <1>2, <1>4, <3>3, <3>4, <3>5
  <2>3. QED
    BY <2>1, <2>2
<1>6. ASSUME F # S PROVE Cardinality(F) >= n
  <2> DEFINE X == S \ F
             L == {p \in X \X X : Before(p[2], p[1], picks)}
  <2>1. PICK m \in X : \A x \in X : <<m, x>> \notin L
    <3>1. \A x \in X : <<x, x>> \notin L
      BY <1>3
    <3>2. \A x, y, z \in X : <<x, y>> \in L /\ <<y, z>> \in L => <<x, z>> \in L
      BY <1>3
    <3>3. L \in SUBSET (X \X X) /\ IsFiniteSet(X) /\ X # {}
      BY <1>2, <1>4, <1>6
    <3> HIDE DEF L, X
    <3>4. QED
      BY <3>1, <3>2, <3>3, LastOf
  <2>2. Ahead(m) \subseteq F
    <3>1. \A x \in X : ~Before(x, m, picks)
      BY <2>1
    <3>2. QED
      BY <3>1
  <2>3. m \in S /\ ~(Cardinality(Ahead(m)) < n) /\ Cardinality(Ahead(m)) \in Nat
    BY <1>1, <1>2, <1>4, <2>1
  <2> HIDE DEF Ahead
  <2>4. Cardinality(Ahead(m)) <= Cardinality(F)
    BY <1>2, <1>4, <2>2, FS_Subset
  <2>5. QED
    BY <1>2, <1>4, <2>3, <2>4
<1>7. QED
  BY <1>2, <1>4, <1>5, <1>6 DEF F

-----------------------------------------------------------------------------
(* What can be reached.                                                    *)

LEMMA AncestorsClosed ==
  ASSUME refers \in [Table -> SUBSET Table], NEW S \in SUBSET Table
  PROVE  \A t \in S \cup Ancestors(S) : refers[t] \subseteq Ancestors(S)
<1> SUFFICES ASSUME NEW t \in S \cup Ancestors(S), NEW a \in refers[t],
                    NEW C \in SUBSET Table, \A u \in S \cup C : refers[u] \subseteq C
             PROVE  a \in C
  BY DEF Ancestors
<1>1. t \in S \cup C
  BY DEF Ancestors
<1>2. QED
  BY <1>1

LEMMA AncestorsLeast ==
  ASSUME NEW S, NEW C \in SUBSET Table, \A t \in S \cup C : refers[t] \subseteq C
  PROVE  Ancestors(S) \subseteq C
  BY DEF Ancestors

-----------------------------------------------------------------------------
(* The walk.                                                               *)

\* A table that has been met has references left only while it is called, and
\* all else that it refers to has been met.
WalkGood ==
  /\ stack = <<>> => seen = {}
  /\ stack # <<>> => /\ stage # "idle" /\ stack[1] \in todo
                     /\ seen \subseteq {stack[1]} \cup Ancestors({stack[1]})
  /\ \A i \in 1 .. Len(stack) : stack[i] \in seen
  /\ \A t \in seen : refers[t] \subseteq seen \cup rest[t]
  /\ \A t \in Table : /\ rest[t] \subseteq refers[t]
                      /\ rest[t] # {} => \E i \in 1 .. Len(stack) : stack[i] = t

LEMMA WalkedExact ==
  ASSUME LinkingTypes, WalkGood, NEW t \in Table, Walked(t)
  PROVE  /\ seen = {t} \cup Ancestors({t})
         /\ FkParents(t) = Ancestors({t}) \ {t}
         /\ \A u \in seen : refers[u] \subseteq seen
         /\ \A u \in Table : rest[u] = {}
<1>1. Len(stack) = 1 /\ stack[1] = t /\ stack # <<>>
  BY DEF Walked
<1>2. \A u \in Table : rest[u] = {}
  BY <1>1 DEF WalkGood, Walked
<1>3. \A u \in seen : refers[u] \subseteq seen
  BY <1>2 DEF WalkGood, LinkingTypes
<1>4. t \in seen
  BY <1>1 DEF WalkGood
<1>5. Ancestors({t}) \subseteq seen
  BY <1>3, <1>4, AncestorsLeast DEF LinkingTypes
<1>6. seen \subseteq {t} \cup Ancestors({t})
  <2>1. seen \subseteq {stack[1]} \cup Ancestors({stack[1]})
    BY <1>1 DEF WalkGood
  <2>2. QED
    BY <1>1, <2>1
<1>7. seen = {t} \cup Ancestors({t})
  BY <1>4, <1>5, <1>6
<1>8. QED
  BY <1>2, <1>3, <1>7 DEF FkParents

\* Linking itself leaves the walk alone.
Aside == stack = <<>> /\ stack' = stack /\ seen' = seen /\ rest' = rest /\ refers' = refers

LEMMA AsideKeepsWalk ==
  ASSUME WalkGood, Aside PROVE WalkGood'
<1> USE DEF Aside
<1>1. (\A i \in 1 .. Len(stack) : stack[i] \in seen)'
  BY DEF WalkGood
<1>2. (\A t \in seen : refers[t] \subseteq seen \cup rest[t])'
  BY DEF WalkGood
<1>3. (\A t \in Table : /\ rest[t] \subseteq refers[t]
                        /\ rest[t] # {} => \E i \in 1 .. Len(stack) : stack[i] = t)'
  BY DEF WalkGood
<1>4. QED
  BY <1>1, <1>2, <1>3 DEF WalkGood

LEMMA FollowWalks ==
  ASSUME LinkingTypes, WalkGood, Follow PROVE LinkingTypes' /\ WalkGood'
<1>1. PICK i \in {Len(stack)} \ {0} : \E ref \in rest[stack[i]] :
        /\ stack' = IF ref \in seen THEN stack ELSE Append(stack, ref)
        /\ seen' = seen \cup {ref}
        /\ rest' = [t \in Table |->
             CASE t = stack[i] -> rest[t] \ {ref}
               [] t = ref /\ ref \notin seen -> refers[ref]
               [] OTHER -> rest[t]]
        /\ UNCHANGED <<refers, signal, shown, missed, round, stage, picked, selected, todo>>
  BY DEF Follow
<1> DEFINE top == stack[i]
<1>2. /\ stack \in Seq(Table) /\ i = Len(stack) /\ i \in 1 .. Len(stack) /\ stack # <<>>
      /\ top \in Table /\ top \in seen /\ seen \subseteq Table
      /\ refers \in [Table -> SUBSET Table] /\ rest \in [Table -> SUBSET Table]
  BY <1>1 DEF LinkingTypes, WalkGood
<1>3. PICK ref \in rest[top] :
        /\ stack' = IF ref \in seen THEN stack ELSE Append(stack, ref)
        /\ seen' = seen \cup {ref}
        /\ rest' = [t \in Table |->
             CASE t = top -> rest[t] \ {ref}
               [] t = ref /\ ref \notin seen -> refers[ref]
               [] OTHER -> rest[t]]
        /\ UNCHANGED <<refers, signal, shown, missed, round, stage, picked, selected, todo>>
  BY <1>1
<1> HIDE DEF top
<1>4. ref \in Table /\ ref \in refers[top] /\ (ref \notin seen => ref # top)
  BY <1>2, <1>3 DEF WalkGood
<1>5. rest' \in [Table -> SUBSET Table]
  BY <1>2, <1>3, <1>4
<1>6. stack' \in Seq(Table)
  BY <1>2, <1>3, <1>4
<1>7. LinkingTypes'
  BY <1>2, <1>3, <1>4, <1>5, <1>6 DEF LinkingTypes
<1>8. /\ stack' # <<>> /\ stack'[1] = stack[1]
      /\ Len(stack') >= Len(stack)
      /\ \A k \in 1 .. Len(stack) : stack'[k] = stack[k]
      /\ \A k \in 1 .. Len(stack') : stack'[k] = ref \/ (k \in 1 .. Len(stack) /\ stack'[k] = stack[k])
      /\ ref \notin seen => \E k \in 1 .. Len(stack') : stack'[k] = ref
  <2>1. CASE ref \in seen
    BY <1>2, <1>3, <2>1
  <2>2. CASE ref \notin seen
    <3>1. stack' = Append(stack, ref)
      BY <1>3, <2>2
    <3>2. Len(stack') = Len(stack) + 1 /\ stack'[Len(stack) + 1] = ref
          /\ \A k \in 1 .. Len(stack) : stack'[k] = stack[k]
      BY <1>2, <1>4, <3>1
    <3>3. Len(stack) \in Nat /\ Len(stack) >= 1
      BY <1>2
    <3>4. stack' # <<>> /\ 1 \in 1 .. Len(stack)
      BY <3>2, <3>3
    <3>5. QED
      BY <3>2, <3>3, <3>4
  <2>3. QED
    BY <2>1, <2>2
<1>9. Ancestors({stack[1]})' = Ancestors({stack[1]})
  BY <1>3, <1>8 DEF Ancestors
<1>10. seen' \subseteq {stack[1]} \cup Ancestors({stack[1]})
  <2>1. stack[1] \in Table /\ top \in {stack[1]} \cup Ancestors({stack[1]})
    <3>1. 1 \in 1 .. Len(stack)
      BY <1>2
    <3>2. stack[1] \in Table
      BY <1>2, <3>1
    <3>3. seen \subseteq {stack[1]} \cup Ancestors({stack[1]})
      BY <1>2 DEF WalkGood
    <3>4. QED
      BY <1>2, <3>2, <3>3
  <2>2. refers[top] \subseteq Ancestors({stack[1]})
    BY <1>2, <2>1, AncestorsClosed
  <2>3. QED
    BY <1>2, <1>3, <1>4, <2>2 DEF WalkGood
<1>11. \A t \in seen' : refers[t] \subseteq seen' \cup rest'[t]
  <2> TAKE t \in seen'
  <2>1. CASE t \in seen
    <3>1. refers[t] \subseteq seen \cup rest[t] /\ t \in Table
      BY <1>2, <2>1 DEF WalkGood
    <3>2. rest[t] \subseteq rest'[t] \cup {ref}
      BY <1>3, <1>4, <2>1, <3>1
    <3>3. QED
      BY <1>3, <3>1, <3>2
  <2>2. CASE t \notin seen
    BY <1>2, <1>3, <1>4, <2>2
  <2>3. QED
    BY <2>1, <2>2
<1>12. \A t \in Table : /\ rest'[t] \subseteq refers[t]
                        /\ rest'[t] # {} => \E k \in 1 .. Len(stack') : stack'[k] = t
  <2> TAKE t \in Table
  <2>1. CASE t = ref /\ ref \notin seen
    BY <1>3, <1>4, <1>8, <2>1
  <2>2. CASE ~(t = ref /\ ref \notin seen)
    <3>1. rest'[t] \subseteq rest[t]
      BY <1>2, <1>3, <2>2
    <3>2. rest[t] # {} => \E k \in 1 .. Len(stack) : stack'[k] = t
      BY <1>8 DEF WalkGood
    <3>3. Len(stack) \in Nat /\ Len(stack') \in Nat /\ Len(stack) <= Len(stack')
      BY <1>2, <1>6, <1>8
    <3>4. QED
      BY <3>1, <3>2, <3>3 DEF WalkGood
  <2>3. QED
    BY <2>1, <2>2
<1>13. \A k \in 1 .. Len(stack') : stack'[k] \in seen'
  BY <1>3, <1>8 DEF WalkGood
<1>14. stage' # "idle" /\ stack'[1] \in todo'
  BY <1>2, <1>3, <1>8 DEF WalkGood
<1>15. QED
  BY <1>3, <1>7, <1>8, <1>9, <1>10, <1>11, <1>12, <1>13, <1>14 DEF WalkGood

LEMMA ReturnWalks ==
  ASSUME LinkingTypes, WalkGood, Return PROVE LinkingTypes' /\ WalkGood'
<1> DEFINE n == Len(stack)
<1>1. /\ n > 1 /\ rest[stack[n]] = {} /\ stack' = SubSeq(stack, 1, n - 1)
      /\ UNCHANGED <<refers, signal, shown, missed, round, stage, picked, selected, todo, seen, rest>>
  BY DEF Return
<1>2. stack \in Seq(Table) /\ n \in Nat
  BY DEF LinkingTypes
<1>3. /\ stack' \in Seq(Table) /\ Len(stack') = n - 1
      /\ \A k \in 1 .. n - 1 : stack'[k] = stack[k]
  BY <1>1, <1>2
<1>4. stack' # <<>> /\ stack'[1] = stack[1] /\ stack # <<>>
  <2>1. 1 \in 1 .. n - 1
    BY <1>1, <1>2
  <2>2. Len(stack') # 0 /\ Len(stack) # 0
    BY <1>1, <1>2, <1>3
  <2>3. QED
    BY <1>3, <2>1, <2>2
<1>5. LinkingTypes'
  BY <1>1, <1>3 DEF LinkingTypes
<1>6. Ancestors({stack[1]})' = Ancestors({stack[1]})
  BY <1>1, <1>4 DEF Ancestors
<1>7. \A k \in 1 .. Len(stack') : stack'[k] \in seen'
  BY <1>1, <1>2, <1>3 DEF WalkGood
<1>8. \A t \in Table : rest'[t] # {} => \E k \in 1 .. Len(stack') : stack'[k] = t
  <2> SUFFICES ASSUME NEW t \in Table, rest[t] # {}
               PROVE  \E k \in 1 .. Len(stack') : stack'[k] = t
    BY <1>1
  <2>1. PICK k \in 1 .. n : stack[k] = t
    BY DEF WalkGood
  <2>2. k # n
    BY <1>1, <2>1
  <2>3. k \in 1 .. n - 1
    BY <1>2, <2>2
  <2>4. QED
    BY <1>3, <2>1, <2>3
<1>9. QED
  BY <1>1, <1>4, <1>5, <1>6, <1>7, <1>8 DEF WalkGood

\* A walk begins from a table that waits for it.
LEMMA WalkBegins ==
  ASSUME LinkingTypes, WalkGood, NEW t \in Table, WalkFrom(t), t \in todo, stage # "idle"
  PROVE  LinkingTypes' /\ WalkGood'
<1>1. /\ stack = <<>> /\ stack' = <<t>> /\ seen' = {t}
      /\ rest' = [rest EXCEPT ![t] = refers[t]]
      /\ UNCHANGED <<refers, signal, shown, missed, round, stage, picked, selected, todo>>
  BY DEF WalkFrom
<1>2. rest \in [Table -> SUBSET Table] /\ refers \in [Table -> SUBSET Table]
  BY DEF LinkingTypes
<1>3. LinkingTypes'
  BY <1>1, <1>2 DEF LinkingTypes
<1>4. Len(stack') = 1 /\ stack'[1] = t /\ stack' # <<>>
  BY <1>1
<1>5. \A u \in Table : rest[u] = {}
  <2>1. Len(stack) = 0
    BY <1>1
  <2>2. 1 .. Len(stack) = {}
    BY <2>1
  <2>3. QED
    BY <2>2 DEF WalkGood
<1>6. \A u \in Table : rest'[u] = IF u = t THEN refers[u] ELSE {}
  BY <1>1, <1>2, <1>5
<1>7. QED
  BY <1>1, <1>2, <1>3, <1>4, <1>6 DEF WalkGood

\* A walk that is done leaves nothing behind.
LEMMA WalkEnds ==
  ASSUME LinkingTypes, WalkGood, NEW t \in Table, DoneWith(t), stack = <<>> \/ Walked(t),
         selected' \subseteq Table
  PROVE  LinkingTypes' /\ WalkGood'
<1>1. /\ todo' = todo \ {t} /\ stack' = <<>> /\ seen' = {}
      /\ UNCHANGED <<refers, signal, shown, missed, round, stage, picked, rest>>
  BY DEF DoneWith
<1>2. LinkingTypes'
  BY <1>1 DEF LinkingTypes
<1>3. \A u \in Table : rest[u] = {}
  <2>1. CASE Walked(t)
    BY <2>1, WalkedExact
  <2>2. CASE stack = <<>>
    <3>1. Len(stack) = 0
      BY <2>2
    <3>2. 1 .. Len(stack) = {}
      BY <3>1
    <3>3. QED
      BY <3>2 DEF WalkGood
  <2>3. QED
    BY <2>1, <2>2
<1>4. Len(stack') = 0
  BY <1>1
<1>5. QED
  BY <1>1, <1>2, <1>3, <1>4 DEF WalkGood

-----------------------------------------------------------------------------
(* What is selected.                                                       *)

\* A table comes with what it refers to, or to join two others.
Comes(t, S) ==
  refers[t] \subseteq S \/ Cardinality((Ancestors({t}) \ {t}) \cap S) >= 2

PromptSlots == MaxTables + ExtraSlots

\* What is shown, and what a failed round adds to it.
Showing == IF stage = "missing" THEN shown \cup selected ELSE shown

SelectedGood ==
  /\ stage \in {"seeds", "bridges"} => round = 0
  /\ stage = "missing" => round \in 1 .. Rounds
  /\ round = 0 => missed = {}
  /\ stage = "seeds" => /\ todo \subseteq selected
                        /\ \A t \in selected : t \in todo \/ refers[t] \subseteq selected
  /\ stage = "bridges" => \A t \in selected : Comes(t, selected)

PromptGood ==
  round = 1 => /\ Cardinality(shown) <= PromptSlots
               /\ Cardinality(shown) < PromptSlots => \A t \in shown : Comes(t, shown)

MissedGood ==
  \A t \in missed : /\ t \in Showing
                    /\ \/ Ancestors({t}) \subseteq Showing
                       \/ stage = "missing" /\ t \in todo

LinkInv == LinkingTypes /\ WalkGood /\ SelectedGood /\ PromptGood /\ MissedGood

LEMMA SubsetsFinite ==
  \A S \in SUBSET Table : IsFiniteSet(S) /\ Cardinality(S) \in Nat
  BY TableFinite, FS_Subset, FS_CardinalityType

LEMMA ComesStays ==
  ASSUME NEW t \in Table, NEW S \in SUBSET Table, NEW U \in SUBSET Table, S \subseteq U,
         Comes(t, S)
  PROVE  Comes(t, U)
<1> DEFINE parents == Ancestors({t}) \ {t}
<1>1. CASE refers[t] \subseteq S
  BY <1>1 DEF Comes
<1>2. CASE Cardinality(parents \cap S) >= 2
  <2>1. parents \cap S \subseteq parents \cap U /\ parents \cap U \in SUBSET Table
        /\ parents \cap S \in SUBSET Table
    OBVIOUS
  <2> HIDE DEF parents
  <2>2. Cardinality(parents \cap S) <= Cardinality(parents \cap U)
    BY <2>1, SubsetsFinite, FS_Subset
  <2>3. Cardinality(parents \cap U) >= 2
    BY <1>2, <2>1, <2>2, SubsetsFinite
  <2>4. QED
    BY <2>3 DEF Comes, parents
<1>3. QED
  BY <1>1, <1>2 DEF Comes

LEMMA Linked ==
  ASSUME LinkInv
  PROVE  LinkingTypes /\ LinkedTogether
<1>1. \A t \in Table : Walked(t) => FkParents(t) = Ancestors({t}) \ {t}
  BY WalkedExact DEF LinkInv
<1>2. ASSUME stage # "missing" PROVE missed \cup Ancestors(missed) \subseteq shown
  <2>1. \A t \in missed : t \in shown /\ Ancestors({t}) \subseteq shown
    BY <1>2 DEF LinkInv, MissedGood, Showing
  <2> DEFINE C == {a \in Table : \E t \in missed : a \in Ancestors({t})}
  <2>2. \A t \in missed \cup C : refers[t] \subseteq C
    <3>1. \A t \in missed : \A u \in {t} \cup Ancestors({t}) :
            refers[u] \subseteq Ancestors({t})
      BY AncestorsClosed DEF LinkInv, LinkingTypes
    <3>2. \A t \in Table : Ancestors({t}) \subseteq Table
      BY DEF Ancestors
    <3>3. missed \subseteq Table
      BY DEF LinkInv, LinkingTypes
    <3>4. QED
      BY <3>1, <3>2, <3>3
  <2>3. Ancestors(missed) \subseteq C
    BY <2>2, AncestorsLeast
  <2>4. QED
    BY <2>1, <2>3
<1>3. QED
  BY <1>1, <1>2 DEF LinkInv, LinkedTogether, PromptGood, Comes, PromptSlots

LEMMA LinkInit == LinkingInit => LinkInv
<1> SUFFICES ASSUME LinkingInit PROVE LinkInv
  OBVIOUS
<1>1. refers \in [Table -> SUBSET Table] /\ signal \in Signal
  BY LinkingAssumption DEF LinkingInit
<1>2. LinkingTypes
  BY <1>1, LinkingAssumption DEF LinkingInit, LinkingTypes
<1>3. WalkGood
  BY DEF LinkingInit, WalkGood
<1>4. QED
  BY <1>2, <1>3 DEF LinkingInit, LinkInv, SelectedGood, PromptGood, MissedGood

\* Steps of the walk change nothing that has been selected.
LEMMA WalkKeeps ==
  ASSUME LinkInv,
         UNCHANGED <<refers, signal, shown, missed, round, stage, picked, selected, todo>>
  PROVE  SelectedGood' /\ PromptGood' /\ MissedGood'
<1>1. \A S : Ancestors(S)' = Ancestors(S)
  BY DEF Ancestors
<1>2. Showing' = Showing
  BY DEF Showing
<1>3. \A t, S : Comes(t, S)' = Comes(t, S)
  BY <1>1 DEF Comes
<1>4. QED
  BY <1>1, <1>2, <1>3 DEF LinkInv, SelectedGood, PromptGood, MissedGood

LEMMA LinkStep ==
  ASSUME LinkInv, Link PROVE LinkInv'
<1>1. /\ round = 0 /\ stage = "idle" /\ refers' = refers /\ signal' = signal
      /\ stack' = stack /\ seen' = seen /\ rest' = rest /\ missed' = missed
      /\ missed = {}
  BY DEF Link, Rest, walkVars, LinkInv, SelectedGood
<1>2. stack = <<>>
  BY <1>1 DEF LinkInv, WalkGood
<1>3. WalkGood'
  BY <1>1, <1>2, AsideKeepsWalk DEF Aside, LinkInv
<1>4. MissedGood'
  BY <1>1 DEF MissedGood
<1>5. CASE Tables <= MaxTables
  <2>1. /\ shown' = Table /\ round' = 1 /\ stage' = "idle"
        /\ picked' = picked /\ selected' = selected /\ todo' = todo
    BY <1>5 DEF Link, Rest
  <2>2. LinkingTypes'
    BY <1>1, <2>1, LinkingAssumption DEF LinkInv, LinkingTypes
  <2>3. SelectedGood'
    BY <2>1 DEF SelectedGood
  <2>4. PromptGood'
    <3>1. Cardinality(Table) <= PromptSlots
      <4>1. Cardinality(Table) = Tables
        BY LinkingAssumption, FS_Interval DEF Table
      <4>2. QED
        BY <1>5, <4>1, LinkingAssumption DEF PromptSlots
    <3>2. \A t \in Table : refers[t] \subseteq Table
      BY DEF LinkInv, LinkingTypes
    <3>3. \A t \in Table : Comes(t, shown)'
      BY <1>1, <2>1, <3>2 DEF Comes
    <3>4. QED
      BY <2>1, <3>1, <3>3 DEF PromptGood, PromptSlots
  <2>5. QED
    BY <1>3, <1>4, <2>2, <2>3, <2>4 DEF LinkInv
<1>6. CASE ~(Tables <= MaxTables)
  <2>1. PICK picks \in Shortlist :
          picked' = picks /\ selected' = FirstOf(Table, MaxTables, picks)
    BY <1>6 DEF Link
  <2>2. todo' = selected' /\ stage' = "seeds" /\ shown' = shown /\ round' = round
    BY <1>6 DEF Link, Rest
  <2>3. picked' \subseteq Table /\ selected' \subseteq Table
    <3>1. picks \subseteq Table
      BY DEF Shortlist
    <3>2. FirstOf(Table, MaxTables, picks) \subseteq Table
      BY DEF FirstOf
    <3>3. QED
      BY <2>1, <3>1, <3>2
  <2>4. LinkingTypes'
    BY <1>1, <2>2, <2>3 DEF LinkInv, LinkingTypes
  <2>5. SelectedGood' /\ PromptGood'
    BY <1>1, <2>2 DEF SelectedGood, PromptGood
  <2>6. QED
    BY <1>3, <1>4, <2>4, <2>5 DEF LinkInv
<1>7. QED
  BY <1>5, <1>6

\* What a finished walk adds.
LEMMA ParentsStep ==
  ASSUME LinkInv, NEW t \in Table, AddParents(t) PROVE LinkInv'
<1>1. stage \in {"seeds", "missing"} /\ LinkingTypes /\ WalkGood
  BY DEF AddParents, LinkInv
<1>2. CASE t \in todo /\ WalkFrom(t)
  <2>1. LinkingTypes' /\ WalkGood'
    BY <1>1, <1>2, WalkBegins
  <2>2. QED
    BY <1>2, <2>1, WalkKeeps DEF WalkFrom, LinkInv
<1>3. CASE Walked(t) /\ selected' = selected \cup FkParents(t) /\ DoneWith(t)
  <2>1. /\ todo' = todo \ {t}
        /\ UNCHANGED <<refers, signal, shown, missed, round, stage, picked, rest>>
    BY <1>3 DEF DoneWith
  <2>2. /\ seen = {t} \cup Ancestors({t})
        /\ selected' = selected \cup (Ancestors({t}) \ {t})
        /\ \A u \in seen : refers[u] \subseteq seen
        /\ t \in todo
    <3>1. stack[1] = t /\ stack # <<>>
      BY <1>3 DEF Walked
    <3>2. QED
      BY <1>1, <1>3, <3>1, WalkedExact DEF WalkGood
  <2>3. selected' \subseteq Table
    BY <1>1, <2>2 DEF LinkingTypes, Ancestors
  <2>4. LinkingTypes' /\ WalkGood'
    BY <1>1, <1>3, <2>3, WalkEnds
  <2>5. \A S : Ancestors(S)' = Ancestors(S)
    BY <2>1 DEF Ancestors
  <2>6. SelectedGood'
    <3>1. ASSUME stage = "seeds"
          PROVE  /\ todo' \subseteq selected'
                 /\ \A u \in selected' : u \in todo' \/ refers[u] \subseteq selected'
      <4>1. todo \subseteq selected /\ \A u \in selected : u \in todo \/ refers[u] \subseteq selected
        BY <3>1 DEF LinkInv, SelectedGood
      <4>2. seen \subseteq selected'
        BY <2>2, <4>1
      <4>3. QED
        BY <2>1, <2>2, <4>1, <4>2
    <3>2. QED
      BY <1>1, <2>1, <3>1 DEF LinkInv, SelectedGood
  <2>7. PromptGood'
    BY <2>1, <2>5 DEF LinkInv, PromptGood, Comes
  <2>8. MissedGood'
    <3>1. CASE stage = "seeds"
      <4>1. missed = {}
        BY <3>1 DEF LinkInv, SelectedGood
      <4>2. QED
        BY <2>1, <4>1 DEF MissedGood
    <3>2. CASE stage = "missing"
      <4>1. Showing = shown \cup selected /\ Showing' = shown \cup selected'
        BY <2>1, <3>2 DEF Showing
      <4> SUFFICES ASSUME NEW u \in missed
                   PROVE  /\ u \in Showing'
                          /\ Ancestors({u}) \subseteq Showing' \/ u \in todo'
        BY <2>1, <2>5, <3>2 DEF MissedGood
      <4>2. u \in Showing /\ (Ancestors({u}) \subseteq Showing \/ u \in todo)
        BY DEF LinkInv, MissedGood
      <4>3. CASE u = t
        BY <2>2, <4>1, <4>2, <4>3
      <4>4. CASE u # t
        BY <2>1, <2>2, <4>1, <4>2, <4>4
      <4>5. QED
        BY <4>3, <4>4
    <3>3. QED
      BY <1>1, <3>1, <3>2
  <2>9. QED
    BY <2>4, <2>6, <2>7, <2>8 DEF LinkInv
<1>4. QED
  BY <1>2, <1>3 DEF AddParents

LEMMA BridgeStep ==
  ASSUME LinkInv, NEW t \in Table, AddBridge(t) PROVE LinkInv'
<1>1. stage = "bridges" /\ LinkingTypes /\ WalkGood
  BY DEF AddBridge, LinkInv
<1>2. CASE t \in todo /\ t \notin selected /\ WalkFrom(t)
  <2>1. LinkingTypes' /\ WalkGood'
    BY <1>1, <1>2, WalkBegins
  <2>2. QED
    BY <1>2, <2>1, WalkKeeps DEF WalkFrom, LinkInv
<1>3. ASSUME DoneWith(t), stack = <<>> \/ Walked(t),
             selected' = selected
               \/ /\ selected' = selected \cup {t}
                  /\ Cardinality((Ancestors({t}) \ {t}) \cap selected) >= 2
      PROVE  LinkInv'
  <2>1. /\ todo' = todo \ {t}
        /\ UNCHANGED <<refers, signal, shown, missed, round, stage, picked, rest>>
    BY <1>3 DEF DoneWith
  <2>2. selected' \subseteq Table /\ selected \subseteq Table /\ selected \subseteq selected'
    BY <1>1, <1>3 DEF LinkingTypes
  <2>3. LinkingTypes' /\ WalkGood'
    BY <1>1, <1>3, <2>2, WalkEnds
  <2>4. \A S : Ancestors(S)' = Ancestors(S)
    BY <2>1 DEF Ancestors
  <2>5. \A u \in selected' : Comes(u, selected')
    <3> SUFFICES ASSUME NEW u \in selected' PROVE Comes(u, selected')
      OBVIOUS
    <3>1. Comes(u, selected)
      BY <1>1, <1>3 DEF LinkInv, SelectedGood, Comes
    <3>2. QED
      BY <2>2, <3>1, ComesStays
  <2>6. \A u : Comes(u, selected)' = Comes(u, selected')
    BY <2>1, <2>4 DEF Comes
  <2>7. SelectedGood'
    BY <1>1, <2>1, <2>5, <2>6 DEF LinkInv, SelectedGood
  <2>8. PromptGood'
    BY <2>1, <2>4 DEF LinkInv, PromptGood, Comes
  <2>9. missed' = {}
    BY <1>1, <2>1 DEF LinkInv, SelectedGood
  <2>10. QED
    BY <2>3, <2>7, <2>8, <2>9 DEF LinkInv, MissedGood
<1>4. CASE t \in selected /\ stack = <<>> /\ DoneWith(t) /\ UNCHANGED selected
  BY <1>3, <1>4
<1>5. CASE /\ Walked(t)
           /\ selected' = IF Cardinality(FkParents(t) \cap selected) >= 2
                            THEN selected \cup {t} ELSE selected
           /\ DoneWith(t)
  <2>1. FkParents(t) = Ancestors({t}) \ {t}
    BY <1>1, <1>5, WalkedExact
  <2>2. QED
    BY <1>3, <1>5, <2>1
<1>6. QED
  BY <1>2, <1>4, <1>5 DEF AddBridge

LEMMA DoneStep ==
  ASSUME LinkInv, SeedsDone \/ LinkDone \/ ExpandDone \/ \E named \in SUBSET Table : Expand(named)
  PROVE  LinkInv'
<1>1. refers' = refers /\ signal' = signal /\ stack' = stack /\ seen' = seen /\ rest' = rest
  BY DEF SeedsDone, LinkDone, ExpandDone, Expand, Rest, walkVars
<1>2. stack = <<>>
  BY DEF SeedsDone, LinkDone, ExpandDone, Expand, LinkInv, WalkGood
<1>3. WalkGood'
  BY <1>1, <1>2, AsideKeepsWalk DEF Aside, LinkInv
<1>4. \A S : Ancestors(S)' = Ancestors(S)
  BY <1>1 DEF Ancestors
<1>5. \A u, S : Comes(u, S) <=> (refers'[u] \subseteq S
                \/ Cardinality((Ancestors({u})' \ {u}) \cap S) >= 2)
  BY <1>1, <1>4 DEF Comes
<1>6. CASE SeedsDone
  <2>1. /\ stage = "seeds" /\ todo = {} /\ todo' = Table /\ stage' = "bridges"
        /\ UNCHANGED <<shown, missed, round, picked, selected>>
    BY <1>6 DEF SeedsDone, Rest
  <2>2. LinkingTypes'
    BY <1>1, <2>1 DEF LinkInv, LinkingTypes
  <2>3. \A t \in selected : Comes(t, selected)
    BY <2>1 DEF LinkInv, SelectedGood, Comes
  <2>4. SelectedGood'
    BY <1>5, <2>1, <2>3 DEF LinkInv, SelectedGood, Comes
  <2>5. PromptGood' /\ missed' = {}
    BY <2>1 DEF LinkInv, SelectedGood, PromptGood
  <2>6. QED
    BY <1>3, <2>2, <2>4, <2>5 DEF LinkInv, MissedGood
<1>7. CASE LinkDone
  <2>1. /\ stage = "bridges" /\ todo = {} /\ shown' = FirstOf(selected, PromptSlots, picked)
        /\ round' = 1 /\ selected' = {} /\ picked' = {} /\ stage' = "idle"
        /\ UNCHANGED <<missed, todo>>
    BY <1>7 DEF LinkDone, Rest, PromptSlots
  <2>2. /\ shown' \subseteq selected /\ Cardinality(shown') <= PromptSlots
        /\ Cardinality(shown') < PromptSlots => shown' = selected
    <3>1. PromptSlots \in Nat
      BY LinkingAssumption DEF PromptSlots
    <3>2. signal \in Signal /\ selected \in SUBSET Table
      BY DEF LinkInv, LinkingTypes
    <3>3. QED
      BY <2>1, <3>1, <3>2, FirstFew
  <2>3. LinkingTypes'
    BY <1>1, <2>1, <2>2, LinkingAssumption DEF LinkInv, LinkingTypes
  <2>4. PromptGood'
    <3>1. \A t \in selected : Comes(t, selected)
      BY <2>1 DEF LinkInv, SelectedGood
    <3>2. Cardinality(shown') < PromptSlots => \A t \in shown' : Comes(t, shown')
      BY <2>2, <3>1
    <3>3. QED
      BY <1>5, <2>2, <3>2 DEF PromptGood, Comes, PromptSlots
  <2>5. missed' = {}
    BY <2>1 DEF LinkInv, SelectedGood
  <2>6. QED
    BY <1>3, <2>1, <2>3, <2>4, <2>5 DEF LinkInv, SelectedGood, MissedGood
<1>8. CASE ExpandDone
  <2>1. /\ stage = "missing" /\ todo = {} /\ shown' = shown \cup selected
        /\ round' = round + 1 /\ selected' = {} /\ stage' = "idle"
        /\ UNCHANGED <<missed, picked, todo>> /\ round \in 1 .. Rounds
    BY <1>8 DEF ExpandDone, Rest, LinkInv, SelectedGood
  <2>2. round' \in 2 .. Rounds + 1
    BY <2>1, LinkingAssumption
  <2>3. LinkingTypes'
    BY <1>1, <2>1, <2>2, LinkingAssumption DEF LinkInv, LinkingTypes
  <2>4. Showing' = Showing
    BY <2>1 DEF Showing
  <2>5. MissedGood'
    BY <1>4, <2>1, <2>4 DEF LinkInv, MissedGood
  <2>6. round' # 0 /\ round' # 1
    BY <2>2
  <2>7. QED
    BY <1>3, <2>1, <2>3, <2>5, <2>6 DEF LinkInv, SelectedGood, PromptGood
<1>9. CASE \E named \in SUBSET Table : Expand(named)
  <2> PICK named \in SUBSET Table : Expand(named)
    BY <1>9
  <2> DEFINE new == named \ shown
  <2>1. /\ round > 0 /\ round <= Rounds /\ stage = "idle"
        /\ selected' = new /\ todo' = new /\ missed' = missed \cup new /\ stage' = "missing"
        /\ UNCHANGED <<shown, round, picked>>
    BY DEF Expand, Rest
  <2>2. round \in 1 .. Rounds
    BY <2>1 DEF LinkInv, LinkingTypes
  <2>3. LinkingTypes'
    BY <1>1, <2>1 DEF LinkInv, LinkingTypes
  <2>4. SelectedGood'
    BY <2>1, <2>2 DEF SelectedGood
  <2>5. PromptGood'
    BY <1>5, <2>1 DEF LinkInv, PromptGood, Comes
  <2>6. Showing' = shown \cup new /\ Showing = shown
    BY <2>1 DEF Showing
  <2>7. \A t \in missed : t \in shown /\ Ancestors({t}) \subseteq shown
    BY <2>1, <2>6 DEF LinkInv, MissedGood
  <2>8. MissedGood'
    BY <1>4, <2>1, <2>6, <2>7 DEF MissedGood
  <2>9. QED
    BY <1>3, <2>3, <2>4, <2>5, <2>8 DEF LinkInv
<1>10. QED
  BY <1>6, <1>7, <1>8, <1>9

LEMMA LinkNext ==
  ASSUME LinkInv, [LinkingNext]_linkingVars PROVE LinkInv'
<1>1. CASE UNCHANGED linkingVars
  <2>1. UNCHANGED <<refers, signal, shown, missed, round, stage, picked, selected, todo>>
        /\ UNCHANGED <<stack, seen, rest>>
    BY <1>1 DEF linkingVars, walkVars
  <2>2. LinkingTypes'
    BY <2>1 DEF LinkInv, LinkingTypes
  <2>3. \A S : Ancestors(S)' = Ancestors(S)
    BY <2>1 DEF Ancestors
  <2>4. WalkGood'
    BY <2>1, <2>3 DEF LinkInv, WalkGood
  <2>5. QED
    BY <2>1, <2>2, <2>4, WalkKeeps DEF LinkInv
<1>2. CASE Follow
  <2>1. LinkingTypes' /\ WalkGood'
    BY <1>2, FollowWalks DEF LinkInv
  <2>2. QED
    BY <1>2, <2>1, WalkKeeps DEF Follow, LinkInv
<1>3. CASE Return
  <2>1. LinkingTypes' /\ WalkGood'
    BY <1>3, ReturnWalks DEF LinkInv
  <2>2. QED
    BY <1>3, <2>1, WalkKeeps DEF Return, LinkInv
<1>4. CASE \E t \in Table : AddParents(t) \/ AddBridge(t)
  BY <1>4, ParentsStep, BridgeStep
<1>5. QED
  BY <1>1, <1>2, <1>3, <1>4, LinkStep, DoneStep DEF LinkingNext

LEMMA LinkAlways == LinkingSpec => []LinkInv
  BY LinkInit, LinkNext, PTL DEF LinkingSpec

\* Linking keeps its types: no walk leaves the schema or its tables.
THEOREM LinkingTyped == LinkingSpec => []LinkingTypes
<1>1. LinkInv => LinkingTypes
  BY Linked
<1>2. QED
  BY <1>1, LinkAlways, PTL

\* The walk along foreign keys finds what can be reached, the first prompt keeps
\* to its slots and joins, and what failed SQL named comes with all it refers to.
THEOREM TablesTogether == LinkingSpec => []LinkedTogether
<1>1. LinkInv => LinkedTogether
  BY Linked
<1>2. QED
  BY <1>1, LinkAlways, PTL

-----------------------------------------------------------------------------
(* Linking ends: every step goes to a later round or stage, or is done with  *)
(* one more table, or begins its walk, or meets a table, or follows a        *)
(* reference, or leaves a call.  Rounds are bounded and tables finitely      *)
(* many, so foreign keys that turn back on themselves keep nobody walking.   *)

Less(A, B) == A \subseteq B /\ A # B

WalkDescends ==
  \/ stack = <<>> /\ stack' # <<>>
  \/ /\ stack # <<>> /\ stack' # <<>>
     /\ \/ Less(seen, seen')
        \/ /\ seen' = seen
           /\ \/ /\ \A t \in Table : rest'[t] \subseteq rest[t]
                 /\ \E t \in Table : rest'[t] # rest[t]
              \/ rest' = rest /\ Len(stack') < Len(stack)

LinkingDescends ==
  \/ round' > round
  \/ /\ round' = round
     /\ \/ <<stage, stage'>> \in
              {<<"idle", "seeds">>, <<"seeds", "bridges">>, <<"idle", "missing">>}
        \/ /\ stage' = stage
           /\ \/ Less(todo', todo)
              \/ todo' = todo /\ WalkDescends

LEMMA FollowDescends ==
  ASSUME LinkInv, Follow
  PROVE  LinkingDescends
<1>1. PICK i \in {Len(stack)} \ {0} : \E ref \in rest[stack[i]] :
        /\ stack' = IF ref \in seen THEN stack ELSE Append(stack, ref)
        /\ seen' = seen \cup {ref}
        /\ rest' = [t \in Table |->
             CASE t = stack[i] -> rest[t] \ {ref}
               [] t = ref /\ ref \notin seen -> refers[ref]
               [] OTHER -> rest[t]]
        /\ UNCHANGED <<round, stage, todo>>
  BY DEF Follow
<1>2. PICK ref \in rest[stack[i]] :
        /\ stack' = IF ref \in seen THEN stack ELSE Append(stack, ref)
        /\ seen' = seen \cup {ref}
        /\ rest' = [t \in Table |->
             CASE t = stack[i] -> rest[t] \ {ref}
               [] t = ref /\ ref \notin seen -> refers[ref]
               [] OTHER -> rest[t]]
        /\ UNCHANGED <<round, stage, todo>>
  BY <1>1
<1>3. stack \in Seq(Table) /\ rest \in [Table -> SUBSET Table]
  BY DEF LinkInv, LinkingTypes
<1>4. stack # <<>> /\ stack' # <<>> /\ stack[i] \in Table
  BY <1>1, <1>2, <1>3
<1>5. CASE ref \notin seen
  <2>1. Less(seen, seen')
    BY <1>2, <1>5 DEF Less
  <2>2. QED
    BY <1>2, <1>4, <2>1 DEF LinkingDescends, WalkDescends
<1>6. CASE ref \in seen
  <2>1. seen' = seen
    BY <1>2, <1>6
  <2>2. rest' = [t \in Table |-> IF t = stack[i] THEN rest[t] \ {ref} ELSE rest[t]]
    BY <1>2, <1>6
  <2>3. /\ \A t \in Table : rest'[t] \subseteq rest[t]
        /\ \E t \in Table : rest'[t] # rest[t]
    BY <1>2, <1>3, <1>4, <2>2
  <2>4. QED
    BY <1>2, <1>4, <2>1, <2>3 DEF LinkingDescends, WalkDescends
<1>7. QED
  BY <1>5, <1>6

LEMMA ReturnDescends ==
  ASSUME LinkInv, Return
  PROVE  LinkingDescends
<1>1. /\ Len(stack) > 1 /\ stack' = SubSeq(stack, 1, Len(stack) - 1)
      /\ UNCHANGED <<round, stage, todo, seen, rest>>
  BY DEF Return
<1>2. stack \in Seq(Table)
  BY DEF LinkInv, LinkingTypes
<1>3. Len(stack') = Len(stack) - 1
  <2>1. Len(stack) - 1 \in 0 .. Len(stack)
    BY <1>1, <1>2
  <2>2. QED
    BY <1>1, <1>2, <2>1
<1>4. Len(stack') < Len(stack) /\ stack # <<>> /\ stack' # <<>>
  <2>1. Len(stack) \in Nat
    BY <1>2
  <2>2. Len(stack') < Len(stack) /\ Len(stack) # 0 /\ Len(stack') # 0
    BY <1>1, <1>3, <2>1
  <2>3. QED
    BY <2>2
<1>5. QED
  BY <1>1, <1>4 DEF LinkingDescends, WalkDescends

\* A walk begins, or its table is done with.
LEMMA LoopDescends ==
  ASSUME LinkInv, NEW t \in Table, AddParents(t) \/ AddBridge(t)
  PROVE  LinkingDescends
<1>1. CASE WalkFrom(t)
  <2>1. stack = <<>> /\ stack' # <<>> /\ UNCHANGED <<round, stage, todo>>
    BY <1>1 DEF WalkFrom
  <2>2. QED
    BY <2>1 DEF LinkingDescends, WalkDescends
<1>2. CASE DoneWith(t) /\ t \in todo
  <2>1. todo' = todo \ {t} /\ UNCHANGED <<round, stage>>
    BY <1>2 DEF DoneWith
  <2>2. Less(todo', todo)
    BY <1>2, <2>1 DEF Less
  <2>3. QED
    BY <2>1, <2>2 DEF LinkingDescends
<1>3. ASSUME Walked(t) PROVE t \in todo
  <2>1. stack # <<>> /\ stack[1] = t
    BY <1>3 DEF Walked
  <2>2. QED
    BY <2>1 DEF LinkInv, WalkGood
<1>4. QED
  BY <1>1, <1>2, <1>3 DEF AddParents, AddBridge

LEMMA StageDescends ==
  ASSUME LinkInv,
         Link \/ SeedsDone \/ LinkDone \/ ExpandDone \/ \E named \in SUBSET Table : Expand(named)
  PROVE  LinkingDescends
<1>1. round \in Nat
  BY LinkingAssumption DEF LinkInv, LinkingTypes
<1>2. CASE Link
  <2>1. \/ round = 0 /\ round' = 1
        \/ round' = round /\ stage = "idle" /\ stage' = "seeds"
    BY <1>2 DEF Link, Rest
  <2>2. QED
    BY <2>1 DEF LinkingDescends
<1>3. CASE SeedsDone
  BY <1>3 DEF SeedsDone, Rest, LinkingDescends
<1>4. CASE LinkDone
  <2>1. stage = "bridges" /\ round' = 1
    BY <1>4 DEF LinkDone
  <2>2. round = 0
    BY <2>1 DEF LinkInv, SelectedGood
  <2>3. QED
    BY <2>1, <2>2 DEF LinkingDescends
<1>5. CASE ExpandDone
  BY <1>1, <1>5 DEF ExpandDone, LinkingDescends
<1>6. CASE \E named \in SUBSET Table : Expand(named)
  BY <1>6 DEF Expand, Rest, LinkingDescends
<1>7. QED
  BY <1>2, <1>3, <1>4, <1>5, <1>6

\* The linking of a question, its walks along foreign keys included, ends.
THEOREM TablesDescend == LinkingSpec => [][LinkingDescends]_linkingVars
<1>1. LinkInv /\ [LinkingNext]_linkingVars => [LinkingDescends]_linkingVars
  BY FollowDescends, ReturnDescends, LoopDescends, StageDescends DEF LinkingNext
<1>2. QED
  BY <1>1, LinkAlways, PTL DEF LinkingSpec

-----------------------------------------------------------------------------
(***************************************************************************)
(* The parts side by side.                                                 *)
(***************************************************************************)

\* No part of a step does what its own specification does not allow.
LEMMA PartsStep ==
  ASSUME [Next]_vars
  PROVE  /\ [AskingNext]_askingVars /\ [LinkingNext]_linkingVars
         /\ [SlackNext]_slackVars /\ [KnowledgeNext]_knowledgeVars
         /\ [RecordsNext]_recordVars
<1>1. CASE UNCHANGED vars
  BY <1>1 DEF vars
<1>2. CASE Next
  BY <1>2 DEF Next, Asks, Links, AsksInSlack, Installs, Learns, Draws, Exports,
              RecordsNext, recordVars
<1>3. QED
  BY <1>1, <1>2

LEMMA PartsBegin ==
  Init => AskingInit /\ LinkingInit /\ SlackInit /\ KnowledgeInit /\ RecordsInit
  BY DEF Init

\* Explored side by side, each part does only what it does by itself: what is
\* proved of the parts holds where they share one run.
THEOREM PartsCompose ==
  Spec => /\ AskingInit /\ [][AskingNext]_askingVars
          /\ LinkingSpec
          /\ SlackInit /\ [][SlackNext]_slackVars
          /\ KnowledgeSpec /\ RecordsSpec
  BY PartsBegin, PartsStep, PTL DEF Spec, LinkingSpec, KnowledgeSpec, RecordsSpec

\* Every part keeps its types, side by side with the others.
THEOREM AllTyped == Spec => []TypesKept
<1>1. AskingInit /\ [][AskingNext]_askingVars => []AskingTypes
  <2>1. Inv => AskingTypes
    BY DEF Inv
  <2>2. QED
    BY <2>1, InvInit, InvStep, PTL
<1>2. SlackInit /\ [][SlackNext]_slackVars => []SlackTypes
  <2>1. SlackInv => SlackTypes
    BY DEF SlackInv
  <2>2. QED
    BY <2>1, SlackInvInit, SlackInvStep, PTL
<1>3. AskingTypes /\ LinkingTypes /\ SlackTypes /\ KnowledgeTypes /\ RecordTypes
        => TypesKept
  BY DEF TypesKept
<1>4. QED
  BY <1>1, <1>2, <1>3, PartsCompose, LinkingTyped, KnowledgeTyped, RecordsTyped, PTL

===============================================================================
