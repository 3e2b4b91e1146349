-------------------------------- MODULE Asking --------------------------------
(***************************************************************************)
(* Questions on their way to an answer, and the conversations their turns  *)
(* are kept in (controllers/query.py, repair.py, routes/query.py,          *)
(* pgdatabase/history.py, pgdatabase/conversations.py).                    *)
(*                                                                         *)
(* A question posted to /api/query and one posted to /api/query/stream go  *)
(* through the same rounds - generate, validate, execute, repair - in two  *)
(* implementations that differ in when they look at the clock, in what an  *)
(* answer carries when no round succeeds, and in what they save.  SQL      *)
(* posted to /api/execute is run as it is.                                 *)
(*                                                                         *)
(* SQL is the number of the round that produced it, 0 where it is empty.   *)
(* Which tables are linked, what the prompt says and how confident an      *)
(* answer is are left out, and so is the time of a conversation's last     *)
(* turn (touch_conversation).                                              *)
(***************************************************************************)
EXTENDS Naturals

CONSTANTS
  Plain, Streamed, Typed,  \* posted to query, to query/stream, to execute
  Member,                  \* members of the workspace
  Conversation, NoConversation,
  MaxAttempts              \* _MAX_ATTEMPTS

Question == Plain \cup Streamed \cup Typed

ASSUME AskingAssumption ==
  /\ NoConversation \notin Conversation
  /\ Plain \cap Streamed = {} /\ Typed \cap (Plain \cup Streamed) = {}
  /\ MaxAttempts \in Nat \ {0}

VARIABLES
  turn,     \* each question and how far it is
  model,    \* the call of the model a question waits for
  history,  \* query_history: the row each question left
  talk,     \* conversations: each one's life and its owner
  purge     \* each member's transaction that deletes conversations

askingVars == <<turn, model, history, talk, purge>>

Stage == {"unasked", "generating", "running", "answered", "saving",
          "replied", "refused", "left"}
Ended == {"replied", "refused", "left"}

Turn == [st : Stage, by : Member, within : Conversation \cup {NoConversation},
         round : 0 .. MaxAttempts, late : BOOLEAN,
         sql : 0 .. MaxAttempts,     \* the last SQL generated
         of : 0 .. MaxAttempts,      \* the round whose rows or error is held
         error : BOOLEAN,            \* what is held is an error
         ran : BOOLEAN]              \* ... and the database gave it
Row == [there : BOOLEAN, sql : 0 .. MaxAttempts, rows : 0 .. MaxAttempts,
        within : Conversation \cup {NoConversation}]
Talk == [life : {"unborn", "open", "gone"}, owner : Member]
Purge == [on : BOOLEAN, all : BOOLEAN, talks : SUBSET Conversation,
          rows : SUBSET Question]

NoRow == [there |-> FALSE, sql |-> 0, rows |-> 0, within |-> NoConversation]
NoPurge == [on |-> FALSE, all |-> FALSE, talks |-> {}, rows |-> {}]

AskingInit ==
  /\ turn \in [Question -> [st : {"unasked"}, by : Member,
       within : Conversation \cup {NoConversation}, round : {0}, late : {FALSE},
       sql : {0}, of : {0}, error : {FALSE}, ran : {FALSE}]]
  /\ model = [q \in Question |-> "off"]
  /\ history = [q \in Question |-> NoRow]
  /\ talk \in [Conversation -> [life : {"unborn"}, owner : Member]]
  /\ purge = [u \in Member |-> NoPurge]

-----------------------------------------------------------------------------
(* Rounds.                                                                 *)

Goes(q, t) == turn' = [turn EXCEPT ![q] = t]

\* No database, an empty question, no provider, or a failure before the first
\* round: the request is refused, a stream says so in its one event.
Refuse(q) ==
  /\ turn[q].st = "unasked"
  /\ Goes(q, [turn[q] EXCEPT !.st = "refused"])
  /\ UNCHANGED <<model, history, talk, purge>>

Ask(q) ==
  /\ q \notin Typed /\ turn[q].st = "unasked"
  /\ Goes(q, [turn[q] EXCEPT !.st = "generating", !.round = 1])
  /\ model' = [model EXCEPT ![q] = "called"]
  /\ UNCHANGED <<history, talk, purge>>

TypeSql(q) ==
  /\ q \in Typed /\ turn[q].st = "unasked"
  /\ Goes(q, [turn[q] EXCEPT !.st = "running", !.round = 1, !.sql = 1])
  /\ UNCHANGED <<model, history, talk, purge>>

\* _MAX_SECONDS pass.
GetLate(q) ==
  /\ turn[q].st \in {"generating", "running"} /\ q \notin Typed
  /\ ~turn[q].late
  /\ Goes(q, [turn[q] EXCEPT !.late = TRUE])
  /\ UNCHANGED <<model, history, talk, purge>>

\* The client of openai gives up after a timeout and its retries.
ModelReplies(q) ==
  /\ model[q] = "called"
  /\ \E reply \in {"sent", "failed"} : model' = [model EXCEPT ![q] = reply]
  /\ UNCHANGED <<turn, history, talk, purge>>

\* Variant: the bound of the rounds is one off.
NextRoundOneMore(q, t) ==
  /\ Goes(q, [t EXCEPT !.round = @ + 1,
       !.st = IF t.round <= MaxAttempts THEN "generating" ELSE "answered"])
  /\ model' = [model EXCEPT ![q] = "called"]

\* The round failed with what t holds.  A plain question looks at the clock
\* before the next round; a stream looks at it while it waits for the model.
\* Out of rounds, a stream that never got to execute has no result to show.
NextRound(q, t) ==
  IF t.round < MaxAttempts /\ (q \in Plain => ~t.late)
    THEN /\ Goes(q, [t EXCEPT !.st = "generating", !.round = t.round + 1])
         /\ model' = [model EXCEPT ![q] = "called"]
    ELSE /\ Goes(q, [t EXCEPT
              !.st = IF q \in Streamed /\ t.of = 0 THEN "refused" ELSE "answered"])
         /\ UNCHANGED model

\* Variant: a plain question, too, carries its last result from round to round.
InvalidKeeps(q, t) == NextRound(q, t)

\* A plain round keeps the errors of the validator as what the answer will
\* say; a stream keeps the result of the last execution it has had.
Invalid(q, t) ==
  NextRound(q, IF q \in Plain
                 THEN [t EXCEPT !.of = t.round, !.error = TRUE, !.ran = FALSE]
                 ELSE t)

Generated(q) ==
  /\ turn[q].st = "generating" /\ model[q] = "sent"
  /\ LET t == [turn[q] EXCEPT !.sql = turn[q].round]
         e == [turn[q] EXCEPT !.sql = 0]
     IN  \/ Goes(q, [t EXCEPT !.st = "running"]) /\ UNCHANGED model
         \/ Invalid(q, t)
         \/ q \in Plain /\ Invalid(q, e)
         \/ /\ q \in Streamed
            /\ Goes(q, [e EXCEPT !.st = "refused"]) /\ UNCHANGED model
  /\ UNCHANGED <<history, talk, purge>>

\* LLMError, or any exception: _failure_payload, which is an answer with no
\* SQL, or the stream's error event.
Fails(q) ==
  Goes(q, IF q \in Plain
            THEN [turn[q] EXCEPT !.st = "answered", !.sql = 0,
                                 !.of = 0, !.error = TRUE, !.ran = FALSE]
            ELSE [turn[q] EXCEPT !.st = "refused"])

NotGenerated(q) ==
  /\ turn[q].st = "generating" /\ model[q] = "failed"
  /\ Fails(q)
  /\ UNCHANGED <<model, history, talk, purge>>

\* Variant: the end of a wait leaves the task to itself.
DropNothing(q) == UNCHANGED model

\* The finally of the wait: a task that is not done is cancelled.
Drop(q) ==
  model' = [model EXCEPT ![q] = IF @ = "called" THEN "cancelled" ELSE @]

\* Variant: the clock is read only before a call of the model.
TimeOutBetween(q) ==
  /\ q \in Streamed /\ turn[q].st = "generating" /\ turn[q].late
  /\ model[q] # "called"
  /\ Fails(q)
  /\ Drop(q)
  /\ UNCHANGED <<history, talk, purge>>

TimeOut(q) ==
  /\ q \in Streamed /\ turn[q].st = "generating" /\ turn[q].late
  /\ Fails(q)
  /\ Drop(q)
  /\ UNCHANGED <<history, talk, purge>>

\* What was typed runs once, whatever comes of it.
RunTyped(q) ==
  /\ q \in Typed /\ turn[q].st = "running"
  /\ \/ Goes(q, [turn[q] EXCEPT !.st = "answered", !.of = 1, !.ran = TRUE])
     \/ Goes(q, [turn[q] EXCEPT !.st = "refused"])
  /\ UNCHANGED <<model, history, talk, purge>>

Executed(q) ==
  /\ q \notin Typed /\ turn[q].st = "running"
  /\ Goes(q, [turn[q] EXCEPT !.st = "answered", !.of = turn[q].round,
                             !.error = FALSE, !.ran = TRUE])
  /\ UNCHANGED <<model, history, talk, purge>>

\* The database rejects the SQL, or the call raises: the engine is gone.
NotExecuted(q) ==
  /\ q \notin Typed /\ turn[q].st = "running"
  /\ \/ NextRound(q, [turn[q] EXCEPT !.of = turn[q].round,
                                     !.error = TRUE, !.ran = TRUE])
     \/ q \in Plain /\ Fails(q) /\ UNCHANGED model
  /\ UNCHANGED <<history, talk, purge>>

\* The reader of a stream disconnects: the generator is cancelled where it
\* awaits or closed where it yields.
Leave(q) ==
  /\ q \in Streamed
  /\ turn[q].st \notin Ended \cup {"unasked"}
  /\ Goes(q, [turn[q] EXCEPT !.st = "left"])
  /\ Drop(q)
  /\ UNCHANGED <<history, talk, purge>>

-----------------------------------------------------------------------------
(* Turns.                                                                  *)

OwnedBy(c, u) ==
  /\ c # NoConversation
  /\ talk[c].life = "open" /\ talk[c].owner = u

\* A plain answer is saved whenever it has SQL, a streamed one when it ran.
Saved(q) == turn[q].sql # 0 /\ (q \in Streamed => ~turn[q].error)

\* Variant: the conversation the request names is taken as it is.
PlaceTurnAnywhere(q) ==
  /\ turn[q].st = "answered"
  /\ Goes(q, [turn[q] EXCEPT !.st = IF Saved(q) THEN "saving" ELSE "replied"])
  /\ UNCHANGED <<model, history, talk, purge>>

\* conversation_owned_by; a rerun of typed SQL asks not to be saved.
PlaceTurn(q) ==
  /\ turn[q].st = "answered"
  /\ \/ /\ Saved(q)
        /\ Goes(q, [turn[q] EXCEPT !.st = "saving",
             !.within = IF OwnedBy(@, turn[q].by) THEN @ ELSE NoConversation])
     \/ /\ ~Saved(q) \/ q \in Typed
        /\ Goes(q, [turn[q] EXCEPT !.st = "replied"])
  /\ UNCHANGED <<model, history, talk, purge>>

\* The foreign key refuses a turn of a conversation deleted since; that, like
\* any failure to save, costs the turn and not the answer.
SaveQuery(q) ==
  /\ turn[q].st = "saving"
  /\ LET c == turn[q].within IN
       \/ /\ c # NoConversation => talk[c].life = "open"
          /\ history' = [history EXCEPT ![q] =
               [there |-> TRUE, sql |-> turn[q].sql, within |-> c,
                rows |-> IF turn[q].error THEN 0 ELSE turn[q].of]]
       \/ UNCHANGED history
  /\ Goes(q, [turn[q] EXCEPT !.st = "replied"])
  /\ UNCHANGED <<model, talk, purge>>

DeleteHistoryEntry(q) ==
  /\ history[q].there
  /\ history' = [history EXCEPT ![q] = NoRow]
  /\ UNCHANGED <<turn, model, talk, purge>>

ClearHistory ==
  /\ history' = [q \in Question |-> NoRow]
  /\ UNCHANGED <<turn, model, talk, purge>>

CreateConversation(c) ==
  /\ talk[c].life = "unborn"
  /\ talk' = [talk EXCEPT ![c].life = "open"]
  /\ UNCHANGED <<turn, model, history, purge>>

\* A deletion is one transaction of two statements: the first deletes the
\* turns it sees, the second the conversations.  Turns saved in between are
\* seen by neither; the foreign key sets their conversation to NULL.
BeginPurge(u, all, cs) ==
  /\ ~purge[u].on
  /\ purge' = [purge EXCEPT ![u] = [on |-> TRUE, all |-> all, talks |-> cs,
       rows |-> {q \in Question : history[q].there /\ history[q].within \in cs}]]
  /\ UNCHANGED <<turn, model, history, talk>>

DeleteConversation(u, c) == OwnedBy(c, u) /\ BeginPurge(u, FALSE, {c})

ClearConversations(u) ==
  BeginPurge(u, TRUE, {c \in Conversation : OwnedBy(c, u)})

\* clear_conversations deletes by owner: also conversations opened since.
Doomed(u) ==
  {c \in Conversation : OwnedBy(c, u) /\ (purge[u].all \/ c \in purge[u].talks)}

CommitPurge(u) ==
  /\ purge[u].on
  /\ history' = [q \in Question |->
       IF q \in purge[u].rows THEN NoRow
       ELSE IF history[q].within \in Doomed(u)
              THEN [history[q] EXCEPT !.within = NoConversation]
       ELSE history[q]]
  /\ talk' = [c \in Conversation |->
       IF c \in Doomed(u) THEN [talk[c] EXCEPT !.life = "gone"] ELSE talk[c]]
  /\ purge' = [purge EXCEPT ![u] = NoPurge]
  /\ UNCHANGED <<turn, model>>

FailPurge(u) ==
  /\ purge[u].on
  /\ purge' = [purge EXCEPT ![u] = NoPurge]
  /\ UNCHANGED <<turn, model, history, talk>>

-----------------------------------------------------------------------------
\* What the server does for a question, whoever else does what.
Serve(q) ==
  \/ Generated(q) \/ NotGenerated(q) \/ TimeOut(q)
  \/ Executed(q) \/ NotExecuted(q) \/ RunTyped(q)
  \/ PlaceTurn(q) \/ SaveQuery(q)

AskingNext ==
  \/ \E q \in Question :
       \/ Refuse(q) \/ Ask(q) \/ TypeSql(q) \/ GetLate(q) \/ ModelReplies(q)
       \/ Serve(q) \/ Leave(q) \/ DeleteHistoryEntry(q)
  \/ ClearHistory
  \/ \E c \in Conversation : CreateConversation(c)
  \/ \E u \in Member :
       \/ \E c \in Conversation : DeleteConversation(u, c)
       \/ ClearConversations(u) \/ CommitPurge(u) \/ FailPurge(u)

-----------------------------------------------------------------------------
(* What should hold.                                                       *)

\* Every variable keeps its type: no question has more rounds than allowed.
AskingTypes ==
  /\ turn \in [Question -> Turn]
  /\ model \in [Question -> {"off", "called", "sent", "failed", "cancelled"}]
  /\ history \in [Question -> Row]
  /\ talk \in [Conversation -> Talk]
  /\ purge \in [Member -> Purge]

\* No call of the model runs for nobody: a question that has ended, its reader
\* gone or its time over, takes its call with it.
NoCallForNobody ==
  \A q \in Question : model[q] = "called" => turn[q].st = "generating"

\* Rows are shown and saved only with the SQL that fetched them, whatever
\* rounds came before: run_query takes rows and SQL from one round, while
\* run_query_stream carries exec_result from round to round.  A plain answer's
\* error is its SQL's too; a stream's may be of a round before, but it is an
\* error the database gave.
AnswerOfItsSql ==
  \A q \in Question :
    /\ turn[q].st \in {"answered", "saving", "replied"} =>
         /\ ~turn[q].error => turn[q].sql = turn[q].of /\ turn[q].of # 0
         /\ turn[q].error =>
              IF q \in Streamed
                THEN turn[q].ran /\ turn[q].of \in 1 .. turn[q].sql
                ELSE turn[q].sql \in {0, turn[q].of}
    /\ history[q].there =>
         history[q].rows \in (IF q \in Plain THEN {0} ELSE {}) \cup {history[q].sql}

\* A turn is linked to a conversation only while that is there, and only to
\* one of the member who asked: conversations are private, and who owns one is
\* read before the turn is saved, in another transaction.
TurnsOfTheirOwner ==
  \A q \in Question :
    LET c == history[q].within IN
      c # NoConversation => OwnedBy(c, turn[q].by)

\* The rounds of a question come to an end: a stream's even if the model never
\* replies, for its clock is read while it waits.
EveryQuestionEnds ==
  \A q \in Question :
    turn[q].st = "generating" ~> turn[q].st \in Ended

AskingFairness ==
  /\ \A q \in Question :
       WF_askingVars(Serve(q)) /\ WF_askingVars(GetLate(q))
  /\ \A q \in Plain : WF_askingVars(ModelReplies(q))

AskingSpec == AskingInit /\ [][AskingNext]_askingVars /\ AskingFairness
=============================================================================
