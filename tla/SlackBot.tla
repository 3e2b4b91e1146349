------------------------------- MODULE SlackBot -------------------------------
(***************************************************************************)
(* Questions asked in Slack, from the command to the message that answers  *)
(* it, and the installations that say whose databases a team may ask       *)
(* (integrations/slack/bot.py, routes/slack.py, pgdatabase/slack.py).      *)
(*                                                                         *)
(* A command is acknowledged at once and answered by a background task:    *)
(* it waits for one of MAX_CONCURRENT_QUERIES slots, asks, and posts to    *)
(* the response_url.  The wait and the question share one timeout.  When   *)
(* the server stops, tasks are given a while, then cancelled, given a      *)
(* little longer, and abandoned.                                           *)
(*                                                                         *)
(* Signatures and the blocks of a message are left out.  A database is     *)
(* known by the workspace it is connected in.                              *)
(***************************************************************************)
EXTENDS Naturals, FiniteSets

CONSTANTS
  Command,       \* commands of the teams (a bound)
  Team,
  Workspace, NoWorkspace,
  Install,       \* OAuth callbacks that may be in progress (a bound)
  Slots          \* MAX_CONCURRENT_QUERIES

ASSUME SlackAssumption ==
  /\ NoWorkspace \notin Workspace
  /\ Team # {} /\ Workspace # {}
  /\ Slots \in Nat \ {0}

VARIABLES
  command,     \* each command and what its sender has heard
  free,        \* the semaphore
  server,
  install,     \* slack_installations: the workspace of each team
  connected,   \* workspaces with a stored connection
  saving       \* save_installation in progress

slackVars == <<command, free, server, install, connected, saving>>

Pending == {"queued", "running", "posting", "sorry"}
Task == [st : {"unsent", "offered", "turned away", "done"} \cup Pending,
         team : Team, times : 0 .. 1,          \* how often it was handled
         home : Workspace \cup {NoWorkspace},  \* the workspace asked
         db : Workspace \cup {NoWorkspace},    \* where its database was picked
         body : {"none", "answer", "timeout", "error"},
         heard : {"none", "answer", "timeout", "error", "restarted"},
         lost : BOOLEAN]     \* a message failed, or was cut off, on its way
Saving == [on : BOOLEAN, team : Team, for : Workspace, old : SUBSET Team]

Fresh(t) == [st |-> "unsent", team |-> t, times |-> 0, home |-> NoWorkspace,
              db |-> NoWorkspace, body |-> "none", heard |-> "none",
              lost |-> FALSE]
NotSaving == [on |-> FALSE, team |-> CHOOSE t \in Team : TRUE,
              for |-> CHOOSE w \in Workspace : TRUE, old |-> {}]

SlackInit ==
  /\ command \in [Command -> {Fresh(t) : t \in Team}]
  /\ free = Slots
  /\ server = "up"
  /\ install = [t \in Team |-> NoWorkspace]
  /\ connected = Workspace
  /\ saving = [i \in Install |-> NotSaving]

-----------------------------------------------------------------------------
(* From a command to a task.                                               *)

Becomes(k, task) == command' = [command EXCEPT ![k] = task]

Installed(k) == install[command[k].team]

\* A redelivery is acknowledged and nothing else, also where the delivery it
\* repeats was never handled.
Handled(again) == ~again

\* handle_slash_command: names a connection that exists, or is shown the
\* workspace's connections to pick from.
Start(k, again) ==
  /\ server = "up" /\ Handled(again) /\ (~again => command[k].st = "unsent")
  /\ LET w == Installed(k)
         t == [command[k] EXCEPT !.times = @ + 1]
     IN  IF w \in connected
           THEN \E st \in {"queued", "offered"} :
                  Becomes(k, [t EXCEPT !.st = st, !.home = w, !.db = w])
           ELSE Becomes(k, [t EXCEPT !.st = "turned away"])
  /\ UNCHANGED <<free, server, install, connected, saving>>

\* handle_interactive_callback: the team and the database may have moved, or
\* gone, since the buttons were shown.
Pick(k) ==
  /\ server = "up" /\ command[k].st = "offered"
  /\ LET w == Installed(k) IN
       IF w \in connected /\ command[k].db = w
         THEN Becomes(k, [command[k] EXCEPT !.st = "queued", !.home = w])
         ELSE Becomes(k, [command[k] EXCEPT !.st = "turned away"])
  /\ UNCHANGED <<free, server, install, connected, saving>>

\* Connections are saved and removed in the web application.
Reconnect(w) ==
  /\ server = "up"
  /\ connected' = IF w \in connected THEN connected \ {w} ELSE connected \cup {w}
  /\ UNCHANGED <<command, free, server, install, saving>>

-----------------------------------------------------------------------------
(* _execute_query.                                                         *)

Acquire(k) ==
  /\ command[k].st = "queued" /\ free > 0
  /\ Becomes(k, [command[k] EXCEPT !.st = "running"])
  /\ free' = free - 1
  /\ UNCHANGED <<server, install, connected, saving>>

\* The slot is released on every way out of the query.
Release(ks) ==
  free' = free + Cardinality({k \in ks : command[k].st = "running"})

Replies(k, body) ==
  /\ Becomes(k, [command[k] EXCEPT !.st = "posting", !.body = body])
  /\ Release({k})
  /\ UNCHANGED <<server, install, connected, saving>>

\* Variant: the wait for a slot is outside of the timeout.
TimeOutRunning(k) == command[k].st = "running" /\ Replies(k, "timeout")

Answer(k) == command[k].st = "running" /\ Replies(k, "answer")
Fail(k) == command[k].st = "running" /\ Replies(k, "error")
TimeOutQuery(k) == command[k].st \in {"queued", "running"} /\ Replies(k, "timeout")

\* _post_response reports failures to the log only.
PostResponse(k) ==
  /\ command[k].st \in {"posting", "sorry"}
  /\ LET said == IF command[k].st = "sorry" THEN "restarted" ELSE command[k].body
     IN  \/ Becomes(k, [command[k] EXCEPT !.st = "done", !.heard = said])
         \/ Becomes(k, [command[k] EXCEPT !.st = "done", !.lost = TRUE])
  /\ UNCHANGED <<free, server, install, connected, saving>>

-----------------------------------------------------------------------------
(* drain_pending_queries, and the end of the event loop.                   *)

PendingTasks == {k \in Command : command[k].st \in Pending}

\* Requests in progress are served before the lifespan ends.
Shutdown ==
  /\ server = "up" /\ \A i \in Install : ~saving[i].on
  /\ server' = "draining"
  /\ UNCHANGED <<command, free, install, connected, saving>>

\* Variant: only a query that runs is there to apologise.
CancelledSilently(task) ==
  IF task.st = "running" THEN {[task EXCEPT !.st = "sorry"]}
  ELSE {[task EXCEPT !.st = "done"]}

\* A task cancelled in its query apologises.  One cancelled while it posts its
\* message is past the handler: the message may have gone out, or not.
Cancelled(task) ==
  CASE task.st \in {"queued", "running"} -> {[task EXCEPT !.st = "sorry"]}
    [] task.st = "posting" -> {[task EXCEPT !.st = "done", !.lost = TRUE],
                               [task EXCEPT !.st = "done", !.heard = task.body]}
    [] task.st = "sorry" -> {[task EXCEPT !.st = "done", !.lost = TRUE],
                             [task EXCEPT !.st = "done", !.heard = "restarted"]}

CancelPending ==
  /\ command' \in {next \in [Command -> UNION {Cancelled(command[k]) :
                       k \in PendingTasks} \cup {command[k] : k \in Command}] :
       \A k \in Command :
         next[k] \in IF k \in PendingTasks THEN Cancelled(command[k])
                                          ELSE {command[k]}}
  /\ Release(PendingTasks)
  /\ UNCHANGED <<install, connected, saving>>

\* 30 seconds are over.
GiveUp == server = "draining" /\ server' = "closing" /\ CancelPending

\* Nothing is pending, or 10 more seconds are over and the loop is closed.
Close ==
  /\ \/ server = "draining" /\ PendingTasks = {}
     \/ server = "closing"
  /\ server' = "down"
  /\ CancelPending

-----------------------------------------------------------------------------
(* save_installation: one transaction of two statements.  The first        *)
(* deletes the workspace's row of another team, the second inserts the     *)
(* team's row, or updates it if the workspace owns it.                     *)

BeginInstall(i, t, w) ==
  /\ server = "up" /\ ~saving[i].on
  /\ saving' = [saving EXCEPT ![i] =
       [on |-> TRUE, team |-> t, for |-> w,
        old |-> {o \in Team \ {t} : install[o] = w}]]
  /\ UNCHANGED <<command, free, server, install, connected>>

\* Variant: the upsert has no WHERE: a team's row is updated, whoever has it.
AllowedUpsert(i) ==
  \A t \in Team \ (saving[i].old \cup {saving[i].team}) :
    install[t] # saving[i].for

\* What the unique constraints on team_id and workspace_id let through.
Allowed(i) ==
  /\ install[saving[i].team] \in {NoWorkspace, saving[i].for}
  /\ \A t \in Team \ (saving[i].old \cup {saving[i].team}) :
       install[t] # saving[i].for

CommitInstall(i) ==
  /\ saving[i].on
  /\ install' = IF Allowed(i)
       THEN [t \in Team |->
              IF t = saving[i].team THEN saving[i].for
              ELSE IF t \in saving[i].old /\ install[t] = saving[i].for
                THEN NoWorkspace ELSE install[t]]
       ELSE install
  /\ saving' = [saving EXCEPT ![i] = NotSaving]
  /\ UNCHANGED <<command, free, server, connected>>

Uninstall(t) ==
  /\ server = "up" /\ install[t] # NoWorkspace
  /\ install' = [install EXCEPT ![t] = NoWorkspace]
  /\ UNCHANGED <<command, free, server, connected, saving>>

-----------------------------------------------------------------------------
SlackNext ==
  \/ \E k \in Command :
       \/ \E again \in BOOLEAN : Start(k, again)
       \/ Pick(k)
       \/ Acquire(k) \/ Answer(k) \/ Fail(k) \/ TimeOutQuery(k) \/ PostResponse(k)
  \/ \E w \in Workspace : Reconnect(w)
  \/ Shutdown \/ GiveUp \/ Close
  \/ \E i \in Install :
       \/ \E t \in Team, w \in Workspace : BeginInstall(i, t, w)
       \/ CommitInstall(i)
  \/ \E t \in Team : Uninstall(t)

\* No fairness of answers or slots: timers and posts only.
SlackFairness ==
  \A k \in Command :
    WF_slackVars(TimeOutQuery(k)) /\ WF_slackVars(PostResponse(k))

SlackSpec == SlackInit /\ [][SlackNext]_slackVars /\ SlackFairness

-----------------------------------------------------------------------------
(* What should hold.                                                       *)

\* Every variable keeps its type: Slack delivers a command it thinks lost
\* again, and it is handled once.
SlackTypes ==
  /\ command \in [Command -> Task]
  /\ free \in 0 .. Slots
  /\ server \in {"up", "draining", "closing", "down"}
  /\ install \in [Team -> Workspace \cup {NoWorkspace}]
  /\ connected \subseteq Workspace
  /\ saving \in [Install -> Saving]

\* A slot is held by every query that runs and by nothing else, on whichever
\* way out queries are left: answers, errors, timeouts and cancellations.
SlotsAccounted ==
  free + Cardinality({k \in Command : command[k].st = "running"}) = Slots

\* The drain tells everyone: nobody whose command was accepted is left with
\* "Querying ..." unless a message was lost on its way, and no task outlives
\* the loop.
NobodyLeftWaiting ==
  \A k \in Command :
    /\ command[k].st = "done" => command[k].heard # "none" \/ command[k].lost
    /\ server = "down" => command[k].st \notin Pending

\* A workspace has one team, and no installation, raced by others or not,
\* moves a team out of the workspace that has it: it is uninstalled first.
InstallationsStay ==
  /\ \A t \in Team : (install[t] # NoWorkspace /\ install'[t] # NoWorkspace)
                        => install'[t] = install[t]
  /\ \A t, o \in Team : (t # o /\ install'[t] = install'[o])
                           => install'[t] = NoWorkspace
InstallationsHeld == [][InstallationsStay]_slackVars

\* A command that was accepted ends, though no query ever answers: those that
\* wait for a slot are timed out as those that have one.
EveryCommandEnds ==
  \A k \in Command : command[k].st = "queued" ~> command[k].st = "done"
=============================================================================
