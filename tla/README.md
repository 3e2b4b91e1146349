# BoloDB in TLA+

Specifications, model-checking configurations and machine-checked proofs for
[BoloDB](../src/README.md), a server that answers questions about a database in
SQL, keeps what its users have verified, and mails reports on a schedule. Paths
below are relative to `src/backend/app/` unless they start with `src/`.

Contents: [the system](#the-system) · [modules and plan](#modules-and-plan) ·
[the scheduler](#the-scheduler) · [cron expressions](#cron-expressions) ·
[connections](#database-connections) · [accounts](#accounts-and-sessions) ·
[workspaces](#workspaces-and-roles) · [questions](#questions-and-their-turns) ·
[linking](#linked-tables) · [Slack](#slack) · [knowledge](#knowledge) ·
[records](#dashboards-and-the-activity-log) · [runs](#the-runs) ·
[proofs](#the-proofs) · [where code and text
disagree](#where-the-code-and-its-text-disagree) · [not modelled](#not-modelled).

## The system

One Python process (FastAPI on one event loop, blocking calls on a thread pool)
in front of PostgreSQL, with one map of live database engines, one polling loop
and a set of background Slack questions in its memory. Several processes may
share the same PostgreSQL. Handlers interleave at every `await`; worker threads
interleave anywhere.

| Component | State | Operations | What is hard | What makes it correct |
|---|---|---|---|---|
| **Scheduled queries** `services/scheduler.py`, `pgdatabase/schedules.py`, `controllers/schedules.py` | rows of `scheduled_queries` and `schedule_runs`; each process's tick and runs | create, PATCH, pause / resume, delete, "Run now"; tick: list, claim, retire, skip, run, record, write back | several processes on one table; stale copies written back; crash or shutdown between a claim and its record; timeouts after the mail left | a report is mailed at most once; a claimed occurrence is accounted for; a due one is served; a paused one stays paused |
| **Cron expressions** `services/cron.py` | none | parse, `next_after`, `next_run`, `next_runs` | ends of hours, days, months; day *or* weekday; windows | the search finds exactly the minutes that match, and ends |
| **Database connections** `database.py`, `controllers/database.py`, `pgdatabase/connections.py` | map of engines in memory; stored connections | connect, sample, reconnect, disconnect, ensure, forget | threads and handlers on one dictionary; a lookup used after an `await`; restarts | a question runs on the database that was chosen; no engine is lost; knowledge goes to its own database |
| **Query pipeline** `controllers/query.py`, `repair.py`, `llm.py`, `schema_link.py`, `sqlvalidate.py` | the question in hand: attempts, feedback, result | generate, validate, execute, repair; stream of events; save | two implementations of one loop; a time budget; clients that leave | the answer is the result of the SQL shown; what is saved did run; the loop ends |
| **Slack** `integrations/slack/bot.py`, `routes/slack.py`, `pgdatabase/slack.py` | pending tasks, slots, installations | ask, pick, run, post, drain; install, uninstall | timeout, answer and shutdown race; overlapping installations | every accepted question is answered or excused; a team stays in its workspace |
| **Workspaces and roles** `controllers/workspaces.py`, `permissions.py` | workspaces, members, invitations, settings | invite, join, change role, remove, transfer, delete, settings | unlocked reads before each write | exactly one owner; a revoked invite admits nobody; overrides add up |
| **Accounts and sessions** `controllers/auth.py`, `pgdatabase/users.py`, `pgdatabase/otp.py` | users, token version, codes, reset links | sign up, verify, log in, refresh, change / reset password | two transactions where one is meant | a code or link works once; a password change ends older sessions |
| **Knowledge base** `pgdatabase/knowledge.py`, `controllers/onboard.py`, `controllers/catalog.py` | verified answers, glossary, catalog | add, replace, seed | check-then-insert; delete-then-insert | no duplicates; a glossary is replaced whole |
| **Dashboards, saved queries** `pgdatabase/dashboards.py`, `saved_queries.py` | dashboards, panels, saved queries | create, delete, draw | a row deleted between a panel's check and its write | a panel shows a query of its own workspace |
| **Conversations, history** `pgdatabase/conversations.py`, `history.py` | rows | append, delete, clear | deletion while a turn is saved | turns belong to their conversation and its owner |
| **Activity log** `controllers/activity.py` | append-only rows | log, prune, export | an export reads by offset what grows and is pruned | an export is complete |
| Health, email, rate limiter, dialects, encryption, migrations | nothing of their own | — | — | not state machines |
| **Frontend** `src/frontend/src` | stores, the streamed answer | fetch, stream, edit | stale responses | shows the answer to the last question |

Who calls whom: the scheduler and Slack go through *Database connections* and
send by *Email*; the query pipeline reads *Knowledge* and executes through
*Database connections*; every route is behind *Workspaces and roles*, and that
behind *Sessions*. `PROJECT.json` lists each component with its sources and
status, and under `hazards` each place where the code is exposed to an order of
events a test would hardly produce.

## Modules and plan

| Module(s) | Part | Status |
|---|---|---|
| `FiringTimes`, `Scheduler`, `SchedulePromise` | occurrences claimed, mailed, recorded, and the promise they keep | checked; safety and refinement proved |
| `Calendar` | the search of `cron.py`, checked against `FiringTimes` | checked; its two invariants proved |
| `Connections` | the map of engines, threads, restarts, stored connections | checked, proved |
| `Accounts` | rows, codes, links, tokens; every handler of `controllers/auth.py` | checked, proved |
| `Workspaces`, `WorkspaceRoster` | members, invites, settings of one workspace under concurrent requests, and what becomes of its owner | checked, proved; refinement proved |
| `Asking` | a question's rounds in three implementations; its turn and the conversations | checked; safety proved |
| `Linking` | the tables a question is linked to | checked; safety proved |
| `SlackBot` | background questions, the drain, installations | checked; safety proved |
| `Knowledge` | verified questions, glossary, catalog | checked, proved |
| `Records` | dashboards, panels, saved queries; the activity log and its export | checked, proved |

`MCScheduler`, `MCCalendar`, `MCConnections`, `MCWorkspaces`, `MCPeople` and
`MCAsking` give constants their values. `MCPeople` and `MCAsking` put several
modules that share no state side by side: the variable `side` says which one a
behaviour explores, so the parts add up instead of multiplying.

What comes next, in this order: the trim of the run history by concurrent
transactions; one abstract `Answer` that both loops of the pipeline implement;
`Scheduler` with `Connections` (a run reconnects a database that is being
disconnected); the client's streamed answer; and the address that is verified
by a code sent to another one, which `Accounts` contains and no property names
yet.

## The scheduler

`Scheduler.tla` is the loop of every process, the table they share and the API
requests that edit it. `SchedulePromise.tla` is what all that amounts to for
one occurrence. `FiringTimes.tla` holds `NextAfter` and `NextRun`, the meaning
of `cron.next_after` and `cron.next_run` over a set of instants.

State. `row[s]` is a row of `scheduled_queries` (expression, window, active,
`next_run_at`, `consecutive_failures`; what the report says and to whom is
left out), `logged[s]` its rows of `schedule_runs`, `tick[p]` the local
variables of `tick()` in process `p` (the rows still to claim, the one in
hand), `run[p][s]` the coroutine `run_schedule` it started, `edit[e]` what a
request has read and is about to write, `test[p][s]` a "Run now". History
variables count claims and mails per occurrence and remember which schedules
an edit handed back a claimed slot (`rewound`), which occurrences a fault left
without a record (`dropped`), how many runs failed in a row (`streak`: it moves
when a run ends, a run that a shutdown interrupts included, and a resume starts
it again), which schedules have an outcome that never reached the row and has
not been made up for since (`unwritten`), and which had a claim that overlapped
something it should have counted (`raced`).

Steps. Each `await` on the database is a step, because a handler of the same
or another process may run there; what is computed between two awaits belongs
to the step that follows.

| Code | Actions |
|---|---|
| `create_schedule` | `BeginCreate` (validate, compute the first slot), `FinishCreate` (count and insert under the advisory lock, or 409) |
| `update_schedule`, `set_active` | `BeginPatch` (read), `FinishPatch` (compute from the copy, UPDATE by id) |
| `delete_schedule`, `run_now` | `Delete`; `BeginTest`, `AcquireTest`, `EndTest` |
| `tick` | `TickStart`, `ListDue` / `ListFailed`, `ClaimWon` / `ClaimLost` / `ClaimFailed`, `Retire`, `SkipMisfire` or `AppendRun`, `StartRuns`, `TickEnd` |
| `run_schedule` | `RunAcquire`, `RunDeliver`, `RunEnd`, `RunRecord`, `RunWriteBack` |
| the process | `Crash`, `Shutdown` (the lifespan's cancellation, with `run_schedule`'s handler) |

Faults. `Faults` says which may happen and `MaxFaults` how many: `"crash"`,
`"stop"` and `"db"` (a read or write that raises, the claim's before or after
its commit). A timeout, a provider error and a suppressed delivery are not
faults: `Outcome` offers them to every run.

Properties, beyond `TypeOK`:

- `NeverSendTwice`: an occurrence is mailed at most once, by any number of
  processes, crashes and lost answers, for a schedule no edit has handed a
  claimed slot. The exception is the finding `never_send_twice` below.
- `HistoryTruthful`: a run recorded as a success did send its mail.
- `EveryClaimAccounted`: an occurrence that was claimed is being handled, or is
  in the history, or a fault took it; claiming first loses none otherwise.
- `FailureCountExact`: `consecutive_failures`, written from a copy, is `streak`
  whenever no run has ended without being written back. There are two
  exceptions. While a schedule is `unwritten`, its counter may be behind: a
  write-back raised and the error was suppressed (`services/scheduler.py:315`),
  or a shutdown or a crash came between the end of a run and its write. That
  lasts until a run that did not fail, or a resume, is written; then the counter
  has to be exact again. And a schedule is `raced` once a claim overlapped
  another claim of it, a resume, or a write to the counter that its copy had not
  seen. A run that a crash cuts off before it ends has no outcome: neither the
  code nor `streak` counts it. Two processes, crashes and errors are in
  `scheduler_claims`; shutdowns and resumes around an end are in
  `scheduler_counter`. The second exception is a weakness of the code which the property excuses
  and no run exposes: a run may take longer than the minute between two slots,
  and two overlapping runs that fail both write their copy's counter plus one,
  so that the pause after `SCHEDULE_MAX_FAILURES` comes late.
- `NeverStranded`: without faults, an active schedule has a next slot or is
  about to be retired.
- `DueIsServed`, `RunsFinish`: a due slot is claimed or moved; a run that waits
  for a slot, behind another run of its tick or a "Run now", gets it and ends.
- `KeepsPromise`: the refinement of `SchedulePromise` (an occurrence is taken
  once and in order, mailed only when taken, never after it was given up).
  The mapping `FateOf` reads the fate of an occurrence off claims, mails and
  the processes that hold it.

Fairness (`LiveSpec`). Weak fairness of a process's ticks (the loop polls for
ever: `scheduler_loop` swallows every exception), of each run (its timeout ends
it at the latest, and errors are suppressed), of a test in progress, and of the
clock. `asyncio.Semaphore` wakes its waiters in order, so a queued run that is
passed over now and then is not passed over for ever; `RunStep` is weakly fair
per run because the number of tests is bounded. Creating, editing, deleting,
starting a test and every fault are under no obligation.

## Cron expressions

`Calendar.tla` models `cron.py`: an entry of a field with its range and step,
the day-or-weekday rule, `next_after`'s walk from day to day with its first-day
exceptions and its limit, `next_run`'s window and `next_runs`' loop over it.
`SearchExact` compares every answer with `NextRun` of `FiringTimes` over the
set of minutes `matches()` accepts, so that what `Scheduler` assumes of an
expression is what `cron.py` computes. `PreviewInWindow` and `SearchEnds` are
about the preview the UI shows and about expressions that never fire.

The calendar is small: a year of three months of three, two and three days,
two hours of two minutes of two units. Weeks keep seven days, so weekdays and
dates drift apart from year to year as real ones do. Every instant of two days
is asked about, under eight expressions (each shape of entry, both restricted,
never firing, not parsing) and twelve windows.

## Database connections

`Connections.tla` is one workspace's part of `DatabaseManager` and of the
handlers over it. A process serves many workspaces from one dictionary, but
every access of it carries the workspace's id, so that one workspace shows what
all of them do; the dictionary is not shared between processes, the stored
connections are.

State. `eng` and `order` are `_connections` and the order its keys were
inserted in, `open` the engines that have been made and not disposed, `stored`
the rows of `recent_connections` by age, `seeded` the databases whose glossary
and verified answers are the sample's, `req[r]` the locals of a request in
progress, `loop` those of a `disconnect()` the event loop is in the middle of.
`displaced` and `asked` are history.

Steps. `connect()` runs in `run_in_threadpool`: `Dial` / `DialFailed` (the
engine is made, its database is asked, the entry to be replaced is read),
`Install`, `DisposeOld`, `Report` (the answer is read back from the map, with
the `KeyError` that disposes the engine again when the entry is gone). Between any two of them anything else may happen.
`disconnect()` is called on the event loop, so no handler runs while it does,
but worker threads run on: `BeginDisconnect` and `Scan` (the loop over
the dictionary's keys, which raises if a thread inserts a key), then for each key
`DisposeEntry`, `DeleteEntry`. A handler's steps (`Connect`, `Reconnect`,
`ConnectSample`, `Ensure`, `Lookup`, `PickTarget`, `Forget`) run from one await
to the next and only while `loop` is free; `Save` and `Seed` take effect in
PostgreSQL, at any moment. `Seed`, the transaction that gives a database the sample's glossary and answers, may find verified
answers there and do nothing: which of the two, the model leaves open. `Restart`
ends the process; what is stored stays. A lookup of the map (`_get`,
`connected`) is one step: its dictionary operations are atomic under the GIL.
`dispose()` of an engine is taken not to raise (the pool catches what closing a
connection raises), and the new engine's first queries belong to `Dial`.

Properties, beyond `TypeOK`:

- `MappedIsOpen`: a query never finds an engine somebody has disposed, whatever
  connects and disconnects of one database race, but for the moment in which a
  disconnect is between its dispose and its `del`.
- `EnginesAccounted`: an engine that is open is in the map or in the hands of
  the request or disconnect that will put it there or dispose it. Two changes
  of one entry that race are the exception, and the only one: two connects may
  read the same entry, and then nobody disposes the engine the second of them
  replaces; or a disconnect deletes an entry a connect has just renewed
  (`displaced`).
- `NothingUnasked`: "nothing silently auto-connects the sample"
  (`controllers/database.py`), over restarts and lost connections too.

## Accounts and sessions

`Accounts.tla` is `controllers/auth.py` with the rows it keeps. A handler
awaits between its database calls, each a transaction of its own, and while
bcrypt runs on a thread; other requests are served in between. So each handler
is cut where it awaits: its first step begins a `call` that carries what was
read, its later steps act on that copy.

State. `account[u]` is a row of `users`, `code[u]` the sign-up code,
`link[l]` a reset link. A session is a signed token and nothing of it is
stored: `access` and `refresh` are the tokens somebody holds. Passwords stand
for their hashes. The fields `pass` and `via` of a token, `compared` and
`opened` of a code and `writes` of a link are history: what the session was
opened with, and how often each was used.

| Code | Actions |
|---|---|
| `signup`, `resend_otp`, `verify_email` | `Signup`, `CreateUser`, `IssueCode`; `Resend`, `DropCode`; `VerifyEmail`, `GuessRight` / `GuessWrong`, `MarkVerified`; `CodeExpires` |
| `login`, `refresh`, logout | `ReadLogin`, `Login`; `ReadRefresh`, `Renew`; `SessionEnds` |
| `update_profile` | `EditProfile`, `WriteProfile`, and a new code when the address moved |
| `change_password`, `request_password_reset`, `reset_password` | `ReadChange`, `ChangePassword`; `SendLink`, `LinkExpires`; `ConsumeLink`, `ResetPassword` |
| Google sign-in | `GoogleKnown`; `GoogleNew`, then `GoogleLink`, or `GoogleCreate` / `GoogleRaced` |
| an error, a step that raises, a process that stops | `Abandon`, at any await: what was committed stays |

Properties, beyond `AccountTypes`:

- `SessionsEndWithPassword`: a token that is let in was opened against the
  password of now. A login, a renewal or a sign-in that had read its row when
  the password changed mints a token of the old version.
- `CodeSpentOnce`: a code is compared at most `MAX_OTP_ATTEMPTS` times and opens
  its account once, however guesses and resends interleave.
- `LinkSpentOnce`: a link sets a password at most once, never after it expired.
- `GoogleOpensItsOwn`: a Google sign-in opens a session of the account its
  identity is linked to, whoever takes the address or the identity meanwhile.
  It is about sessions opened, not renewed: an account's identity may later be
  replaced by another Google identity of the same address.

## Workspaces and roles

`Workspaces.tla` is one workspace. A request takes three steps: `Admit` (the
route's dependencies read the caller's role and permission, in sessions of
their own), `Read` or `Refuse` (the handler reads its rows, without locks), and
the commit. Under READ COMMITTED other requests commit in between, and a commit
writes columns of the row by primary key, whatever the row holds by then:
`CommitDeparture` (leave and remove), `CommitRole`, `CommitTransfer` (one
two-row UPDATE), `CommitInvite`, `CommitRescind`, `CommitResend`,
`CommitAccept`, `CommitSettings`, `CommitDelete`. `AdmitBulk` is `bulk_invite`:
one admission, a worker for each address. `GetSettings` creates the row of
defaults; `Expire` is time.

`seat[u]` is a row of `workspace_members` with its id, so that a row deleted
and inserted again is not the row that was read. `lost`, `asked` and `mixed`
are history: whether a role was written over rows that had changed since they
were read, the overrides the PATCHes committed ask for, and whether one was
merged into overrides that had changed since.

Properties, beyond `WorkspaceTypes`:

- `OneOwnerUnlessLostUpdate`: whatever leaves, removals, transfers and role
  changes interleave, and however old the role the dependency has read, only a
  write over changed rows costs the workspace its single owner. That it can is
  the finding `one_owner`.
- `DeletedLeavesNothing`: requests in progress leave no member, invite or
  settings of a workspace that is deleted.
- `OverridesKept`: overrides are those the PATCHes asked for, one on top of the
  other, unless two of them overlapped.
- `RevokedAdmitsNobody`: who joins does so through the invite that is there,
  with the role it had when they read it.
- `KeepsRoster`: the refinement of `WorkspaceRoster`, which knows only who is in
  a workspace as what (`role`), whether it is dissolved (`~alive`) and whether a
  write was lost. Its steps are whole: somebody joins as less than the owner,
  somebody but the owner leaves or gets another role, the owner hands over to a
  member and becomes an admin, all is dissolved for good. A write over rows that
  have changed may besides take the owner's role, or be half of a hand-over; it
  never brings back somebody who has left.

## Questions and their turns

`Asking.tla` has a question in three implementations: `Plain` is `run_query`,
`Streamed` is `run_query_stream`, `Typed` is `execute`. All go through
generate, validate, execute, repair, and they differ in when they look at the
clock (`NextRound`, `TimeOut`), in what an answer carries when no round
succeeds (`Invalid`, `Fails`), and in what they save (`Saved`). SQL is the
number of the round that produced it, and so are rows and errors: what is shown
together can be compared.

| Code | Actions |
|---|---|
| the routes and the first checks | `Refuse`, `Ask`, `TypeSql` |
| a round | `Generated` (accepted, `Invalid`, or nothing generated), `NotGenerated`, `Executed`, `NotExecuted`, `RunTyped` |
| time and the model | `GetLate`, `ModelReplies`; `TimeOut`, which cancels the call (`Drop`) |
| a reader that disconnects | `Leave` |
| saving | `PlaceTurn` (`conversation_owned_by`), `SaveQuery` (the foreign key decides) |
| conversations, history | `CreateConversation`; `DeleteConversation` / `ClearConversations` begin a transaction of two statements, `CommitPurge` or `FailPurge` ends it; `DeleteHistoryEntry`, `ClearHistory` |

Properties, beyond `AskingTypes`:

- `NoCallForNobody`: a call of the model is in progress only for a question that
  waits for it; a reader that leaves and a time that is over take it with them.
- `AnswerOfItsSql`: rows are shown and saved only with the SQL that fetched
  them, though a stream carries its last result from round to round. A plain
  answer's error is its SQL's; a stream's may be of an earlier round, but then
  the database gave it.
- `TurnsOfTheirOwner`: a turn is linked only to a conversation that is there and
  of the member who asked, though ownership is read in another transaction
  than the turn is saved in. A turn saved while its conversation is deleted
  survives, linked to none.
- `EveryQuestionEnds` (liveness).

Fairness (`AskingFairness`): what the server does for a question, and the clock.
`ModelReplies` is fair for `Plain` only, which relies on the timeout of the
provider's client; a stream reads its clock while it waits and ends though the
model never replies.

## Linked tables

`Linking.tla` is `schema_link.py`: scores, the seeds, the walk along foreign keys
from each of them, tables that join two others, the slots, and `Expand`, which
adds after a failed round what its SQL named and what that refers to. The walk
(`_fk_parents`) is recursive; here a call is an entry of `stack`, `rest` has the
references each call has not followed yet, and `seen` is the set the calls share.
`Follow` enters the next reference unless it was seen, `Return` leaves a call,
and the caller of the outermost one (`AddParents`, `AddBridge`) takes what was
met. Nothing else happens while a walk is under way.

`LinkedTogether` compares a finished walk with the closure of the foreign keys
(`Ancestors`, the least set that has what a table refers to and what its own
refer to), and says that a table comes with what it refers to while slots are
left, that the first prompt keeps to the slots, and that what a failed round
named is shown from then on with everything it refers to. Schemas are all pairs
of foreign keys of four tables, a chain, a ring and two bridges; questions match
nothing, the names of two tables, or these, the columns of a third and the
previous query's table.

## Slack

`SlackBot.tla` follows a command: `Start` (a redelivery is acknowledged and not
handled again), `Pick` when it named no database, `Acquire` a slot, then
`Answer`, `Fail` or `TimeOutQuery`, which also ends the wait for a slot, and
`PostResponse`, which may fail. `Shutdown`, `GiveUp` and `Close` are
`drain_pending_queries` with its two waits: a task cancelled in its query
apologises, one cancelled while it posts may or may not have been heard
(`Cancelled`). `BeginInstall` and `CommitInstall` are the two statements of
`save_installation`; `Allowed` is what the unique constraints let through.

- `SlotsAccounted`: free slots and running queries add up, on every way out
  (proved only).
- `NobodyLeftWaiting`: who was accepted hears an answer, an error, a timeout or
  an apology, unless that message was lost; no task outlives the loop. A message
  may be lost when its post fails or is cut off at shutdown, and a redelivery is
  ignored also when the first delivery never came to be handled.
- `InstallationsHeld`: a workspace has one team, and no installation moves a
  team out of the workspace that has it.
- `EveryCommandEnds` (liveness), under `SlackFairness`: timers and posts only.
  No query is assumed to answer, and no slot to come free.

## Knowledge

`Knowledge.tla` is what is known of one database. Glossary and catalog are
replaced whole, each by a transaction that deletes the rows its statement sees
and inserts its own; under READ COMMITTED two that overlap do not see each
other's. The rows a request wrote stand for what it wrote, and `met` remembers
which transactions overlapped. `OnboardGlossary`, `SetGlossary`,
`ReadVerified`, `AddVerified`, `LookAtCatalog`, `DescribeSchema` and
`SetCatalog` are `onboard.save` in order; verifying a question, saving a
catalog, generating starters and seeding the sample are the other requests.

- `SeededOnce`: the sample's glossary is never there twice. Only the constraint
  on its questions, in the same transaction, keeps the second out.
- `OneAuthorUnlessOverlapping`: what the tables hold came from one request after
  the other, but for transactions that overlapped. So does a catalog that
  onboarding deletes: it was saved between onboarding's look and its own.

## Dashboards and the activity log

`Records.tla` has both. Panels: `CheckPanel` is the look at the dashboard and
the saved query in `add_panel` and `update_panel`, `CommitPanel` the write after
it, with the foreign keys; dashboards and queries may be deleted in between, and
cascade or set to NULL. `OpenDashboard`, `DrawQuery`, `CloseDashboard` are
`execute_dashboard_queries`. `PanelsPointHome`: a panel is on a dashboard that
is there and shows a query that is there, both of one workspace.

The log: events are the times they were logged at, `ExportPage` is a turn of
`iter_workspace_activity`, by offset and newest first, while events are logged,
expire and are pruned. `ExportComplete`: an export that ends by itself has every
event that was there at its start and stayed within the retention; it repeats
one only if events were logged meanwhile; it is at most a page longer than
`EXPORT_MAX_ROWS`. An export that reaches that cap is not complete.

## The runs

| Run | Instance | Shows |
|---|---|---|
| `scheduler_claims` | 2 processes, 1 schedule, 3 instants, 1 edit, 1 crash or read or write that raises, a pause after 1 failure | at most once, truthful history, accounted claims, the failure counter, the refinement |
| `scheduler_counter` | 1 process, 1 schedule, 2 edits that pause, resume or lift the end, 1 fault of any kind | the failure counter; no stranded schedule |
| `scheduler_loop` | 1 process, 2 schedules in a batch of two, 1 slot for them and a test, deletions, 1 crash or read or write that raises | every run gets its slot and ends; due rows are served |
| `calendar` | as above | the search |
| `connections` | 2 databases (one is the sample), 2 requests, 3 engines | no disposed engine in the map, none lost, no sample nobody asked for |
| `people` | `Accounts` alone: 2 users, addresses, passwords and identities, 1 link, 2 requests in progress, 4 served; `Workspaces` alone: 3 people, 2 requests in progress, 3 served | sessions, codes, links, Google; owner, invites, settings, the roster |
| `asking` | each of `Asking`, `Linking`, `SlackBot` (commands; installations), `Knowledge`, `Records` (panels; log) alone | their invariants, and that questions and commands end |
| `never_send_twice`, `shutdown_gap`, `start_seconds`, `sample_knowledge`, `one_owner` | the smallest instance that shows it | findings |

Why these bounds. An occurrence is claimed by at most the processes that
listed it: two processes, one of them stale, are every pair that can race, and
a third sees what the second sees (the theorem covers any number). Three
instants give a slot, its successor and one past the grace period. One edit is
enough to move a slot under a tick; the counter needs two, a pause and a
resume. One crash separates "before" from "after" at every step. In
`scheduler_loop` a batch of two and one slot make the second run of a tick wait
for the first, or for the test; one instant of slots is all that fits, so
misfires (in the other two runs) and rows past the batch are not in it. A pause
after one failure gives a failure, a pause and a resume; `scheduler_counter`
has two in a row. More instants, faults and tests at once are beyond five
minutes. The bounds are `MaxTime`, `MaxEdits`, `MaxTests` and `MaxFaults`;
`CHECK_DEADLOCK` is off because the clock, and so the system, stops at `MaxTime`. Processes are
interchangeable in `scheduler_claims`, where all properties are safety, so
symmetry is sound there.

In `connections`, two requests are two connects of one database, or of two, and
a disconnect is a third actor of its own. Three engines are the entry and a
replacement of it by each request; an engine can be used again when it is
disposed and nobody refers to it. There is nothing to bound but these, and
deadlock is checked. Requests and engines are interchangeable.

In `people`, two requests in progress are every pair of handlers that can race;
what led up to them is the requests served before, two of four. Two addresses
and two identities let one be taken while the other is asked for; `MaxVersion`
of two lets a password change while a change is in progress. Three people are an
owner, an admin and somebody outside, and a transfer that races a role change
leaves one more request for what follows. Everything that only names is
interchangeable, and all properties are safety. `MaxServed` and `MaxStarted`
bound the requests, which is why the system stops and deadlock is not checked.

In `asking`, one question is asked at a time (`OneQuestion`), of any of the
three kinds, because questions share only the conversations, which two members
create and delete around it; three rounds give a first, a repair and a last. Two
commands share one slot; one installation at a time beside them (`OneInstall`),
and two of them, with two teams and two workspaces, in an exploration of their
own. Three requests about one database are an onboarding that two others
overlap, before and after its look at the catalog; `Mixed` orders them, which
are told apart only by what they do. Two pages of two rows of five events give a
whole export, a capped one, and a page that moves under it. Questions, commands
and requests are asked once: the system stops, and deadlock is not checked. The
theorems cover any number of each.

## The proofs

Everything here is checked by TLAPS, for every value of the constants that
satisfies the assumption of the component's module. `AccountingProofs` extends
`SchedulerProofs`; `AskingProofs` extends `TablesProofs` and `AccountsProofs`
extends `WorkspacesProofs`, to compose what is proved of parts that a run
explores side by side.

`SchedulerProofs` proves that an occurrence is mailed once and the promise kept:

- `TypeCorrect`: `TypeOK`, with `JobsInHand` (what a tick holds was due when it
  listed it, so its slot is not after its clock), which the next one needs.
- `SendOnce`: `[]NeverSendTwice`, provided `StartsOnTheMinute`. The property is
  not inductive. `OnceInv` says of every occurrence of a schedule not rewound
  that it was claimed at most once, that mails do not outnumber claims, that
  the slot to come lies after everything claimed (`ClaimsBehind`), that whoever
  may still mail it is the one that claimed it and has not mailed
  (`MailersClaimed`), and that there is one such process, with the occurrence
  in hand or in a run but not both (`OneMailer`). A claim then cannot win a
  slot again because a claim moves the slot forward: `NextRunForward`, where
  `StartsOnTheMinute` is used, and `JobsInHand`. Edits keep it unless they
  rewind; ids are never reused (`FreshUnclaimed`).
- `RewoundByOverlap`: the exception of `SendOnce` is as narrow as it can be. A
  schedule is handed back only an occurrence that fell due, and was claimed,
  between the read of an edit and its write, since what an edit computes lies
  after its clock (`NextRunForward`) and nothing is claimed before it is due
  (`ClaimedWhenDue`).
- `PromiseKept`: `KeepsPromise` from the same invariant; each action maps to
  `Take`, `Mail`, `GiveUp`, `Void` or a stutter.

`AccountingProofs` proves what the history and the counter say. Its lemmas
`TickForms` and `RunForms` list what a step of a tick and of a run can do to
what the process holds, and `TicksGood` says that a tick holds a schedule once:
as a row to claim, as the row in hand, or as a run.

- `TruthfulHistory`: `[]HistoryTruthful`. `TruthInv` adds that a run whose mail
  is out, and a run about to be recorded as a success, has one mail counted.
- `NoClaimLost`: `[]EveryClaimAccounted`, with `TicksGood`, without which the
  run a tick starts could overwrite one not recorded yet, and `FreshUnclaimed`.
- `NoneStranded`: `[]NeverStranded`, provided edits come one at a time
  (`OneEditor`), as in the run that checks it. `EditAgrees` says that a row an
  edit read as paused stays paused until its write: only another edit resumes a
  row, while ticks pause rows behind its back. So the slot it computed for an
  active row is there when the row it writes is active.
- `CountsFailures`: `[]FailureCountExact`, for any number of processes. The
  inductive invariant is `CountInv`: of a schedule that is not `raced`, one
  process at most has a claim; the copy behind it has the counter of the row; and
  a run that has ended and is not written back yet is what the streak is one
  longer, or back at nought, for (`Counted`, `EndCounts`). `ClaimForms` says
  where a claim and its copy come from, `WonForms` that a claim that overlaps
  nothing takes the counter the row has, `CounterForms` which steps move the
  counter, the streak and what is unwritten, and `EndedKept` that an outcome not
  written back is written, or known to be lost.
- `TicksDescend`: each step of a process takes its tick to fewer rows, or to a
  later stage with the rows it has, or one of its runs to a later stage, or ends
  the tick. `TickForms` and `RunForms` again, and that a row passed over is gone.

`ConnectionsProofs` proves the four properties of the run `connections`:

- `TypeCorrect`: `TypeOK`, with `LoopHolds` (the keys a disconnect still has to
  close are entries, and the one in hand is not among them), without which the
  engine it looks up could be none. `RemoveOnly` and `AppendNew` are what makes
  the map and its order agree.
- `MappedStaysOpen`: `[]MappedIsOpen`. `OpenInv` adds that no engine is two
  entries (`OneEntry`); that an engine a request has made and not installed is
  open, in no entry and known to no other request nor to the disconnect
  (`NewApart`); that the engines a request holds are in no entry but that of
  its own database (`AtHome`); that the engine a connect is about to dispose has
  left the map (`OldGone`, which is the order of the two lines in `connect()`);
  and that a disconnect disposes an engine of the entry it is closing
  (`LoopAtHome`). `OnlyOpenChanges` is the step that disposes an engine,
  whoever takes it.
- `NoEngineLost`: `[]EnginesAccounted`, inductive with the types.
- `SampleOnlyAsked`: `[]NothingUnasked`. `SampleInv` adds that until the sample
  is asked for no request is about it.

`AccountsProofs` proves all five properties of `Accounts` (`AccountsTyped`,
`SessionsEnd`, `CodeOnce`, `LinkOnce`, `GoogleOwn`). Tokens are never taken
back, so the property has to hold of tokens not yet made: `TokenGood` says of
every token held, and of every token a request carries, that its version is one
its row has had and that, where it is the row's version of now, its password is
the row's of now. Rows are never deleted and the password changes only with the
version (`Grows`), so any change of rows keeps it. A link is used by one request
(`OneTaker`), and a code counts its comparisons and its wrong guesses together
(`CodeGood`). `PeopleCompose` says that a behaviour of `MCPeople` is one of
`Accounts` and one of `Workspaces`; `PeopleTyped` proves the run's `TypesKept`
from both.

`WorkspacesProofs` proves all five of `Workspaces` (`WorkspacesTyped`,
`OwnerKept`, `NothingLeft`, `OverridesStay`, `RevokedOut`). `ReadGood` is what
a request that has read its rows carries of them: a role change a target below
the owner, a transfer a caller who is the owner, a departure no owner or another
beside it. Where no update is lost, the commit finds its rows as they were read
(`Fresh`) and the single owner passes on or stays. `RosterKept` is the
refinement, `WorkspacesSpec => KeepsRoster`: each commit is read as what it does
to the roles alone (`DepartureKeepsRoster`, `RoleKeepsRoster`,
`TransferKeepsRoster`, `AcceptKeepsRoster`, `DeleteKeepsRoster`), and a transfer
whose rows are as they were read is a whole hand-over because the caller is the
one owner and the target, read as a member, is still there.

`AskingProofs` proves `AskingTypes`, `NoCallForNobody`, `AnswerOfItsSql` and
`TurnsOfTheirOwner` (`AskingTyped`, `CallsOwned`, `RowsOfTheSql`,
`TurnsStayHome`). `RoundsGood` says that SQL that runs is its round's, and
`HeldGood` that what a stream holds between rounds is an error the database gave
in a round it has had; `PlacedGood` that a turn about to be saved was placed
by the owner of its conversation, and owners never change. `QuestionsDescend`
says that each step of a question leads to a later round, a later stage of its
round or its deadline, or returns from its one call of the model.

Its second part proves, of `SlackBot`, `SlackTypes`, `SlotsAccounted`, `NobodyLeftWaiting` and
`InstallationsHeld` (`SlackTyped`, `SlotsHeld`, `EveryoneTold`,
`InstallsHeld`). Commands may be infinitely many; the set of those that run
stays finite, and its cardinality is counted with `FiniteSetTheorems`.
`TaskGood` says that what is being posted has something to say, `ServerGood`
that past the first cancellation only apologies are pending, `OneTeam` that a
workspace has one team, which an installation needs to be allowed to rely on.
`CommandsDescend` says that no step takes a command back to an earlier stage.

Its third part proves `LinkingTypes` and `LinkedTogether` of `Linking`
(`LinkingTyped`, `TablesTogether`), for every number of tables and slots, every
set of schemas and every score. `WalkGood` is the invariant of a walk under way:
what was met can be reached from where it started, and a table that was met and
is not on the stack has all its references met (on the stack, all but those in
`rest`). So a walk that is done has met a set closed under references and
nothing beyond the least one, which is `Ancestors` (`WalkedExact`).
`SelectedGood` carries that over the loops of seeds and bridges. `FirstFew`
counts: at most `n` are among the first `n` of a set, and all of it is where
fewer than `n` are, by induction on the order of the scores; `MissedGood` keeps
what failed rounds named closed. `TablesDescend` says that each step leads to a
later round or stage, finishes a table, or takes a walk on: it meets a table for
the first time, uses up a reference, or goes back one.

Last, `PartsCompose`: the run `asking` explores its parts side by side, and each
behaviour of `MCAsking` is one of every part; `AllTyped` proves the run's
`TypesKept` from the theorems of the parts. For this `AskingProofs` extends
`TablesProofs`.

`CalendarProofs` proves `SearchExact` and `PreviewInWindow` (`FindsFirst`,
`PreviewStays`) for every expression, calendar and length of minutes, hours and
days. An instant on a minute is in one way a day, an hour and a minute
(`Quotient`, `Decomposed`), and instants are ordered as these are
(`DaysInOrder`). So the openings of a day are the instants of that day that
match and are not before the search's first minute (`OpeningsMatch`).
`SearchInv` adds that no instant that matches lies between that minute and the
day the search looks at; a day without openings is passed for this reason, and
the least opening of the first day that has one is the answer. `SearchBounded`
counts what is left of the search, `StepsLeft`: at first at most `Count` times
`MaxSearchDays + 3`, and one, and less with each step.

`TablesProofs` proves all of `Knowledge` and `Records`.

- `KnowledgeTyped`, and `SeedsOnce`: where the glossary of a sample is, the
  questions that came with it are (`SeedInv`), and a transaction that finds one
  of them inserts nothing.
- `OneAuthor`: `[]OneAuthorUnlessOverlapping`. Two transactions that are both
  writing have met (`MeetInv`); so what is in a table and a transaction's
  DELETE has not seen was written by one that it met (`GlossaryInv`,
  `CatalogInv`), and a question like the one it is adding was too, or was
  generated (`QuestionInv`). `SetsOut` is what a request has found when it
  begins to write.
- `RecordsTyped`, and `PanelsHome`: what a request past its checks is about to
  write was of the dashboard's workspace when it looked (`PanelInv`), and
  workspaces do not change; the foreign keys do the rest.
- `ExportHasAll`: `[]ExportComplete`, for every page size, cap and log. Rows are
  placed by how many are newer: while it pages, what an export owes and has not
  sent has at least as many newer as its offset, and what it sent has fewer, if
  nothing was logged (`PagingInv`). `HeadSize` counts the rows with fewer
  than `k` newer ones, so a page that is not full is the last (`PageFacts`).
  The events are assumed to be finitely many.

Only model-checked: the liveness properties, which are out of the prover's
reach. Of `SearchEnds`, `EveryQuestionEnds`, `EveryCommandEnds` and `RunsFinish`
the half that is safety is proved: no search, question, command or tick takes
steps forever, since each of its steps descends in an order without infinite
descent (`SearchBounded`, `QuestionsDescend`, `CommandsDescend`, `TicksDescend`,
and `TablesDescend` for the linking inside a question); that the steps are taken
is what fairness adds and TLC checks. Every invariant, action property and
refinement that a passing run checks is the statement of a theorem.

## Where the code and its text disagree

- `never_send_twice`. "Never send twice." (`services/scheduler.py:9`) does not
  survive an edit that races a tick: `update_schedule` writes a `next_run_at`
  it computed before the claim, and names the row by id alone.
- `shutdown_gap`. Cancelling `tick()` between a claim and its `gather` leaves
  an occurrence with no trace, where `src/backend/app/server.py:116` promises a
  record.
- `start_seconds`. A start with seconds makes `next_run` answer with a firing
  time before it, which can be the slot being claimed: the claim changes
  nothing and the occurrence is mailed again at each tick until the start.
- `sample_knowledge`. Connecting the sample while another database is connected
  gives the sample's glossary and answers to that other database:
  `connect_sample` asks for the workspace's database and gets the one connected
  first (`controllers/database.py:213`), and `pgdatabase/knowledge.py` says
  "Seed sample knowledge for a new sample-database connection".
- `one_owner`. `transfer_ownership` promises that "the workspace is never left
  with two owners or none" because both changes are one transaction
  (`controllers/workspaces.py:421`). The rows were read without a lock: a role
  change that read the target before the transfer, or a second transfer, writes
  over it.

## Not modelled

Text: of reports, mails, prompts, SQL and messages; its parsing
(`sqlvalidate.py`, `semantic.py`), the confidence of an answer, export and
explain, the wording of a cron expression. Time zones (the code keeps UTC
throughout). `last_run_at` and `last_status`, on which nothing decides; the cap
on the run history; the interval of the loop, a tick being possible at any
moment; permissions on the schedules' API.

Of connections: aliases, the schema cache, execution limits and the validation
of URLs. Of accounts: decoding and signing of tokens, rate limits, names. Of
workspaces: names, slugs, lists, the retention and expiry days. Of knowledge:
deleting and editing a verified question, the retrieval of examples, clearing a
workspace. Of records: renaming, the positions of panels, the results drawn;
events are taken to have different times.

Health and system are read-only; email is a call whose outcomes the scheduler
and the handlers see; the rate limiter is a key function; dialects, encryption,
migrations, the sample database and the benchmarks have no behaviour over time.
The frontend is presentation but for the streamed answer, which the plan lists.
