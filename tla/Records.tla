-------------------------------- MODULE Records --------------------------------
(***************************************************************************)
(* Dashboards with panels that show saved queries (pgdatabase/dashboards.py*)
(* and saved_queries.py), and the activity log with its export             *)
(* (controllers/activity.py, routes/workspaces.py).                        *)
(*                                                                         *)
(* A handler checks in its transaction that the dashboard and the query    *)
(* are of the caller's workspace, and writes the panel; either may be      *)
(* deleted in between.  An export reads the log in pages by offset, newest *)
(* first, while events are logged, expire and are pruned.                  *)
(*                                                                         *)
(* An event is the time it was logged at; times differ.  Names, SQL,       *)
(* results and the position of a panel are left out.                       *)
(***************************************************************************)
EXTENDS Naturals, FiniteSets

CONSTANTS
  Tenant,              \* workspaces
  Dashboard, Query, NoQuery,
  DashboardOf, QueryOf,  \* the workspace each is created in
  Panel,
  Edit,                \* panel requests in progress (a bound)
  Time,                \* when events may be logged
  PageSize, MaxRows    \* EXPORT_PAGE_SIZE, EXPORT_MAX_ROWS

ASSUME RecordsAssumption ==
  /\ Dashboard # {} /\ Panel # {}
  /\ DashboardOf \in [Dashboard -> Tenant] /\ QueryOf \in [Query -> Tenant]
  /\ NoQuery \notin Query
  /\ Time \subseteq Nat /\ IsFiniteSet(Time)
  /\ PageSize \in Nat \ {0} /\ MaxRows \in Nat \ {0}

VARIABLES
  dashboards, queries,  \* the rows there
  panel,                \* dashboard_panels
  edit,                 \* panel requests past their checks
  drawing,              \* one request for a dashboard's data
  log,                  \* workspace_activity_log of one workspace
  cutoff,               \* events before it are outside the retention
  export                \* one export of it

panelVars == <<dashboards, queries, panel, edit, drawing>>
logVars == <<log, cutoff, export>>
recordVars == <<panelVars, logVars>>

Shown == Query \cup {NoQuery}
PanelRow == [there : BOOLEAN, on : Dashboard, shows : Shown]
NoPanel == [there |-> FALSE, on |-> CHOOSE d \in Dashboard : TRUE, shows |-> NoQuery]
EditOf == [st : {"idle", "add", "update"}, panel : Panel, on : Dashboard,
           shows : Shown]
NoEdit == [st |-> "idle", panel |-> CHOOSE p \in Panel : TRUE,
           on |-> CHOOSE d \in Dashboard : TRUE, shows |-> NoQuery]
Drawing == [on : BOOLEAN, of : Dashboard, todo : SUBSET Query,
            drawn : SUBSET Query]
NoDrawing == [on |-> FALSE, of |-> CHOOSE d \in Dashboard : TRUE,
              todo |-> {}, drawn |-> {}]
Export == [st : {"none", "paging", "whole", "capped"}, offset : Nat,
           due : SUBSET Time,    \* there at the start and within the retention since
           sent : SUBSET Time,   \* rows yielded
           twice : BOOLEAN,      \* one was yielded again
           logged : BOOLEAN]     \* events were logged since the start
NoExport == [st |-> "none", offset |-> 0, due |-> {}, sent |-> {},
             twice |-> FALSE, logged |-> FALSE]

RecordsInit ==
  /\ dashboards = {}
  /\ queries = {}
  /\ panel = [p \in Panel |-> NoPanel]
  /\ edit = [e \in Edit |-> NoEdit]
  /\ drawing = NoDrawing
  /\ log \in SUBSET Time
  /\ cutoff = 0
  /\ export = NoExport

-----------------------------------------------------------------------------
(* Panels.                                                                 *)

\* An id is new: no request still names it.
CreateDashboard(d) ==
  /\ d \notin dashboards
  /\ \A e \in Edit : edit[e].st # "idle" => edit[e].on # d
  /\ drawing.on => drawing.of # d
  /\ dashboards' = dashboards \cup {d}
  /\ UNCHANGED <<queries, panel, edit, drawing, logVars>>

CreateSavedQuery(q) ==
  /\ q \notin queries \cup drawing.todo
  /\ \A e \in Edit : edit[e].shows # q
  /\ queries' = queries \cup {q}
  /\ UNCHANGED <<dashboards, panel, edit, drawing, logVars>>

Mine(w, d) == d \in dashboards /\ DashboardOf[d] = w

\* Variant: the saved query is looked up by its id alone.
MineToShowAny(w, q) == q = NoQuery \/ q \in queries

\* The saved query is one of the workspace, or there is none.
MineToShow(w, q) == q = NoQuery \/ (q \in queries /\ QueryOf[q] = w)

\* The checks of add_panel and update_panel.
CheckPanel(e, w, p, d, q) ==
  /\ edit[e].st = "idle"
  /\ Mine(w, d) /\ MineToShow(w, q)
  /\ edit' = [edit EXCEPT ![e] =
       [st |-> IF panel[p].there THEN "update" ELSE "add",
        panel |-> p, on |-> d, shows |-> q]]
  /\ UNCHANGED <<dashboards, queries, panel, drawing, logVars>>

\* The write; the foreign keys refuse what is not there any more, and an
\* update changes only the panel of the dashboard it names.
CommitPanel(e) ==
  LET p == edit[e].panel  d == edit[e].on  q == edit[e].shows IN
    /\ edit[e].st # "idle"
    /\ panel' =
         IF d \notin dashboards \/ q \notin queries \cup {NoQuery} THEN panel
         ELSE IF edit[e].st = "add"
           THEN IF panel[p].there THEN panel   \* another request has this row
                ELSE [panel EXCEPT ![p] = [there |-> TRUE, on |-> d, shows |-> q]]
         ELSE IF panel[p].there /\ panel[p].on = d
           THEN [panel EXCEPT ![p].shows = q] ELSE panel
    /\ edit' = [edit EXCEPT ![e] = NoEdit]
    /\ UNCHANGED <<dashboards, queries, drawing, logVars>>

DeletePanel(w, d, p) ==
  /\ Mine(w, d) /\ panel[p].there /\ panel[p].on = d
  /\ panel' = [panel EXCEPT ![p] = NoPanel]
  /\ UNCHANGED <<dashboards, queries, edit, drawing, logVars>>

\* Panels go with their dashboard: ON DELETE CASCADE.
DeleteDashboard(w, d) ==
  /\ Mine(w, d)
  /\ dashboards' = dashboards \ {d}
  /\ panel' = [p \in Panel |-> IF panel[p].on = d THEN NoPanel ELSE panel[p]]
  /\ UNCHANGED <<queries, edit, drawing, logVars>>

\* Panels of a deleted query show nothing: ON DELETE SET NULL.
DeleteSavedQuery(w, q) ==
  /\ q \in queries /\ QueryOf[q] = w
  /\ queries' = queries \ {q}
  /\ panel' = [p \in Panel |->
       IF panel[p].shows = q THEN [panel[p] EXCEPT !.shows = NoQuery] ELSE panel[p]]
  /\ UNCHANGED <<dashboards, edit, drawing, logVars>>

\* execute_dashboard_queries reads the panels once ...
OpenDashboard(w, d) ==
  /\ ~drawing.on /\ Mine(w, d)
  /\ drawing' = [on |-> TRUE, of |-> d, drawn |-> {},
       todo |-> {q \in Query : \E p \in Panel :
                  panel[p].there /\ panel[p].on = d /\ panel[p].shows = q}]
  /\ UNCHANGED <<dashboards, queries, panel, edit, logVars>>

\* ... and each query they show by itself; one that is gone has no result.
DrawQuery(w, q) ==
  /\ drawing.on /\ q \in drawing.todo /\ w = DashboardOf[drawing.of]
  /\ drawing' = [drawing EXCEPT !.todo = @ \ {q},
       !.drawn = IF MineToShow(w, q) THEN @ \cup {q} ELSE @]
  /\ UNCHANGED <<dashboards, queries, panel, edit, logVars>>

CloseDashboard ==
  /\ drawing.on /\ drawing.todo = {}
  /\ drawing' = NoDrawing
  /\ UNCHANGED <<dashboards, queries, panel, edit, logVars>>

PanelsNext ==
  \/ \E d \in Dashboard : CreateDashboard(d)
  \/ \E q \in Query : CreateSavedQuery(q)
  \/ CloseDashboard
  \/ \E e \in Edit :
       \/ \E w \in Tenant, p \in Panel, d \in Dashboard, q \in Shown :
            CheckPanel(e, w, p, d, q)
       \/ CommitPanel(e)
  \/ \E w \in Tenant :
       \/ \E d \in Dashboard :
            \/ \E p \in Panel : DeletePanel(w, d, p)
            \/ DeleteDashboard(w, d)
            \/ OpenDashboard(w, d)
       \/ \E q \in Query : DeleteSavedQuery(w, q) \/ DrawQuery(w, q)

-----------------------------------------------------------------------------
(* The activity log.                                                       *)

Visible(rows, since) == {t \in rows : t >= since}

\* What an export in progress owes, given the rows there now.
Owing(rows, since) ==
  IF export.st = "paging" THEN export.due \cap Visible(rows, since) ELSE export.due

\* The time is taken before the insert commits, so a row may appear behind
\* rows that are there.
LogActivity(t) ==
  /\ t \in Time \ log /\ t >= cutoff
  /\ log' = log \cup {t}
  /\ export' = [export EXCEPT !.logged = @ \/ export.st = "paging"]
  /\ UNCHANGED <<cutoff, panelVars>>

\* Time passes, or the workspace changes its retention.
MoveCutoff(t) ==
  /\ cutoff' = t
  /\ export' = [export EXCEPT !.due = Owing(log, t)]
  /\ UNCHANGED <<log, panelVars>>

\* delete_old_activity
DeleteOldActivity ==
  /\ log' = Visible(log, cutoff)
  /\ UNCHANGED <<cutoff, export, panelVars>>

BeginExport ==
  /\ export.st = "none"
  /\ export' = [NoExport EXCEPT !.st = "paging", !.due = Visible(log, cutoff)]
  /\ UNCHANGED <<log, cutoff, panelVars>>

\* get_workspace_activity: newest first, from the offset.
Newer(rows, t) == {u \in rows : u > t}
\* Variant: oldest first.
PageOldestFirst(offset) ==
  LET rows == Visible(log, cutoff)
  IN  {t \in rows : Cardinality({u \in rows : u < t})
                       \in offset .. offset + PageSize - 1}

Page(offset) ==
  LET rows == Visible(log, cutoff)
  IN  {t \in rows : Cardinality(Newer(rows, t)) \in offset .. offset + PageSize - 1}

\* iter_workspace_activity
ExportPage ==
  /\ export.st = "paging"
  /\ LET page == Page(export.offset)
         full == Cardinality(page) = PageSize
     IN  export' = [export EXCEPT
           !.sent = @ \cup page,
           !.twice = @ \/ page \cap export.sent # {},
           !.offset = IF full THEN @ + PageSize ELSE @,
           !.st = IF ~full THEN "whole"
                  ELSE IF export.offset + PageSize >= MaxRows THEN "capped"
                  ELSE "paging"]
  /\ UNCHANGED <<log, cutoff, panelVars>>

LogNext ==
  \/ \E t \in Time : LogActivity(t) \/ MoveCutoff(t)
  \/ DeleteOldActivity \/ BeginExport \/ ExportPage

RecordsNext == PanelsNext \/ LogNext

RecordsSpec == RecordsInit /\ [][RecordsNext]_recordVars

-----------------------------------------------------------------------------
(* What should hold.                                                       *)

\* Every variable keeps its type.
RecordTypes ==
  /\ dashboards \subseteq Dashboard
  /\ queries \subseteq Query
  /\ panel \in [Panel -> PanelRow]
  /\ edit \in [Edit -> EditOf]
  /\ drawing \in Drawing
  /\ log \subseteq Time
  /\ cutoff \in Nat
  /\ export \in Export

\* A panel is on a dashboard that is there and shows nothing or a saved query
\* that is there, of the dashboard's own workspace, though it was checked
\* before other requests deleted either; and a dashboard draws no others.
PanelsPointHome ==
  /\ \A p \in Panel : panel[p].there =>
       /\ panel[p].on \in dashboards
       /\ panel[p].shows # NoQuery =>
            /\ panel[p].shows \in queries
            /\ QueryOf[panel[p].shows] = DashboardOf[panel[p].on]
  /\ \A q \in drawing.drawn : QueryOf[q] = DashboardOf[drawing.of]

\* An export that ends by itself has every event that was in the log when it
\* began and stayed within the retention: pages by offset, newest first, lose
\* nothing to events logged or pruned between them.  It repeats one only if
\* events were logged while it ran, and is at most the last page longer than its
\* cap.
ExportComplete ==
  /\ export.st = "whole" => export.due \subseteq export.sent
  /\ export.twice => export.logged
  /\ Cardinality(export.sent) < MaxRows + PageSize
=============================================================================
