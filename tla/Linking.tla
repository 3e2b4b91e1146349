-------------------------------- MODULE Linking --------------------------------
(***************************************************************************)
(* Which tables of a database the model is shown for a question            *)
(* (schema_link.py, shortlist_tables of llm.py): the best by score, what   *)
(* they refer to and what joins them, and, after a round that failed, the  *)
(* tables its SQL named.  A streamed question is linked once, without the  *)
(* model's shortlist, and never again.                                     *)
(*                                                                         *)
(* What a table refers to is walked depth first (_fk_parents): a call is a *)
(* table on the stack, with the references it has not followed yet.        *)
(*                                                                         *)
(* Words are left out: a table has so many matches of each kind.  Points   *)
(* are counted in halves.  Tables are numbered in the order of their names,*)
(* which is also the order of the schema.                                  *)
(***************************************************************************)
EXTENDS Integers, FiniteSets, Sequences

CONSTANTS
  Tables,               \* how many there are
  Schemas,              \* the foreign keys there may be
  Signals,              \* what a question may match
  MaxTables, ExtraSlots, \* model_budget and _FK_EXTRA_SLOTS
  ShortlistMin,         \* _SHORTLIST_MIN_TABLES
  Rounds                \* _MAX_ATTEMPTS

Table == 1 .. Tables

Signal == [name : [Table -> Nat], keys : [Table -> Nat], columns : [Table -> Nat],
           values : [Table -> Nat], rows : [Table -> Nat],
           verified : SUBSET Table, context : SUBSET Table, catalog : SUBSET Table]

ASSUME LinkingAssumption ==
  /\ Tables \in Nat /\ MaxTables \in Nat /\ ExtraSlots \in Nat
  /\ ShortlistMin \in Nat /\ Rounds \in Nat
  /\ Schemas \subseteq [Table -> SUBSET Table]
  /\ Signals \subseteq Signal

VARIABLES
  refers,   \* schema: the tables each table refers to
  signal,   \* what the question matches
  shown,    \* linked
  missed,   \* tables failed rounds named that were not shown then
  round,    \* rounds begun; 0: not linked yet
  stage,    \* idle, or whose references are walked: "seeds", "bridges", "missing"
  picked,   \* the model's shortlist
  selected, \* selected, or added
  todo,     \* tables still to be walked from
  stack,    \* calls of the walk, the first one first
  seen,     \* met by this walk
  rest      \* references each table has not followed yet

walkVars == <<stack, seen, rest>>
linkingVars == <<refers, signal, shown, missed, round, stage, picked, selected,
                 todo, walkVars>>

LinkingInit ==
  /\ refers \in Schemas
  /\ signal \in Signals
  /\ shown = {} /\ missed = {}
  /\ round = 0
  /\ stage = "idle"
  /\ picked = {} /\ selected = {} /\ todo = {}
  /\ stack = <<>> /\ seen = {} /\ rest = [t \in Table |-> {}]

-----------------------------------------------------------------------------
(* Scores.                                                                 *)

Capped(points) == IF points > 8 THEN 8 ELSE points

\* Matches of the name, of key and other columns, and of known values.
TableScore(t) ==
  6 * signal.name[t] + Capped(3 * signal.keys[t] + 2 * signal.columns[t])
    + Capped(4 * signal.values[t])

Score(t, picks) ==
  LET bonus(S, points) == IF t \in S THEN points ELSE 0 IN
    TableScore(t) + bonus(signal.verified, 10) + bonus(signal.context, 16)
      + bonus(signal.catalog, 12) + bonus(picks, 12)

\* Best first; the largest first where nothing matches.
Before(a, b, picks) ==
  LET points(t) == IF \A u \in Table : Score(u, picks) = 0
                     THEN signal.rows[t] ELSE Score(t, picks)
  IN  points(a) > points(b) \/ (points(a) = points(b) /\ a < b)

\* The first n of S.
FirstOf(S, n, picks) ==
  {t \in S : Cardinality({u \in S : Before(u, t, picks)}) < n}

-----------------------------------------------------------------------------
(* The walk.                                                               *)

\* Variant: a table's references are not followed further.
FollowNoFurther ==
  \E i \in {Len(stack)} \ {0} : \E ref \in rest[stack[i]] :
    /\ stack' = stack
    /\ seen' = seen \cup {ref}
    /\ rest' = [rest EXCEPT ![stack[i]] = @ \ {ref}]
    /\ UNCHANGED <<refers, signal, shown, missed, round, stage, picked, selected, todo>>

\* The next reference of the table on top: seen is shared by all calls, so each
\* table is entered once.
Follow ==
  \E i \in {Len(stack)} \ {0} : \E ref \in rest[stack[i]] :
    /\ stack' = IF ref \in seen THEN stack ELSE Append(stack, ref)
    /\ seen' = seen \cup {ref}
    /\ rest' = [t \in Table |->
         CASE t = stack[i] -> rest[t] \ {ref}
           [] t = ref /\ ref \notin seen -> refers[ref]
           [] OTHER -> rest[t]]
    /\ UNCHANGED <<refers, signal, shown, missed, round, stage, picked, selected, todo>>

\* An inner call returns: its parents are its caller's too.
Return ==
  /\ Len(stack) > 1
  /\ rest[stack[Len(stack)]] = {}
  /\ stack' = SubSeq(stack, 1, Len(stack) - 1)
  /\ UNCHANGED <<refers, signal, shown, missed, round, stage, picked, selected, todo, seen, rest>>

\* What a finished walk from t has found.
Walked(t) == stack = <<t>> /\ rest[t] = {}
FkParents(t) == seen \ {t}

WalkFrom(t) ==
  /\ stack = <<>>
  /\ stack' = <<t>>
  /\ seen' = {t}
  /\ rest' = [rest EXCEPT ![t] = refers[t]]
  /\ UNCHANGED <<refers, signal, shown, missed, round, stage, picked, selected, todo>>

\* The outermost call returns to whoever walks, which goes on with the others.
DoneWith(t) ==
  /\ todo' = todo \ {t}
  /\ stack' = <<>> /\ seen' = {}
  /\ UNCHANGED <<refers, signal, shown, missed, round, stage, picked, rest>>

Rest(now) ==
  /\ stage' = now
  /\ UNCHANGED <<refers, signal, walkVars>>

-----------------------------------------------------------------------------
(* Linking.                                                                *)

\* The model is asked for a shortlist where there are many tables, and may
\* pick any, or fail and have picked none.
Shortlist == IF Tables > ShortlistMin THEN SUBSET Table ELSE {{}}

\* Few tables are all shown; else the best are the seeds.
Link ==
  /\ round = 0 /\ stage = "idle"
  /\ IF Tables <= MaxTables
       THEN /\ shown' = Table
            /\ round' = 1
            /\ Rest("idle")
            /\ UNCHANGED <<missed, picked, selected, todo>>
       ELSE /\ \E picks \in Shortlist :
                 /\ picked' = picks
                 /\ selected' = FirstOf(Table, MaxTables, picks)
            /\ todo' = selected'
            /\ Rest("seeds")
            /\ UNCHANGED <<shown, missed, round>>

\* Every seed comes with what it refers to; so does what failed SQL named.
AddParents(t) ==
  /\ stage \in {"seeds", "missing"}
  /\ \/ t \in todo /\ WalkFrom(t)
     \/ Walked(t) /\ selected' = selected \cup FkParents(t) /\ DoneWith(t)

SeedsDone ==
  /\ stage = "seeds" /\ todo = {}
  /\ todo' = Table
  /\ Rest("bridges")
  /\ UNCHANGED <<shown, missed, round, picked, selected>>

\* Tables, in the order of the schema, that join two of those selected.
AddBridge(t) ==
  /\ stage = "bridges"
  /\ \/ /\ t \in todo /\ \A u \in todo : t <= u
        /\ \/ t \notin selected /\ WalkFrom(t)
           \/ t \in selected /\ stack = <<>> /\ DoneWith(t) /\ UNCHANGED selected
     \/ /\ Walked(t)
        /\ selected' = IF Cardinality(FkParents(t) \cap selected) >= 2
                         THEN selected \cup {t} ELSE selected
        /\ DoneWith(t)

\* The best of the selected, as many as there are slots.
LinkDone ==
  /\ stage = "bridges" /\ todo = {}
  /\ shown' = FirstOf(selected, MaxTables + ExtraSlots, picked)
  /\ round' = 1
  /\ selected' = {} /\ picked' = {}
  /\ Rest("idle")
  /\ UNCHANGED <<missed, todo>>

\* A round failed whose SQL names these tables of the database.
Expand(named) ==
  LET new == named \ shown IN
    /\ round > 0 /\ round <= Rounds /\ stage = "idle"
    /\ selected' = new /\ todo' = new
    /\ missed' = missed \cup new
    /\ Rest("missing")
    /\ UNCHANGED <<shown, round, picked>>

ExpandDone ==
  /\ stage = "missing" /\ todo = {}
  /\ shown' = shown \cup selected
  /\ round' = round + 1
  /\ selected' = {}
  /\ Rest("idle")
  /\ UNCHANGED <<missed, picked, todo>>

LinkingNext ==
  \/ Link \/ SeedsDone \/ LinkDone \/ ExpandDone
  \/ Follow \/ Return
  \/ \E t \in Table : AddParents(t) \/ AddBridge(t)
  \/ \E named \in SUBSET Table : Expand(named)

LinkingSpec == LinkingInit /\ [][LinkingNext]_linkingVars

-----------------------------------------------------------------------------
(* What should hold.                                                       *)

LinkingTypes ==
  /\ refers \in [Table -> SUBSET Table]
  /\ signal \in Signal
  /\ shown \subseteq Table /\ missed \subseteq Table
  /\ round \in 0 .. Rounds + 1
  /\ stage \in {"idle", "seeds", "bridges", "missing"}
  /\ picked \subseteq Table /\ selected \subseteq Table /\ todo \subseteq Table
  /\ stack \in Seq(Table) /\ seen \subseteq Table
  /\ rest \in [Table -> SUBSET Table]

\* What every set has that has what S refers to and what its own refer to.
Ancestors(S) ==
  {a \in Table : \A C \in SUBSET Table :
     (\A t \in S \cup C : refers[t] \subseteq C) => a \in C}

\* The walk along foreign keys, which may meet or turn back, finds all that can
\* be reached and nothing else.  A question's first prompt stays within the
\* slots, and while slots are left a table comes with what it refers to, unless
\* it is there to join two others.  What a failed round named is shown from then
\* on with everything it refers to, near or far.
LinkedTogether ==
  /\ \A t \in Table : Walked(t) => FkParents(t) = Ancestors({t}) \ {t}
  /\ round = 1 => Cardinality(shown) <= MaxTables + ExtraSlots
  /\ round = 1 /\ Cardinality(shown) < MaxTables + ExtraSlots =>
       \A t \in shown : refers[t] \subseteq shown
                          \/ Cardinality((Ancestors({t}) \ {t}) \cap shown) >= 2
  /\ stage # "missing" => missed \cup Ancestors(missed) \subseteq shown
=============================================================================
