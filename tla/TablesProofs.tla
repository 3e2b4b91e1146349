----------------------------- MODULE TablesProofs -----------------------------
(***************************************************************************)
(* What the tables of Knowledge and of Records hold, for any number of     *)
(* requests, questions, panels and events.                                 *)
(*                                                                         *)
(* The replacements of a glossary or a catalog that overlap are known to   *)
(* have met, and what a transaction's DELETE does not see was written by   *)
(* one that it met (KnowledgeInv).  Whatever an edit, a deletion or a      *)
(* drawing finds, a panel was checked against its dashboard's workspace    *)
(* (PanelInv).  The pages of an export are counted by how many events are  *)
(* newer: what an export still owes is past its offset (ExportInv).        *)
(***************************************************************************)
EXTENDS Knowledge, Records, FiniteSetTheorems, WellFoundedInduction, TLAPS

-----------------------------------------------------------------------------
(* Finite sets of times, and how many events are newer.                    *)

LEMMA NewestOf ==
  ASSUME NEW X \in SUBSET Nat, IsFiniteSet(X), X # {}
  PROVE  \E m \in X : \A x \in X : x <= m
<1> DEFINE After(x) == {u \in X : u > x}
           T == {After(x) : x \in X}
           R == StrictSubsetOrdering(X)
<1>1. T \subseteq FiniteSubsetsOf(X) /\ T # {}
  <2>1. FiniteSubsetsOf(X) = SUBSET X
    BY FS_FiniteSubsetsOfFinite
  <2>2. \A x \in X : After(x) \in SUBSET X
    OBVIOUS
  <2>3. T \subseteq SUBSET X /\ T # {}
    BY <2>2
  <2>4. QED
    BY <2>1, <2>3
<1>2. PICK S \in T : \A U \in T : ~ (<<U, S>> \in R)
  <2> HIDE DEF T, R
  <2>1. IsWellFoundedOn(R, FiniteSubsetsOf(X))
    BY FS_StrictSubsetOrderingWellFounded DEF R
  <2>2. QED
    BY <1>1, <2>1, WFMin
<1>3. PICK m \in X : S = After(m)
  BY <1>2
<1>4. ASSUME NEW x \in X, x > m PROVE FALSE
  <2> x \in Nat /\ m \in Nat /\ \A u \in X : u \in Nat
    OBVIOUS
  <2>1. After(x) \subseteq After(m) /\ x \in After(m) /\ x \notin After(x)
    <3>1. \A u \in X : u > x => u > m
      BY <1>4
    <3>2. After(x) \subseteq After(m)
      BY <3>1
    <3>3. x \in After(m)
      BY <1>4
    <3>4. ~(x > x)
      OBVIOUS
    <3>5. QED
      BY <3>2, <3>3, <3>4
  <2>2. After(x) # After(m)
    BY <2>1
  <2>3. <<After(x), After(m)>> \in (SUBSET X) \X (SUBSET X)
    OBVIOUS
  <2>4. PICK pair \in (SUBSET X) \X (SUBSET X) : pair = <<After(x), After(m)>>
    BY <2>3
  <2>5. pair[1] \subseteq pair[2] /\ pair[1] # pair[2]
    BY <2>1, <2>2, <2>4
  <2>6. <<After(x), After(m)>> \in R
    BY <2>4, <2>5 DEF StrictSubsetOrdering
  <2>7. QED
    BY <1>2, <1>3, <2>6
<1>5. QED
  BY <1>4

LEMMA OldestOf ==
  ASSUME NEW X \in SUBSET Nat, IsFiniteSet(X), X # {}
  PROVE  \E m \in X : \A x \in X : x >= m
<1>1. PICK n \in X : \A x \in X : x <= n
  BY NewestOf
<1> DEFINE Y == {n - x : x \in X}
<1>2. Y \in SUBSET Nat /\ Y # {}
  BY <1>1
<1>3. IsFiniteSet(Y)
  <2>1. Y \subseteq 0..n
    BY <1>1
  <2>2. IsFiniteSet(0..n)
    BY FS_Interval
  <2>3. QED
    BY <2>1, <2>2, FS_Subset
<1>4. PICK y \in Y : \A z \in Y : z <= y
  <2> HIDE DEF Y
  <2>1. QED
    BY <1>2, <1>3, NewestOf
<1>5. PICK m \in X : y = n - m
  BY <1>4
<1>6. ASSUME NEW x \in X PROVE x >= m
  <2>1. n - x <= n - m
    BY <1>4, <1>5
  <2>2. x \in Nat /\ m \in Nat /\ n \in Nat
    OBVIOUS
  <2>3. QED
    BY <2>1, <2>2
<1>7. QED
  BY <1>6

\* The rows with fewer than k newer ones.
Latest(rows, k) == {t \in rows : Cardinality(Newer(rows, t)) < k}

LEMMA NewerFinite ==
  ASSUME NEW rows \in SUBSET Nat, IsFiniteSet(rows), NEW t \in Nat
  PROVE  /\ IsFiniteSet(Newer(rows, t)) /\ Cardinality(Newer(rows, t)) \in Nat
         /\ \A u \in Nat : u <= t =>
              Cardinality(Newer(rows, t)) <= Cardinality(Newer(rows, u))
<1>1. ASSUME NEW u \in Nat PROVE IsFiniteSet(Newer(rows, u)) /\ Cardinality(Newer(rows, u)) \in Nat
  BY FS_Subset, FS_CardinalityType DEF Newer
<1>2. ASSUME NEW u \in Nat, u <= t
      PROVE  Cardinality(Newer(rows, t)) <= Cardinality(Newer(rows, u))
  <2>1. Newer(rows, t) \subseteq Newer(rows, u)
    <3>1. \A v \in Nat : v > t => v > u
      BY <1>2
    <3>2. \A v \in rows : v \in Nat
      OBVIOUS
    <3>3. QED
      BY <3>1, <3>2 DEF Newer
  <2>2. QED
    BY <1>1, <2>1, FS_Subset
<1>3. QED
  BY <1>1, <1>2

LEMMA HeadSize ==
  ASSUME NEW rows \in SUBSET Nat, IsFiniteSet(rows), NEW k \in Nat
  PROVE  /\ IsFiniteSet(Latest(rows, k)) /\ Cardinality(Latest(rows, k)) \in Nat
         /\ Cardinality(Latest(rows, k)) <= k
         /\ (\E t \in rows : Cardinality(Newer(rows, t)) >= k) =>
              Cardinality(Latest(rows, k)) = k
<1> DEFINE H == Latest(rows, k)
<1>1. H \in SUBSET Nat /\ IsFiniteSet(H) /\ Cardinality(H) \in Nat
  BY FS_Subset, FS_CardinalityType DEF Latest
<1>2. Cardinality(H) <= k
  <2>1. CASE H = {}
    BY <2>1, FS_EmptySet
  <2>2. CASE H # {}
    <3>1. PICK y \in H : \A x \in H : x >= y
      BY <1>1, <2>2, OldestOf
    <3>2. y \in rows /\ y \in Nat /\ Cardinality(Newer(rows, y)) < k
      BY <3>1 DEF Latest
    <3>3. IsFiniteSet(Newer(rows, y)) /\ Cardinality(Newer(rows, y)) \in Nat
      BY <3>2, NewerFinite
    <3>4. H \subseteq Newer(rows, y) \cup {y}
      BY <1>1, <3>1, <3>2 DEF Latest, Newer
    <3>5. y \notin Newer(rows, y)
      BY <3>2 DEF Newer
    <3>6. /\ IsFiniteSet(Newer(rows, y) \cup {y})
          /\ Cardinality(Newer(rows, y) \cup {y}) = Cardinality(Newer(rows, y)) + 1
      BY <3>3, <3>5, FS_AddElement
    <3>7. Cardinality(H) <= Cardinality(Newer(rows, y)) + 1
      BY <3>4, <3>6, FS_Subset
    <3>8. QED
      BY <1>1, <3>2, <3>3, <3>7
  <2>3. QED
    BY <2>1, <2>2
<1>3. ASSUME NEW t \in rows, Cardinality(Newer(rows, t)) >= k PROVE Cardinality(H) >= k
  <2> DEFINE L == {u \in rows : Cardinality(Newer(rows, u)) >= k}
  <2>1. L \in SUBSET Nat /\ IsFiniteSet(L) /\ L # {}
    BY <1>3, FS_Subset
  <2>2. PICK x \in L : \A u \in L : u <= x
    <3> HIDE DEF L
    <3>1. QED
      BY <2>1, NewestOf
  <2>3. x \in rows /\ x \in Nat /\ Cardinality(Newer(rows, x)) >= k
    BY <2>2
  <2>4. Newer(rows, x) \subseteq H
    <3> SUFFICES ASSUME NEW u \in rows, u > x PROVE Cardinality(Newer(rows, u)) < k
      BY DEF Newer, Latest
    <3>1. u \in Nat /\ Cardinality(Newer(rows, u)) \in Nat
      BY NewerFinite
    <3>2. u \notin L
      BY <2>2, <2>3, <3>1
    <3>3. QED
      BY <3>1, <3>2
  <2>5. Cardinality(Newer(rows, x)) <= Cardinality(H) /\ Cardinality(Newer(rows, x)) \in Nat
    BY <1>1, <2>3, <2>4, FS_Subset, NewerFinite
  <2>6. QED
    BY <1>1, <2>3, <2>5
<1>4. QED
  BY <1>1, <1>2, <1>3

-----------------------------------------------------------------------------
(* Records: the types.                                                     *)

LEMMA NoPanelType == NoPanel \in PanelRow
  BY RecordsAssumption DEF NoPanel, PanelRow, Shown

LEMMA NoEditType == NoEdit \in EditOf
  BY RecordsAssumption DEF NoEdit, EditOf, Shown

LEMMA NoDrawingType == NoDrawing \in Drawing
  BY RecordsAssumption DEF NoDrawing, Drawing

LEMMA NoExportType == NoExport \in Export
  BY DEF NoExport, Export

LEMMA LogFinite ==
  ASSUME RecordTypes, NEW rows \in SUBSET log
  PROVE  rows \in SUBSET Nat /\ IsFiniteSet(rows)
  BY FS_Subset, RecordsAssumption DEF RecordTypes

LEMMA CommitPanelType ==
  ASSUME RecordTypes, NEW e \in Edit, CommitPanel(e) PROVE RecordTypes'
<1>1. /\ edit[e].panel \in Panel /\ edit[e].on \in Dashboard /\ edit[e].shows \in Shown
  BY DEF RecordTypes, EditOf
<1>2. panel' \in [Panel -> PanelRow]
  BY <1>1 DEF CommitPanel, RecordTypes, PanelRow
<1>3. edit' \in [Edit -> EditOf]
  BY NoEditType DEF CommitPanel, RecordTypes
<1>4. QED
  BY <1>2, <1>3 DEF CommitPanel, RecordTypes, logVars

LEMMA PanelsTypes ==
  ASSUME RecordTypes, PanelsNext PROVE RecordTypes'
<1>1. ASSUME NEW d \in Dashboard, CreateDashboard(d) PROVE RecordTypes'
  BY <1>1 DEF CreateDashboard, RecordTypes, logVars
<1>2. ASSUME NEW q \in Query, CreateSavedQuery(q) PROVE RecordTypes'
  BY <1>2 DEF CreateSavedQuery, RecordTypes, logVars
<1>3. CASE CloseDashboard
  BY <1>3, NoDrawingType DEF CloseDashboard, RecordTypes, logVars
<1>4. ASSUME NEW e \in Edit, NEW w \in Tenant, NEW p \in Panel, NEW d \in Dashboard,
             NEW q \in Shown, CheckPanel(e, w, p, d, q)
      PROVE  RecordTypes'
  BY <1>4 DEF CheckPanel, RecordTypes, EditOf, logVars
<1>5. ASSUME NEW w \in Tenant, NEW d \in Dashboard, NEW p \in Panel, DeletePanel(w, d, p)
      PROVE  RecordTypes'
  BY <1>5, NoPanelType DEF DeletePanel, RecordTypes, logVars
<1>6. ASSUME NEW w \in Tenant, NEW d \in Dashboard, DeleteDashboard(w, d) PROVE RecordTypes'
  BY <1>6, NoPanelType DEF DeleteDashboard, RecordTypes, logVars
<1>7. ASSUME NEW w \in Tenant, NEW d \in Dashboard, OpenDashboard(w, d) PROVE RecordTypes'
  BY <1>7 DEF OpenDashboard, RecordTypes, Drawing, logVars
<1>8. ASSUME NEW w \in Tenant, NEW q \in Query, DeleteSavedQuery(w, q) PROVE RecordTypes'
  BY <1>8 DEF DeleteSavedQuery, RecordTypes, PanelRow, Shown, logVars
<1>9. ASSUME NEW w \in Tenant, NEW q \in Query, DrawQuery(w, q) PROVE RecordTypes'
  <2>1. drawing' \in Drawing
    BY <1>9 DEF DrawQuery, RecordTypes, Drawing
  <2>2. QED
    BY <1>9, <2>1 DEF DrawQuery, RecordTypes, logVars
<1>10. QED
  BY <1>1, <1>2, <1>3, <1>4, <1>5, <1>6, <1>7, <1>8, <1>9, CommitPanelType DEF PanelsNext

LEMMA LogTypes ==
  ASSUME RecordTypes, LogNext PROVE RecordTypes'
<1>1. ASSUME NEW t \in Time, LogActivity(t) PROVE RecordTypes'
  BY <1>1 DEF LogActivity, RecordTypes, Export, panelVars
<1>2. ASSUME NEW t \in Time, MoveCutoff(t) PROVE RecordTypes'
  <2>1. Owing(log, t) \in SUBSET Time /\ t \in Nat
    BY RecordsAssumption DEF RecordTypes, Export, Owing
  <2>2. QED
    BY <1>2, <2>1 DEF MoveCutoff, RecordTypes, Export, panelVars
<1>3. CASE DeleteOldActivity
  BY <1>3 DEF DeleteOldActivity, RecordTypes, Visible, panelVars
<1>4. CASE BeginExport
  BY <1>4 DEF BeginExport, RecordTypes, NoExport, Export, Visible, panelVars
<1>5. CASE ExportPage
  <2>1. PICK page : page = Page(export.offset)
    OBVIOUS
  <2>2. page \subseteq Time
    BY <2>1 DEF Page, Visible, RecordTypes
  <2>3. \E full \in BOOLEAN, st \in {"whole", "capped", "paging"}, twice \in BOOLEAN :
          export' = [export EXCEPT !.sent = @ \cup page, !.twice = twice,
                       !.offset = IF full THEN @ + PageSize ELSE @, !.st = st]
    <3>1. export.twice \in BOOLEAN
      BY DEF RecordTypes, Export
    <3>2. QED
      BY <1>5, <2>1, <3>1 DEF ExportPage
  <2>4. PICK full \in BOOLEAN, st \in {"whole", "capped", "paging"}, twice \in BOOLEAN :
          export' = [export EXCEPT !.sent = @ \cup page, !.twice = twice,
                       !.offset = IF full THEN @ + PageSize ELSE @, !.st = st]
    BY <2>3
  <2>5. export' \in Export
    <3>1. export \in Export
      BY DEF RecordTypes
    <3>2. export.offset \in Nat /\ export.sent \in SUBSET Time
      BY <3>1 DEF Export
    <3>3. PageSize \in Nat
      BY RecordsAssumption
    <3>4. export.offset + PageSize \in Nat
      BY <3>2, <3>3
    <3>5. export.sent \cup page \in SUBSET Time
      BY <2>2, <3>2
    <3>6. QED
      BY <2>4, <3>1, <3>4, <3>5 DEF Export
  <2>6. QED
    BY <1>5, <2>5 DEF ExportPage, RecordTypes, panelVars
<1>6. QED
  BY <1>1, <1>2, <1>3, <1>4, <1>5 DEF LogNext

(* Panels, requests, the log and the export keep their types.              *)
THEOREM RecordsTyped == RecordsSpec => []RecordTypes
<1>1. RecordsInit => RecordTypes
  BY NoPanelType, NoEditType, NoDrawingType, NoExportType DEF RecordsInit, RecordTypes
<1>2. RecordTypes /\ [RecordsNext]_recordVars => RecordTypes'
  BY PanelsTypes, LogTypes DEF RecordsNext, recordVars, panelVars, logVars, RecordTypes
<1>3. QED
  BY <1>1, <1>2, PTL DEF RecordsSpec

-----------------------------------------------------------------------------
(* Records: panels and their workspaces.                                   *)

\* The panel shows what its dashboard's workspace has saved, or nothing.
AtHome(d, q) == q # NoQuery => QueryOf[q] = DashboardOf[d]

PanelInv ==
  /\ PanelsPointHome
  /\ \A e \in Edit : edit[e].st # "idle" => AtHome(edit[e].on, edit[e].shows)

PanelGood(row, ds, qs) ==
  row.there => row.on \in ds /\ row.shows \in qs \cup {NoQuery} /\ AtHome(row.on, row.shows)

LEMMA PanelsGood ==
  ASSUME RecordTypes
  PROVE  PanelsPointHome <=>
           /\ \A p \in Panel : PanelGood(panel[p], dashboards, queries)
           /\ \A q \in drawing.drawn : QueryOf[q] = DashboardOf[drawing.of]
  BY RecordsAssumption DEF PanelsPointHome, PanelGood, AtHome, RecordTypes, PanelRow, Shown

LEMMA PanelsStep ==
  ASSUME RecordTypes, RecordTypes', PanelInv, PanelsNext PROVE PanelInv'
<1> DEFINE Good == \A p \in Panel : PanelGood(panel[p], dashboards, queries)
           Drawn == \A q \in drawing.drawn : QueryOf[q] = DashboardOf[drawing.of]
           Edits == \A e \in Edit : edit[e].st # "idle" => AtHome(edit[e].on, edit[e].shows)
<1>1. Good /\ Drawn /\ Edits
  BY PanelsGood DEF PanelInv
<1>2. SUFFICES Good' /\ Drawn' /\ Edits'
  BY RecordsAssumption DEF PanelInv, PanelsPointHome, PanelGood, AtHome, RecordTypes,
     PanelRow, Shown
<1>3. NoQuery \notin Query /\ ~NoPanel.there /\ NoEdit.st = "idle"
  BY RecordsAssumption DEF NoPanel, NoEdit
<1>4. ASSUME NEW d \in Dashboard, CreateDashboard(d) PROVE Good' /\ Drawn' /\ Edits'
  BY <1>1, <1>4 DEF CreateDashboard, PanelGood, AtHome
<1>5. ASSUME NEW q \in Query, CreateSavedQuery(q) PROVE Good' /\ Drawn' /\ Edits'
  BY <1>1, <1>5 DEF CreateSavedQuery, PanelGood, AtHome
<1>6. CASE CloseDashboard
  BY <1>1, <1>6 DEF CloseDashboard, NoDrawing, PanelGood, AtHome
<1>7. ASSUME NEW e \in Edit, NEW w \in Tenant, NEW p \in Panel, NEW d \in Dashboard,
             NEW q \in Shown, CheckPanel(e, w, p, d, q)
      PROVE  Good' /\ Drawn' /\ Edits'
  <2>1. AtHome(d, q)
    BY <1>7 DEF CheckPanel, Mine, MineToShow, AtHome
  <2>2. \A f \in Edit :
          edit'[f] = edit[f] \/ (edit'[f].on = d /\ edit'[f].shows = q)
    BY <1>7 DEF CheckPanel, RecordTypes
  <2>3. QED
    BY <1>1, <1>7, <2>1, <2>2 DEF CheckPanel, PanelGood, AtHome
<1>8. ASSUME NEW e \in Edit, CommitPanel(e) PROVE Good' /\ Drawn' /\ Edits'
  <2> DEFINE d == edit[e].on  q == edit[e].shows
  <2>1. AtHome(d, q) /\ edit[e].panel \in Panel /\ d \in Dashboard /\ q \in Shown
    BY <1>1, <1>8 DEF CommitPanel, RecordTypes, EditOf
  <2>2. ASSUME NEW p \in Panel PROVE PanelGood(panel'[p], dashboards, queries)
    <3>1. \/ panel'[p] = panel[p]
          \/ /\ d \in dashboards /\ q \in queries \cup {NoQuery}
             /\ \/ panel'[p] = [there |-> TRUE, on |-> d, shows |-> q]
                \/ /\ panel[p].there /\ panel[p].on = d
                   /\ panel'[p] = [panel[p] EXCEPT !.shows = q]
      BY <1>8, <2>1 DEF CommitPanel, RecordTypes
    <3>2. panel[p] \in PanelRow
      BY DEF RecordTypes
    <3>3. QED
      BY <1>1, <2>1, <3>1, <3>2 DEF PanelGood, PanelRow
  <2>3. \A f \in Edit : edit'[f] = edit[f] \/ edit'[f] = NoEdit
    BY <1>8 DEF CommitPanel, RecordTypes
  <2>4. QED
    BY <1>1, <1>3, <1>8, <2>2, <2>3 DEF CommitPanel, AtHome
<1>9. ASSUME NEW w \in Tenant, NEW d \in Dashboard, NEW p \in Panel, DeletePanel(w, d, p)
      PROVE  Good' /\ Drawn' /\ Edits'
  <2>1. \A r \in Panel : panel'[r] = panel[r] \/ panel'[r] = NoPanel
    BY <1>9 DEF DeletePanel, RecordTypes
  <2>2. QED
    BY <1>1, <1>3, <1>9, <2>1 DEF DeletePanel, PanelGood, AtHome
<1>10. ASSUME NEW w \in Tenant, NEW d \in Dashboard, DeleteDashboard(w, d)
       PROVE  Good' /\ Drawn' /\ Edits'
  <2>1. \A r \in Panel :
          (panel'[r] = panel[r] /\ panel[r].on # d) \/ panel'[r] = NoPanel
    BY <1>10 DEF DeleteDashboard, RecordTypes
  <2>2. QED
    BY <1>1, <1>3, <1>10, <2>1 DEF DeleteDashboard, PanelGood, AtHome
<1>11. ASSUME NEW w \in Tenant, NEW d \in Dashboard, OpenDashboard(w, d)
       PROVE  Good' /\ Drawn' /\ Edits'
  BY <1>1, <1>11 DEF OpenDashboard, PanelGood, AtHome
<1>12. ASSUME NEW w \in Tenant, NEW q \in Query, DeleteSavedQuery(w, q)
       PROVE  Good' /\ Drawn' /\ Edits'
  <2>1. ASSUME NEW r \in Panel PROVE PanelGood(panel'[r], dashboards, queries \ {q})
    <3>1. \/ panel'[r] = panel[r] /\ panel[r].shows # q
          \/ panel'[r] = [panel[r] EXCEPT !.shows = NoQuery]
      BY <1>12 DEF DeleteSavedQuery, RecordTypes
    <3>2. panel[r] \in PanelRow
      BY DEF RecordTypes
    <3>3. QED
      BY <1>1, <3>1, <3>2 DEF PanelGood, PanelRow, AtHome
  <2>2. QED
    BY <1>1, <1>12, <2>1 DEF DeleteSavedQuery, AtHome
<1>13. ASSUME NEW w \in Tenant, NEW q \in Query, DrawQuery(w, q)
       PROVE  Good' /\ Drawn' /\ Edits'
  <2>1. /\ drawing'.of = drawing.of /\ w = DashboardOf[drawing.of]
        /\ drawing'.drawn = IF MineToShow(w, q) THEN drawing.drawn \cup {q} ELSE drawing.drawn
    BY <1>13 DEF DrawQuery, RecordTypes, Drawing
  <2>2. Drawn'
    BY <1>1, <1>3, <2>1 DEF MineToShow
  <2>3. QED
    BY <1>1, <1>13, <2>2 DEF DrawQuery, PanelGood, AtHome
<1>14. QED
  BY <1>4, <1>5, <1>6, <1>7, <1>8, <1>9, <1>10, <1>11, <1>12, <1>13 DEF PanelsNext

(* A panel is on a dashboard that is there and shows what its workspace    *)
(* saved, although the check and the write are apart and others delete     *)
(* dashboards and queries in between.                                      *)
THEOREM PanelsHome == RecordsSpec => []PanelsPointHome
<1>1. RecordsInit => PanelInv
  BY DEF RecordsInit, PanelInv, PanelsPointHome, NoPanel, NoEdit, NoDrawing
<1>2. RecordTypes /\ RecordTypes' /\ PanelInv /\ [RecordsNext]_recordVars => PanelInv'
  <2>1. ASSUME PanelInv, UNCHANGED panelVars PROVE PanelInv'
    BY <2>1 DEF PanelInv, PanelsPointHome, AtHome, panelVars
  <2>2. LogNext => UNCHANGED panelVars
    BY DEF LogNext, LogActivity, MoveCutoff, DeleteOldActivity, BeginExport, ExportPage
  <2>3. QED
    BY <2>1, <2>2, PanelsStep DEF RecordsNext, recordVars
<1>3. PanelInv => PanelsPointHome
  BY DEF PanelInv
<1>4. QED
  BY <1>1, <1>2, <1>3, RecordsTyped, PTL DEF RecordsSpec

-----------------------------------------------------------------------------
(* Records: the export.                                                    *)

LEMMA VisibleNewer ==
  ASSUME NEW rows \in SUBSET Nat, NEW since \in Nat, NEW t \in Visible(rows, since)
  PROVE  Newer(Visible(rows, since), t) = Newer(rows, t)
<1>1. t \in Nat /\ t >= since
  BY DEF Visible
<1>2. \A u \in Nat : u > t => u >= since
  BY <1>1
<1>3. \A u \in rows : u \in Nat
  OBVIOUS
<1>4. QED
  BY <1>2, <1>3 DEF Visible, Newer

\* A page holds rows with between o and o + PageSize newer ones, and all of them.
LEMMA PageFacts ==
  ASSUME RecordTypes, NEW o \in Nat
  PROVE  /\ Page(o) \subseteq log /\ IsFiniteSet(Page(o))
         /\ Cardinality(Page(o)) <= PageSize /\ Cardinality(Page(o)) \in Nat
         /\ \A t \in log : Cardinality(Newer(log, t)) \in Nat
         /\ \A t \in Visible(log, cutoff) :
              t \in Page(o) <=> /\ o <= Cardinality(Newer(log, t))
                                /\ Cardinality(Newer(log, t)) < o + PageSize
         /\ (\E t \in Visible(log, cutoff) : Cardinality(Newer(log, t)) >= o + PageSize)
              => Cardinality(Page(o)) = PageSize
<1> DEFINE V == Visible(log, cutoff)
           H == Latest(V, o)
           K == Latest(V, o + PageSize)
<1>1. /\ log \in SUBSET Nat /\ IsFiniteSet(log) /\ cutoff \in Nat
      /\ PageSize \in Nat \ {0}
  BY LogFinite, RecordsAssumption DEF RecordTypes
<1>2. V \in SUBSET Nat /\ V \subseteq log /\ IsFiniteSet(V)
  BY <1>1, FS_Subset DEF Visible
<1>3. \A t \in log : Cardinality(Newer(log, t)) \in Nat
  BY <1>1, NewerFinite
<1>4. \A t \in V : Newer(V, t) = Newer(log, t)
  BY <1>1, VisibleNewer
<1>5. \A t \in V : Cardinality(Newer(V, t)) \in Nat
  BY <1>2, <1>3, <1>4
<1>6. Page(o) = K \ H
  <2>1. Page(o) = {t \in V : Cardinality(Newer(V, t)) \in o .. o + PageSize - 1}
    BY DEF Page
  <2>2. \A t \in V : Cardinality(Newer(V, t)) \in o .. o + PageSize - 1
                       <=> t \in K /\ t \notin H
    BY <1>1, <1>5 DEF Latest
  <2>3. K \subseteq V
    BY DEF Latest
  <2>4. QED
    BY <2>1, <2>2, <2>3
<1>7. o + PageSize \in Nat
  BY <1>1
<1>8. /\ IsFiniteSet(H) /\ Cardinality(H) \in Nat
      /\ (\E t \in V : Cardinality(Newer(V, t)) >= o) => Cardinality(H) = o
  <2> HIDE DEF V
  <2>1. QED
    BY <1>2, HeadSize
<1>9. /\ IsFiniteSet(K) /\ Cardinality(K) \in Nat /\ Cardinality(K) <= o + PageSize
      /\ (\E t \in V : Cardinality(Newer(V, t)) >= o + PageSize)
           => Cardinality(K) = o + PageSize
  <2> HIDE DEF V
  <2>1. QED
    BY <1>2, <1>7, HeadSize
<1>10. H \subseteq K
  BY <1>1, <1>5 DEF Latest
<1>11. /\ IsFiniteSet(Page(o)) /\ Cardinality(Page(o)) \in Nat
       /\ Cardinality(Page(o)) = Cardinality(K) - Cardinality(H)
  <2> HIDE DEF K, H
  <2>1. K \cap H = H
    BY <1>10
  <2>2. IsFiniteSet(K \ H) /\ Cardinality(K \ H) = Cardinality(K) - Cardinality(K \cap H)
    BY <1>9, FS_Difference
  <2>3. Cardinality(K \ H) \in Nat
    BY <2>2, FS_CardinalityType
  <2>4. QED
    BY <1>6, <2>1, <2>2, <2>3
<1>12. Cardinality(Page(o)) <= PageSize
  <2>1. CASE Page(o) = {}
    BY <1>1, <2>1, FS_EmptySet
  <2>2. CASE Page(o) # {}
    <3>1. \E t \in V : Cardinality(Newer(V, t)) >= o
      BY <1>5, <1>6, <2>2 DEF Latest
    <3>2. Cardinality(H) = o
      BY <1>8, <3>1
    <3>3. QED
      BY <1>1, <1>9, <1>11, <3>2
  <2>3. QED
    BY <2>1, <2>2
<1>13. ASSUME NEW t \in V, Cardinality(Newer(log, t)) >= o + PageSize
       PROVE  Cardinality(Page(o)) = PageSize
  <2>1. Cardinality(Newer(V, t)) >= o + PageSize /\ Cardinality(Newer(V, t)) >= o
    BY <1>1, <1>4, <1>5, <1>13
  <2>2. Cardinality(H) = o
    BY <1>8, <2>1
  <2>3. Cardinality(K) = o + PageSize
    BY <1>9, <2>1
  <2>4. QED
    BY <1>1, <1>11, <2>2, <2>3
<1>14. ASSUME NEW t \in V
       PROVE  t \in Page(o) <=> /\ o <= Cardinality(Newer(log, t))
                                /\ Cardinality(Newer(log, t)) < o + PageSize
  <2>1. Cardinality(Newer(V, t)) = Cardinality(Newer(log, t))
    BY <1>4
  <2>2. QED
    BY <1>1, <1>5, <1>6, <2>1 DEF Latest
<1>15. Page(o) \subseteq log
  BY <1>2 DEF Page
<1>16. QED
  BY <1>3, <1>11, <1>12, <1>13, <1>14, <1>15

\* Rows pruned or added elsewhere do not bring a row nearer to the first.
LEMMA MoreNewer ==
  ASSUME NEW rows \in SUBSET Nat, NEW more \in SUBSET Nat, IsFiniteSet(more),
         rows \subseteq more, NEW t \in Nat
  PROVE  /\ Cardinality(Newer(rows, t)) \in Nat /\ Cardinality(Newer(more, t)) \in Nat
         /\ Cardinality(Newer(rows, t)) <= Cardinality(Newer(more, t))
<1>1. IsFiniteSet(Newer(more, t)) /\ Newer(rows, t) \subseteq Newer(more, t)
  BY FS_Subset DEF Newer
<1>2. QED
  BY <1>1, FS_Subset, FS_CardinalityType

\* What an export in progress has sent and what it still owes are on either side
\* of its offset.
PagingInv ==
  /\ export.due \subseteq Visible(log, cutoff)
  /\ \A t \in export.due \ export.sent : Cardinality(Newer(log, t)) >= export.offset
  /\ ~export.logged =>
       \A t \in export.sent \cap log : Cardinality(Newer(log, t)) < export.offset
  /\ Cardinality(export.sent) <= export.offset
  /\ export.offset < MaxRows

ExportInv ==
  /\ export.st = "paging" => PagingInv
  /\ export.st \in {"none", "paging", "whole", "capped"}
  /\ export.st = "whole" => export.due \subseteq export.sent
  /\ export.twice => export.logged
  /\ IsFiniteSet(export.sent)
  /\ Cardinality(export.sent) < MaxRows + PageSize

\* An event that is logged pushes others back, and one that expires is not owed.
LEMMA LogStep ==
  ASSUME RecordTypes, ExportInv,
         (\E t \in Time : LogActivity(t) \/ MoveCutoff(t)) \/ DeleteOldActivity
  PROVE  ExportInv'
<1>1. /\ log \in SUBSET Nat /\ IsFiniteSet(log) /\ cutoff \in Nat /\ export \in Export
      /\ export.offset \in Nat /\ export.due \subseteq Time /\ Time \in SUBSET Nat
  BY LogFinite, RecordsAssumption DEF RecordTypes, Export
<1>2. ASSUME NEW t \in Time, LogActivity(t) PROVE ExportInv'
  <2>1. /\ log' = log \cup {t} /\ cutoff' = cutoff
        /\ export' = [export EXCEPT !.logged = export.logged \/ export.st = "paging"]
    BY <1>2 DEF LogActivity
  <2>2. /\ export'.st = export.st /\ export'.due = export.due /\ export'.sent = export.sent
        /\ export'.offset = export.offset /\ export'.twice = export.twice
        /\ export'.logged <=> (export.logged \/ export.st = "paging")
    BY <1>1, <2>1 DEF Export
  <2>3. CASE export.st = "paging"
    <3>1. log' \in SUBSET Nat /\ IsFiniteSet(log') /\ log \subseteq log'
      BY <1>1, <2>1, FS_AddElement
    <3>2. \A u \in export.due \ export.sent : Cardinality(Newer(log', u)) >= export.offset
      <4> SUFFICES ASSUME NEW u \in export.due \ export.sent
                   PROVE  Cardinality(Newer(log', u)) >= export.offset
        OBVIOUS
      <4>1. Cardinality(Newer(log, u)) >= export.offset
        BY <2>3 DEF ExportInv, PagingInv
      <4>2. /\ Cardinality(Newer(log, u)) \in Nat /\ Cardinality(Newer(log', u)) \in Nat
            /\ Cardinality(Newer(log, u)) <= Cardinality(Newer(log', u))
        BY <1>1, <3>1, MoreNewer
      <4>3. QED
        BY <1>1, <4>1, <4>2
    <3>3. export.due \subseteq Visible(log', cutoff)
      BY <2>3, <3>1 DEF ExportInv, PagingInv, Visible
    <3>4. PagingInv'
      BY <2>1, <2>2, <2>3, <3>2, <3>3 DEF ExportInv, PagingInv
    <3>5. QED
      BY <2>2, <2>3, <3>4 DEF ExportInv
  <2>4. CASE export.st # "paging"
    BY <2>2, <2>4 DEF ExportInv
  <2>5. QED
    BY <2>3, <2>4
<1>3. ASSUME NEW t \in Time, MoveCutoff(t) PROVE ExportInv'
  <2>1. /\ log' = log /\ cutoff' = t
        /\ export' = [export EXCEPT !.due = Owing(log, t)]
    BY <1>3 DEF MoveCutoff
  <2>2. /\ export'.st = export.st /\ export'.due = Owing(log, t) /\ export'.sent = export.sent
        /\ export'.offset = export.offset /\ export'.twice = export.twice
        /\ export'.logged = export.logged
    BY <1>1, <2>1 DEF Export
  <2>3. CASE export.st = "paging"
    <3>1. export'.due \subseteq export.due /\ export'.due \subseteq Visible(log, t)
      BY <2>2, <2>3 DEF Owing
    <3>2. PagingInv'
      BY <2>1, <2>2, <2>3, <3>1 DEF ExportInv, PagingInv
    <3>3. QED
      BY <2>2, <2>3, <3>2 DEF ExportInv
  <2>4. CASE export.st # "paging"
    <3>1. export'.due = export.due
      BY <2>2, <2>4 DEF Owing
    <3>2. QED
      BY <2>2, <2>4, <3>1 DEF ExportInv
  <2>5. QED
    BY <2>3, <2>4
<1>4. CASE DeleteOldActivity
  <2>1. log' = Visible(log, cutoff) /\ cutoff' = cutoff /\ export' = export
    BY <1>4 DEF DeleteOldActivity
  <2>2. CASE export.st = "paging"
    <3>1. log' \subseteq log
      BY <2>1 DEF Visible
    <3>2. \A u \in export.due \ export.sent : Cardinality(Newer(log', u)) >= export.offset
      BY <1>1, <2>1, <2>2, VisibleNewer DEF ExportInv, PagingInv
    <3>3. ASSUME ~export.logged, NEW u \in export.sent \cap log'
          PROVE  Cardinality(Newer(log', u)) < export.offset
      <4>1. Newer(log', u) = Newer(log, u)
        BY <1>1, <2>1, VisibleNewer
      <4>2. QED
        BY <2>2, <3>1, <3>3, <4>1 DEF ExportInv, PagingInv
    <3>4. export.due \subseteq Visible(log', cutoff)
      BY <2>1, <2>2 DEF ExportInv, PagingInv, Visible
    <3>5. PagingInv'
      BY <2>1, <2>2, <3>2, <3>3, <3>4 DEF ExportInv, PagingInv
    <3>6. QED
      BY <2>1, <3>5 DEF ExportInv
  <2>3. CASE export.st # "paging"
    BY <2>1, <2>3 DEF ExportInv
  <2>4. QED
    BY <2>2, <2>3
<1>5. QED
  BY <1>2, <1>3, <1>4

LEMMA BeginExportStep ==
  ASSUME RecordTypes, BeginExport PROVE ExportInv'
<1>1. export' = [NoExport EXCEPT !.st = "paging", !.due = Visible(log, cutoff)]
  BY DEF BeginExport
<1>2. /\ export'.st = "paging" /\ export'.due = Visible(log, cutoff) /\ export'.sent = {}
      /\ export'.offset = 0 /\ export'.twice = FALSE /\ export'.logged = FALSE
  BY <1>1 DEF NoExport
<1>3. IsFiniteSet({}) /\ Cardinality({}) = 0
  BY FS_EmptySet
<1>4. log \in SUBSET Nat /\ IsFiniteSet(log)
  BY LogFinite
<1>5. \A t \in log : Cardinality(Newer(log, t)) \in Nat
  BY <1>4, NewerFinite
<1>6. Visible(log, cutoff) \subseteq log
  BY DEF Visible
<1>7. \A t \in export'.due \ export'.sent : Cardinality(Newer(log, t)) >= export'.offset
  BY <1>2, <1>5, <1>6
<1>8. MaxRows \in Nat \ {0} /\ PageSize \in Nat \ {0}
  BY RecordsAssumption
<1>9. log' = log /\ cutoff' = cutoff
  BY DEF BeginExport
<1>10. PagingInv'
  BY <1>2, <1>3, <1>7, <1>8, <1>9 DEF PagingInv
<1>11. QED
  BY <1>2, <1>3, <1>8, <1>10 DEF ExportInv

LEMMA ExportPageStep ==
  ASSUME RecordTypes, ExportInv, ExportPage PROVE ExportInv'
<1> DEFINE o == export.offset
           page == Page(o)
           full == Cardinality(page) = PageSize
<1>1. /\ o \in Nat /\ export \in Export /\ log \in SUBSET Nat
      /\ PageSize \in Nat \ {0} /\ MaxRows \in Nat \ {0}
  BY LogFinite, RecordsAssumption DEF RecordTypes, Export
<1>2. export.st = "paging" /\ PagingInv
  BY DEF ExportPage, ExportInv
<1>3. log' = log /\ cutoff' = cutoff
  BY DEF ExportPage
<1>4. /\ export'.sent = export.sent \cup page /\ export'.due = export.due
      /\ export'.twice <=> (export.twice \/ page \cap export.sent # {})
      /\ export'.logged = export.logged
      /\ export'.offset = IF full THEN o + PageSize ELSE o
      /\ export'.st = IF ~full THEN "whole"
                      ELSE IF o + PageSize >= MaxRows THEN "capped" ELSE "paging"
  BY <1>1 DEF ExportPage, Export
<1>5. /\ page \subseteq log /\ IsFiniteSet(page)
      /\ Cardinality(page) <= PageSize /\ Cardinality(page) \in Nat
      /\ \A t \in log : Cardinality(Newer(log, t)) \in Nat
      /\ \A t \in Visible(log, cutoff) :
           t \in page <=> /\ o <= Cardinality(Newer(log, t))
                          /\ Cardinality(Newer(log, t)) < o + PageSize
      /\ (\E t \in Visible(log, cutoff) : Cardinality(Newer(log, t)) >= o + PageSize)
           => Cardinality(page) = PageSize
  BY <1>1, PageFacts
<1> HIDE DEF page
<1>6. Visible(log, cutoff) \subseteq log /\ page \subseteq Visible(log, cutoff)
  BY DEF Visible, page, Page
\* The events still owed are behind this page.
<1>7. ASSUME NEW t \in export.due \ export'.sent
      PROVE  Cardinality(Newer(log, t)) >= o + PageSize /\ t \in Visible(log, cutoff)
  <2>1. t \in Visible(log, cutoff) /\ Cardinality(Newer(log, t)) >= o /\ t \notin page
    BY <1>2, <1>4, <1>7 DEF PagingInv
  <2>2. Cardinality(Newer(log, t)) \in Nat
    BY <1>5, <1>6, <2>1
  <2>3. QED
    BY <1>1, <1>5, <2>1, <2>2
<1>8. export'.st = "whole" => export'.due \subseteq export'.sent
  BY <1>1, <1>4, <1>5, <1>7
\* A row of this page was not sent unless others were logged in front of it.
<1>9. export'.twice => export'.logged
  <2> SUFFICES ASSUME NEW t \in page \cap export.sent, ~export.logged PROVE FALSE
    BY <1>4 DEF ExportInv
  <2>1. Cardinality(Newer(log, t)) < o
    BY <1>2, <1>5 DEF PagingInv
  <2>2. o <= Cardinality(Newer(log, t)) /\ Cardinality(Newer(log, t)) \in Nat
    BY <1>5, <1>6
  <2>3. QED
    BY <1>1, <2>1, <2>2
<1>10. /\ IsFiniteSet(export'.sent) /\ Cardinality(export'.sent) \in Nat
       /\ Cardinality(export'.sent) <= o + PageSize
  <2>1. IsFiniteSet(export.sent) /\ Cardinality(export.sent) <= o
    BY <1>2 DEF ExportInv, PagingInv
  <2>2. /\ IsFiniteSet(export.sent \cup page)
        /\ Cardinality(export.sent \cup page)
             = Cardinality(export.sent) + Cardinality(page) - Cardinality(export.sent \cap page)
    BY <1>5, <2>1, FS_Union
  <2>3. /\ Cardinality(export.sent) \in Nat /\ Cardinality(export.sent \cup page) \in Nat
        /\ Cardinality(export.sent \cap page) \in Nat
    BY <2>1, <2>2, FS_CardinalityType, FS_Intersection
  <2>4. QED
    BY <1>1, <1>4, <1>5, <2>1, <2>2, <2>3
<1>11. Cardinality(export'.sent) < MaxRows + PageSize
  BY <1>1, <1>2, <1>10 DEF PagingInv
<1>12. ASSUME export'.st = "paging" PROVE PagingInv'
  <2>1. export'.offset = o + PageSize /\ o + PageSize < MaxRows
    BY <1>1, <1>4, <1>12
  <2>2. ASSUME ~export'.logged, NEW t \in export'.sent \cap log
        PROVE  Cardinality(Newer(log, t)) < o + PageSize
    <3>1. CASE t \in page
      BY <1>5, <1>6, <3>1
    <3>2. CASE t \in export.sent
      <4>1. Cardinality(Newer(log, t)) < o /\ Cardinality(Newer(log, t)) \in Nat
        BY <1>2, <1>4, <1>5, <2>2, <3>2 DEF PagingInv
      <4>2. QED
        BY <1>1, <4>1
    <3>3. QED
      BY <1>4, <3>1, <3>2
  <2>3. export'.due \subseteq Visible(log', cutoff')
    BY <1>2, <1>3, <1>4 DEF PagingInv
  <2>4. \A t \in export'.due \ export'.sent : Cardinality(Newer(log, t)) >= export'.offset
    BY <1>4, <1>7, <2>1
  <2>5. QED
    BY <1>3, <1>10, <2>1, <2>2, <2>3, <2>4 DEF PagingInv
<1>13. QED
  BY <1>4, <1>8, <1>9, <1>10, <1>11, <1>12 DEF ExportInv

(* An export that ends by itself has every event that was there and stayed *)
(* in the retention, repeats one only if others were logged meanwhile, and *)
(* is at most a page over its cap, for every page size, cap and log.       *)
THEOREM ExportHasAll == RecordsSpec => []ExportComplete
<1>1. RecordsInit => ExportInv
  <2>1. IsFiniteSet({}) /\ Cardinality({}) = 0
    BY FS_EmptySet
  <2>2. MaxRows \in Nat \ {0} /\ PageSize \in Nat \ {0}
    BY RecordsAssumption
  <2>3. QED
    BY <2>1, <2>2 DEF RecordsInit, NoExport, ExportInv
<1>2. RecordTypes /\ ExportInv /\ [RecordsNext]_recordVars => ExportInv'
  <2>1. ASSUME ExportInv, UNCHANGED logVars PROVE ExportInv'
    BY <2>1 DEF ExportInv, PagingInv, logVars, Newer, Visible
  <2>2. PanelsNext => UNCHANGED logVars
    BY DEF PanelsNext, CreateDashboard, CreateSavedQuery, CloseDashboard, CheckPanel,
       CommitPanel, DeletePanel, DeleteDashboard, OpenDashboard, DeleteSavedQuery, DrawQuery
  <2>3. QED
    BY <2>1, <2>2, LogStep, BeginExportStep, ExportPageStep
       DEF RecordsNext, LogNext, recordVars
<1>3. ExportInv => ExportComplete
  BY DEF ExportInv, ExportComplete
<1>4. QED
  BY <1>1, <1>2, <1>3, RecordsTyped, PTL DEF RecordsSpec

-----------------------------------------------------------------------------
(* Knowledge: what a step of a request does.                               *)

PostStep(r) ==
  \/ OnboardGlossary(r) \/ SetGlossary(r) \/ ReadVerified(r) \/ AddVerified(r)
  \/ LookAtCatalog(r) \/ DescribeSchema(r) \/ SaveCatalog(r) \/ SetCatalog(r)
  \/ StoreStarters(r) \/ BeginSeed(r) \/ SeedSample(r) \/ FailPost(r)

LEMMA MovesFacts ==
  ASSUME KnowledgeTypes, NEW r \in Posts, NEW st, NEW old, Moves(r, st, old)
  PROVE  /\ \A s \in Posts \ {r} : post'[s] = post[s]
         /\ \A s \in Posts : post'[s].kind = post[s].kind /\ post'[s].about = post[s].about
         /\ post'[r].st = st /\ post'[r].old = old
  BY DEF KnowledgeTypes, Moves, Posted

LEMMA MovesType ==
  ASSUME KnowledgeTypes, NEW r \in Posts, NEW st, NEW old \in SUBSET Posts, Moves(r, st, old),
         st \in {"unsent", "teaching", "looking", "over"} \cup Writing
  PROVE  post' \in [Posts -> Posted]
<1>1. post \in [Posts -> Posted] /\ post[r] \in Posted
  BY DEF KnowledgeTypes
<1>2. post' = [post EXCEPT ![r] = [post[r] EXCEPT !.st = st, !.old = old]]
  BY <1>1 DEF Moves
<1>3. [post[r] EXCEPT !.st = st, !.old = old] \in Posted
  BY <1>1 DEF Posted
<1>4. QED
  BY <1>1, <1>2, <1>3

LEMMA MeetsType ==
  ASSUME KnowledgeTypes, NEW r \in Posts, Meets(r) \/ met' = met
  PROVE  met' \subseteq SUBSET Posts
  BY DEF KnowledgeTypes, Meets

LEMMA AfterQuestionForms ==
  ASSUME NEW r \in Posts
  PROVE  \/ AfterQuestion(r) = "looking" /\ post[r].kind = "onboard"
         \/ AfterQuestion(r) = "over"
  BY DEF AfterQuestion

\* How far a step takes its request, and what its DELETE sees.
LEMMA PostMoves ==
  ASSUME KnowledgeTypes, NEW r \in Posts, PostStep(r)
  PROVE  /\ \E st \in {"teaching", "looking", "over"} \cup Writing, old \in SUBSET Posts :
              Moves(r, st, old)
         /\ post[r].st # "over"
         /\ \/ Meets(r)
            \/ /\ met' = met
               /\ post'[r].st \notin Writing \/ post[r].st \in Writing
<1> DEFINE Somewhere == \E st \in {"teaching", "looking", "over"} \cup Writing,
                          old \in SUBSET Posts : Moves(r, st, old)
           Apart == \/ Meets(r)
                    \/ met' = met /\ (post'[r].st \notin Writing \/ post[r].st \in Writing)
<1>1. {} \in SUBSET Posts /\ terms \in SUBSET Posts /\ catalog \in SUBSET Posts
  BY DEF KnowledgeTypes
<1>2. CASE OnboardGlossary(r)
  <2>1. \/ Moves(r, "defining", terms) /\ Meets(r)
        \/ Moves(r, "teaching", {}) /\ met' = met
    BY <1>2 DEF OnboardGlossary
  <2>2. Somewhere /\ Apart
    BY <1>1, <2>1, MovesFacts DEF Writing
  <2>3. QED
    BY <1>2, <2>2 DEF OnboardGlossary
<1>3. CASE SetGlossary(r)
  <2>1. Moves(r, "teaching", {}) /\ met' = met
    BY <1>3 DEF SetGlossary
  <2>2. Somewhere /\ Apart
    BY <1>1, <2>1, MovesFacts DEF Writing
  <2>3. QED
    BY <1>3, <2>2 DEF SetGlossary
<1>4. CASE ReadVerified(r)
  <2>1. \/ Moves(r, AfterQuestion(r), {}) /\ met' = met
        \/ Moves(r, "adding", {}) /\ Meets(r)
    BY <1>4 DEF ReadVerified
  <2>2. Somewhere /\ Apart
    BY <1>1, <2>1, MovesFacts, AfterQuestionForms DEF Writing
  <2>3. QED
    BY <1>4, <2>2 DEF ReadVerified, Verifies
<1>5. CASE AddVerified(r)
  <2>1. Moves(r, AfterQuestion(r), {}) /\ met' = met
    BY <1>5 DEF AddVerified
  <2>2. Somewhere /\ Apart
    BY <1>1, <2>1, MovesFacts, AfterQuestionForms DEF Writing
  <2>3. QED
    BY <1>5, <2>2 DEF AddVerified
<1>6. CASE LookAtCatalog(r)
  <2>1. \/ Moves(r, "finding", {}) /\ Meets(r)
        \/ Moves(r, "over", {}) /\ met' = met
    BY <1>6 DEF LookAtCatalog
  <2>2. Somewhere /\ Apart
    BY <1>1, <2>1, MovesFacts DEF Writing
  <2>3. QED
    BY <1>6, <2>2 DEF LookAtCatalog
<1>7. CASE DescribeSchema(r)
  <2>1. Moves(r, "describing", catalog) /\ met' = met /\ post[r].st = "finding"
    BY <1>7 DEF DescribeSchema
  <2>2. Somewhere /\ Apart
    BY <1>1, <2>1, MovesFacts DEF Writing
  <2>3. QED
    BY <2>1, <2>2
<1>8. CASE SaveCatalog(r)
  <2>1. Moves(r, "describing", catalog) /\ Meets(r) /\ post[r].st = "unsent"
    BY <1>8 DEF SaveCatalog
  <2>2. Somewhere /\ Apart
    BY <1>1, <2>1 DEF Writing
  <2>3. QED
    BY <2>1, <2>2
<1>9. CASE SetCatalog(r) \/ StoreStarters(r) \/ SeedSample(r) \/ FailPost(r)
  <2>1. Moves(r, "over", {}) /\ met' = met /\ post[r].st \in {"unsent"} \cup Writing
    BY <1>9 DEF SetCatalog, StoreStarters, SeedSample, FailPost, Writing
  <2>2. Somewhere /\ Apart
    BY <1>1, <2>1, MovesFacts DEF Writing
  <2>3. QED
    BY <2>1, <2>2 DEF Writing
<1>10. CASE BeginSeed(r)
  <2>1. \/ Moves(r, "over", {}) /\ met' = met
        \/ Moves(r, "seeding", terms) /\ Meets(r)
    BY <1>10 DEF BeginSeed
  <2>2. Somewhere /\ Apart
    BY <1>1, <2>1, MovesFacts DEF Writing
  <2>3. QED
    BY <1>10, <2>2 DEF BeginSeed
<1>11. QED
  BY <1>2, <1>3, <1>4, <1>5, <1>6, <1>7, <1>8, <1>9, <1>10 DEF PostStep

\* The same, as what later steps use.
LEMMA PostFacts ==
  ASSUME KnowledgeTypes, NEW r \in Posts, PostStep(r)
  PROVE  /\ \A s \in Posts \ {r} : post'[s] = post[s]
         /\ \A s \in Posts : post'[s].kind = post[s].kind /\ post'[s].about = post[s].about
         /\ post' \in [Posts -> Posted] /\ met' \subseteq SUBSET Posts
         /\ post[r].st # "over"
         /\ met \subseteq met'
         /\ post'[r].st \in Writing /\ post[r].st \notin Writing =>
              \A s \in Posts \ {r} : post[s].st \in Writing => {r, s} \in met'
<1>1. PICK st \in {"teaching", "looking", "over"} \cup Writing, old \in SUBSET Posts :
        Moves(r, st, old)
  BY PostMoves
<1>2. /\ \A s \in Posts \ {r} : post'[s] = post[s]
      /\ \A s \in Posts : post'[s].kind = post[s].kind /\ post'[s].about = post[s].about
  BY <1>1, MovesFacts
<1>3. post' \in [Posts -> Posted]
  BY <1>1, MovesType
<1>4. met' \subseteq SUBSET Posts
  BY PostMoves, MeetsType
<1>5. met \subseteq met'
  BY PostMoves DEF Meets
<1>6. post'[r].st \in Writing /\ post[r].st \notin Writing =>
        \A s \in Posts \ {r} : post[s].st \in Writing => {r, s} \in met'
  BY PostMoves DEF Meets
<1>7. QED
  BY <1>2, <1>3, <1>4, <1>5, <1>6, PostMoves

\* Who writes which table.
LEMMA Writers ==
  ASSUME NEW r \in Posts, PostStep(r)
  PROVE  /\ terms' = terms \/ SetGlossary(r) \/ SeedSample(r)
         /\ catalog' = catalog \/ SetCatalog(r)
         /\ verified' = verified \/ AddVerified(r) \/ StoreStarters(r) \/ SeedSample(r)
  BY DEF PostStep, OnboardGlossary, SetGlossary, ReadVerified, AddVerified, LookAtCatalog,
     DescribeSchema, SaveCatalog, SetCatalog, StoreStarters, BeginSeed, SeedSample, FailPost

\* What a request has found when it sets out to write.
LEMMA SetsOut ==
  ASSUME KnowledgeTypes, NEW r \in Posts, PostStep(r)
  PROVE  /\ post'[r].st = "defining" =>
              post[r].kind = "onboard" /\ post'[r].old = terms /\ terms' = terms
         /\ post'[r].st = "seeding" =>
              post[r].kind = "sample" /\ post'[r].old = terms /\ terms' = terms
         /\ post'[r].st = "adding" =>
              /\ verified' = verified
              /\ ~ \E q \in Known : Similar(q, post[r].about)
         /\ post'[r].st = "finding" => catalog = {} /\ catalog' = catalog
         /\ post'[r].st = "describing" =>
              /\ post'[r].old = catalog /\ catalog' = catalog
              /\ post[r].kind = "catalog" \/ post[r].st = "finding"
<1> DEFINE Goal ==
         /\ post'[r].st = "defining" =>
              post[r].kind = "onboard" /\ post'[r].old = terms /\ terms' = terms
         /\ post'[r].st = "seeding" =>
              post[r].kind = "sample" /\ post'[r].old = terms /\ terms' = terms
         /\ post'[r].st = "adding" =>
              /\ verified' = verified
              /\ ~ \E q \in Known : Similar(q, post[r].about)
         /\ post'[r].st = "finding" => catalog = {} /\ catalog' = catalog
         /\ post'[r].st = "describing" =>
              /\ post'[r].old = catalog /\ catalog' = catalog
              /\ post[r].kind = "catalog" \/ post[r].st = "finding"
<1>1. CASE OnboardGlossary(r)
  <2>1. \/ Moves(r, "defining", terms)
        \/ Moves(r, "teaching", {})
    BY <1>1 DEF OnboardGlossary
  <2>2. \/ post'[r].st = "defining" /\ post'[r].old = terms
        \/ post'[r].st = "teaching"
    BY <2>1, MovesFacts
  <2>3. QED
    BY <1>1, <2>2 DEF OnboardGlossary
<1>2. CASE ReadVerified(r)
  <2>1. \/ Moves(r, AfterQuestion(r), {})
        \/ Moves(r, "adding", {}) /\ ~ \E q \in Known : Similar(q, post[r].about)
    BY <1>2 DEF ReadVerified
  <2>2. \/ post'[r].st \in {"looking", "over"}
        \/ post'[r].st = "adding" /\ ~ \E q \in Known : Similar(q, post[r].about)
    BY <2>1, MovesFacts, AfterQuestionForms
  <2>3. QED
    BY <1>2, <2>2 DEF ReadVerified
<1>3. CASE LookAtCatalog(r)
  <2>1. \/ Moves(r, "finding", {}) /\ catalog = {}
        \/ Moves(r, "over", {})
    BY <1>3 DEF LookAtCatalog
  <2>2. \/ post'[r].st = "finding" /\ catalog = {}
        \/ post'[r].st = "over"
    BY <2>1, MovesFacts
  <2>3. QED
    BY <1>3, <2>2 DEF LookAtCatalog
<1>4. CASE DescribeSchema(r) \/ SaveCatalog(r)
  <2>1. Moves(r, "describing", catalog) /\ catalog' = catalog
    BY <1>4 DEF DescribeSchema, SaveCatalog
  <2>2. post'[r].st = "describing" /\ post'[r].old = catalog
    BY <2>1, MovesFacts
  <2>3. post[r].kind = "catalog" \/ post[r].st = "finding"
    BY <1>4 DEF DescribeSchema, SaveCatalog
  <2>4. QED
    BY <2>1, <2>2, <2>3
<1>5. CASE BeginSeed(r)
  <2>1. \/ Moves(r, "seeding", terms)
        \/ Moves(r, "over", {})
    BY <1>5 DEF BeginSeed
  <2>2. \/ post'[r].st = "seeding" /\ post'[r].old = terms
        \/ post'[r].st = "over"
    BY <2>1, MovesFacts
  <2>3. QED
    BY <1>5, <2>2 DEF BeginSeed
<1>6. CASE SetGlossary(r) \/ AddVerified(r) \/ SetCatalog(r) \/ StoreStarters(r)
           \/ SeedSample(r) \/ FailPost(r)
  <2>1. \E st \in {"teaching", "looking", "over"} : Moves(r, st, {})
    BY <1>6, AfterQuestionForms DEF SetGlossary, AddVerified, SetCatalog, StoreStarters,
       SeedSample, FailPost
  <2>2. post'[r].st \in {"teaching", "looking", "over"}
    BY <2>1, MovesFacts
  <2>3. QED
    BY <2>2
<1>7. QED
  BY <1>1, <1>2, <1>3, <1>4, <1>5, <1>6 DEF PostStep

(* Questions, glossary, catalog and requests keep their types.             *)
THEOREM KnowledgeTyped == KnowledgeSpec => []KnowledgeTypes
<1>1. KnowledgeInit => KnowledgeTypes
  BY DEF KnowledgeInit, KnowledgeTypes, Unsent, Posted, Kind
<1>2. ASSUME KnowledgeTypes, NEW r \in Posts, PostStep(r) PROVE KnowledgeTypes'
  <2>1. terms' \subseteq Posts
    BY <1>2, Writers DEF KnowledgeTypes, SetGlossary, SeedSample
  <2>2. catalog' \subseteq Posts
    BY <1>2, Writers DEF KnowledgeTypes, SetCatalog
  <2>3. verified' \in [Asked -> Posts \cup {NoPost}]
    <3>1. CASE AddVerified(r)
      <4>1. post[r].about \in Asked
        BY <1>2 DEF KnowledgeTypes, Posted
      <4>2. QED
        BY <1>2, <3>1, <4>1 DEF AddVerified, KnowledgeTypes
    <3>2. CASE StoreStarters(r) \/ SeedSample(r)
      BY <1>2, <3>2 DEF StoreStarters, SeedSample, KnowledgeTypes
    <3>3. CASE verified' = verified
      BY <1>2, <3>3 DEF KnowledgeTypes
    <3>4. QED
      BY <1>2, <3>1, <3>2, <3>3, Writers
  <2>4. QED
    BY <1>2, <2>1, <2>2, <2>3, PostFacts DEF KnowledgeTypes
<1>3. KnowledgeTypes /\ UNCHANGED knowledgeVars => KnowledgeTypes'
  BY DEF KnowledgeTypes, knowledgeVars
<1>4. KnowledgeTypes /\ [KnowledgeNext]_knowledgeVars => KnowledgeTypes'
  BY <1>2, <1>3 DEF KnowledgeNext, PostStep
<1>5. QED
  BY <1>1, <1>4, PTL DEF KnowledgeSpec

-----------------------------------------------------------------------------
(* Knowledge: the sample is seeded once.                                   *)

\* Who may be where, and the glossary of a sample is there with its questions.
SeedInv ==
  /\ \A r \in Posts : post[r].st = "defining" => post[r].kind = "onboard"
  /\ \A r \in Posts : post[r].st = "seeding" => post[r].kind = "sample"
  /\ \A r \in terms : post[r].kind = "sample" => SampleQuestions \subseteq Known
  /\ SeededOnce

LEMMA KnownGrows ==
  ASSUME KnowledgeTypes, NEW r \in Posts, PostStep(r)
  PROVE  /\ Known \subseteq Known'
         /\ \A q \in Known : verified'[q] = verified[q]
<1>1. NoPost \notin Posts /\ r # NoPost
  BY KnowledgeAssumption
<1>2. CASE verified' = verified
  BY <1>2 DEF Known
<1>3. CASE AddVerified(r)
  <2>1. verified' = [verified EXCEPT ![post[r].about] = IF @ = NoPost THEN r ELSE @]
    BY <1>3 DEF AddVerified
  <2>2. \A q \in Known : verified'[q] = verified[q]
    BY <2>1 DEF Known, KnowledgeTypes
  <2>3. QED
    BY <2>2 DEF Known
<1>4. CASE StoreStarters(r)
  <2>1. \A q \in Asked : verified[q] # NoPost => verified'[q] = verified[q]
    BY <1>4 DEF StoreStarters
  <2>2. QED
    BY <2>1 DEF Known
<1>5. CASE SeedSample(r)
  <2>1. \A q \in Asked : verified[q] # NoPost => verified'[q] = verified[q]
    BY <1>5 DEF SeedSample, Known
  <2>2. QED
    BY <2>1 DEF Known
<1>6. QED
  BY <1>2, <1>3, <1>4, <1>5, Writers

LEMMA SeedStep ==
  ASSUME KnowledgeTypes, SeedInv, NEW r \in Posts, PostStep(r) PROVE SeedInv'
<1>1. /\ \A s \in Posts \ {r} : post'[s] = post[s]
      /\ \A s \in Posts : post'[s].kind = post[s].kind
  BY PostFacts
<1>2. /\ \A s \in Posts : post'[s].st = "defining" => post'[s].kind = "onboard"
      /\ \A s \in Posts : post'[s].st = "seeding" => post'[s].kind = "sample"
  BY <1>1, SetsOut DEF SeedInv
<1>3. Known \subseteq Known' /\ terms \subseteq Posts
  BY KnownGrows DEF KnowledgeTypes
<1>4. CASE terms' \subseteq terms
  BY <1>1, <1>2, <1>3, <1>4 DEF SeedInv, SeededOnce
<1>5. CASE SetGlossary(r)
  <2>1. terms' \subseteq terms \cup {r} /\ post[r].kind = "onboard"
    BY <1>5 DEF SetGlossary, SeedInv
  <2>2. QED
    BY <1>1, <1>2, <1>3, <2>1 DEF SeedInv, SeededOnce
<1>6. CASE SeedSample(r) /\ terms' # terms
  <2>1. /\ SampleQuestions \cap Known = {} /\ terms' \subseteq terms \cup {r}
        /\ verified' = [q \in Asked |-> IF q \in SampleQuestions THEN r ELSE verified[q]]
    BY <1>6 DEF SeedSample
  <2>2. \A s \in terms : post[s].kind # "sample"
    BY <2>1, KnowledgeAssumption DEF SeedInv
  <2>3. SampleQuestions \subseteq Known'
    BY <2>1, KnowledgeAssumption DEF Known
  <2>4. QED
    BY <1>1, <1>2, <1>3, <2>1, <2>2, <2>3 DEF SeedInv, SeededOnce
<1>7. QED
  BY <1>4, <1>5, <1>6, Writers

(* However many connect the sample at a time, its glossary is there once:  *)
(* it comes with the questions, whose constraint keeps a second one out.   *)
THEOREM SeedsOnce == KnowledgeSpec => []SeededOnce
<1>1. KnowledgeInit => SeedInv
  BY DEF KnowledgeInit, SeedInv, SeededOnce, Unsent
<1>2. SeedInv /\ UNCHANGED knowledgeVars => SeedInv'
  BY DEF SeedInv, SeededOnce, Known, knowledgeVars
<1>3. KnowledgeTypes /\ SeedInv /\ [KnowledgeNext]_knowledgeVars => SeedInv'
  BY <1>2, SeedStep DEF KnowledgeNext, PostStep
<1>4. SeedInv => SeededOnce
  BY DEF SeedInv
<1>5. QED
  BY <1>1, <1>3, <1>4, KnowledgeTyped, PTL DEF KnowledgeSpec

-----------------------------------------------------------------------------
(* Knowledge: one author, unless transactions overlapped.                  *)

Met(r, s) == {r, s} \in met

\* Transactions that are both at their writing have met.
MeetInv ==
  \A r, s \in Posts :
    (r # s /\ post[r].st \in Writing /\ post[s].st \in Writing) => Met(r, s)

\* What is there and a DELETE does not see was written by one that it met.
GlossaryInv ==
  /\ \A r, s \in terms : r # s => Met(r, s)
  /\ \A r \in Posts, s \in terms :
       (post[r].st \in {"defining", "seeding"} /\ s \notin post[r].old /\ r # s) => Met(r, s)

CatalogInv ==
  /\ \A r \in catalog : post[r].st = "over"
  /\ \A r, s \in catalog : r # s => Met(r, s)
  /\ \A r \in Posts, s \in catalog : post[r].st = "finding" => Met(r, s)
  /\ \A r \in Posts, s \in catalog :
       (post[r].st = "describing" /\ s \notin post[r].old) => Met(r, s)
  /\ \A r \in Posts : (post[r].kind = "onboard" /\ post[r].st = "describing") =>
       \A s \in post[r].old : Met(r, s)

Excused(r, s) == \/ Met(r, s)
                 \/ {post[r].kind, post[s].kind} \cap {"starters", "sample"} # {}

QuestionInv ==
  /\ \A p, q \in Known, r, s \in Posts :
       (p # q /\ Similar(p, q) /\ verified[p] = r /\ verified[q] = s) => Excused(r, s)
  /\ \A p \in Known, r, s \in Posts :
       (post[s].st = "adding" /\ Similar(p, post[s].about) /\ verified[p] = r)
         => Excused(r, s)

LEMMA MetSymmetric == ASSUME NEW r, NEW s PROVE Met(r, s) <=> Met(s, r)
<1>1. {r, s} = {s, r}
  OBVIOUS
<1>2. QED
  BY <1>1 DEF Met

LEMMA SimilarSymmetric == ASSUME NEW p, NEW q PROVE Similar(p, q) <=> Similar(q, p)
<1>1. {p, q} = {q, p}
  OBVIOUS
<1>2. QED
  BY <1>1 DEF Similar

\* Met holds on, and pairs that begin to write meet.
LEMMA MeetStep ==
  ASSUME KnowledgeTypes, MeetInv, NEW r \in Posts, PostStep(r)
  PROVE  /\ MeetInv'
         /\ \A s, u : Met(s, u) => Met(s, u)'
<1>1. \A s, u : Met(s, u) => {s, u} \in met'
  BY PostFacts DEF Met
<1>2. ASSUME NEW s \in Posts \ {r}, post'[r].st \in Writing, post[s].st \in Writing
      PROVE  {r, s} \in met' /\ {s, r} \in met'
  <2>1. {r, s} = {s, r}
    OBVIOUS
  <2>2. CASE post[r].st \in Writing
    BY <1>1, <1>2, <2>1, <2>2 DEF MeetInv
  <2>3. CASE post[r].st \notin Writing
    BY <1>2, <2>1, <2>3, PostFacts
  <2>4. QED
    BY <2>2, <2>3
<1>3. ASSUME NEW s \in Posts, NEW u \in Posts, s # u,
             post'[s].st \in Writing, post'[u].st \in Writing
      PROVE  {s, u} \in met'
  <2>1. CASE s # r /\ u # r
    BY <1>1, <1>3, <2>1, PostFacts DEF MeetInv
  <2>2. CASE s = r \/ u = r
    BY <1>2, <1>3, <2>2, PostFacts
  <2>3. QED
    BY <2>1, <2>2
<1>4. QED
  BY <1>1, <1>3 DEF MeetInv, Met

LEMMA GlossaryStep ==
  ASSUME KnowledgeTypes, MeetInv, GlossaryInv, NEW r \in Posts, PostStep(r) PROVE GlossaryInv'
<1>1. /\ \A s \in Posts \ {r} : post'[s] = post[s]
      /\ terms \subseteq Posts
  BY PostFacts DEF KnowledgeTypes
<1>2. \A s, u : Met(s, u) => Met(s, u)'
  BY MeetStep
<1>3. CASE terms' = terms
  <2>1. ASSUME NEW u \in Posts, NEW s \in terms, post'[u].st \in {"defining", "seeding"},
               s \notin post'[u].old, u # s
        PROVE  Met(u, s)'
    <3>1. u # r
      BY <2>1, SetsOut
    <3>2. QED
      BY <1>1, <1>2, <2>1, <3>1 DEF GlossaryInv
  <2>2. QED
    BY <1>2, <1>3, <2>1 DEF GlossaryInv
<1>4. CASE (SetGlossary(r) \/ SeedSample(r)) /\ terms' # terms
  <2>1. post[r].st \in {"defining", "seeding"} /\ post[r].st \in Writing
    BY <1>4 DEF SetGlossary, SeedSample, Writing
  <2>2. terms' \subseteq (terms \ post[r].old) \cup {r}
    BY <1>4 DEF SetGlossary, SeedSample
  <2>3. \A s \in terms' : s # r => Met(r, s)' /\ Met(s, r)' /\ s \in terms
    BY <1>1, <1>2, <2>1, <2>2, MetSymmetric DEF GlossaryInv
  <2>4. \A s, u \in terms' : s # u => Met(s, u)'
    BY <1>2, <2>3 DEF GlossaryInv
  <2>5. post'[r].st \notin {"defining", "seeding"}
    BY <1>4, SetsOut
  <2>6. ASSUME NEW u \in Posts, NEW s \in terms', post'[u].st \in {"defining", "seeding"},
               s \notin post'[u].old, u # s
        PROVE  Met(u, s)'
    <3>1. u # r /\ post'[u] = post[u]
      BY <1>1, <2>5, <2>6
    <3>2. CASE s = r
      <4>1. post[u].st \in Writing
        BY <2>6, <3>1 DEF Writing
      <4>2. QED
        BY <1>2, <2>1, <3>1, <3>2, <4>1 DEF MeetInv
    <3>3. CASE s # r
      BY <1>2, <2>3, <2>6, <3>1, <3>3 DEF GlossaryInv
    <3>4. QED
      BY <3>2, <3>3
  <2>7. QED
    BY <2>4, <2>6 DEF GlossaryInv
<1>5. QED
  BY <1>3, <1>4, Writers

LEMMA CatalogStep ==
  ASSUME KnowledgeTypes, MeetInv, CatalogInv, NEW r \in Posts, PostStep(r) PROVE CatalogInv'
<1>1. /\ \A s \in Posts \ {r} : post'[s] = post[s]
      /\ \A s \in Posts : post'[s].kind = post[s].kind
      /\ catalog \subseteq Posts /\ r \notin catalog
  BY PostFacts DEF KnowledgeTypes, CatalogInv
<1>2. \A s, u : Met(s, u) => Met(s, u)'
  BY MeetStep
<1>3. CASE catalog' = catalog
  <2>1. \A s \in catalog' : post'[s].st = "over"
    BY <1>1, <1>3 DEF CatalogInv
  <2>2. \A s, u \in catalog' : s # u => Met(s, u)'
    BY <1>2, <1>3 DEF CatalogInv
  <2>3. \A u \in Posts, s \in catalog' : post'[u].st = "finding" => Met(u, s)'
    BY <1>1, <1>2, <1>3, SetsOut DEF CatalogInv
  <2>4. \A u \in Posts, s \in catalog' :
          (post'[u].st = "describing" /\ s \notin post'[u].old) => Met(u, s)'
    BY <1>1, <1>2, <1>3, SetsOut DEF CatalogInv
  <2>5. ASSUME NEW u \in Posts, post'[u].kind = "onboard", post'[u].st = "describing",
               NEW s \in post'[u].old
        PROVE  Met(u, s)'
    <3>1. CASE u = r
      <4>1. post[r].st = "finding" /\ s \in catalog
        BY <1>1, <2>5, <3>1, SetsOut
      <4>2. QED
        BY <1>2, <3>1, <4>1 DEF CatalogInv
    <3>2. CASE u # r
      BY <1>1, <1>2, <2>5, <3>2 DEF CatalogInv
    <3>3. QED
      BY <3>1, <3>2
  <2>6. QED
    BY <2>1, <2>2, <2>3, <2>4, <2>5 DEF CatalogInv
<1>4. CASE SetCatalog(r)
  <2>1. /\ post[r].st = "describing" /\ post[r].st \in Writing
        /\ catalog' \subseteq (catalog \ post[r].old) \cup {r}
    BY <1>4 DEF SetCatalog, Writing
  <2>2. post'[r].st = "over"
    BY <1>4, MovesFacts DEF SetCatalog
  <2>3. \A s \in catalog' : s # r => Met(r, s)' /\ Met(s, r)' /\ s \in catalog
    BY <1>2, <2>1, MetSymmetric DEF CatalogInv
  <2>4. \A s \in catalog' : post'[s].st = "over"
    BY <1>1, <2>2, <2>3 DEF CatalogInv
  <2>5. \A s, u \in catalog' : s # u => Met(s, u)'
    BY <1>2, <2>3 DEF CatalogInv
  <2>6. ASSUME NEW u \in Posts, NEW s \in catalog',
               \/ post'[u].st = "finding"
               \/ post'[u].st = "describing" /\ s \notin post'[u].old
        PROVE  Met(u, s)'
    <3>1. u # r /\ post'[u] = post[u]
      BY <1>1, <2>2, <2>6
    <3>2. CASE s = r
      <4>1. post[u].st \in Writing
        BY <2>6, <3>1 DEF Writing
      <4>2. QED
        BY <1>2, <2>1, <3>1, <3>2, <4>1 DEF MeetInv
    <3>3. CASE s # r
      BY <1>2, <2>3, <2>6, <3>1, <3>3 DEF CatalogInv
    <3>4. QED
      BY <3>2, <3>3
  <2>7. ASSUME NEW u \in Posts, post'[u].kind = "onboard", post'[u].st = "describing",
               NEW s \in post'[u].old
        PROVE  Met(u, s)'
    BY <1>1, <1>2, <2>2, <2>7 DEF CatalogInv
  <2>8. QED
    BY <2>4, <2>5, <2>6, <2>7 DEF CatalogInv
<1>5. QED
  BY <1>3, <1>4, Writers

LEMMA ExcusedStep ==
  ASSUME KnowledgeTypes, MeetInv, NEW r \in Posts, PostStep(r)
  PROVE  \A s, u \in Posts : Excused(s, u) => Excused(s, u)' /\ Excused(u, s)'
<1> SUFFICES ASSUME NEW s \in Posts, NEW u \in Posts, Excused(s, u)
             PROVE  Excused(s, u)' /\ Excused(u, s)'
  OBVIOUS
<1>1. post'[s].kind = post[s].kind /\ post'[u].kind = post[u].kind
  BY PostFacts
<1>2. {post[u].kind, post[s].kind} = {post[s].kind, post[u].kind}
  OBVIOUS
<1>3. Met(s, u) => Met(s, u)' /\ Met(u, s)'
  BY MeetStep, MetSymmetric
<1>4. QED
  BY <1>1, <1>2, <1>3 DEF Excused

\* A question that a step stores is its own request's, of a kind that does not
\* compare or one that it compared.
LEMMA Stored ==
  ASSUME KnowledgeTypes, SeedInv, NEW r \in Posts, PostStep(r), NEW q \in Known', q \notin Known
  PROVE  /\ verified'[q] = r
         /\ \/ post[r].kind \in {"starters", "sample"}
            \/ post[r].st = "adding" /\ post[r].about = q /\ post'[r].st # "adding"
<1>1. q \in Asked /\ verified[q] = NoPost /\ verified'[q] # NoPost
  BY DEF Known
<1>2. CASE verified' = verified
  BY <1>1, <1>2
<1>3. CASE AddVerified(r)
  <2>1. /\ verified' = [verified EXCEPT ![post[r].about] = IF @ = NoPost THEN r ELSE @]
        /\ post[r].st = "adding"
    BY <1>3 DEF AddVerified
  <2>2. verified \in [Asked -> Posts \cup {NoPost}]
    BY DEF KnowledgeTypes
  <2>3. post[r].about = q /\ verified'[q] = r
    BY <1>1, <2>1, <2>2
  <2>4. post'[r].st # "adding"
    <3>1. Moves(r, AfterQuestion(r), {})
      BY <1>3 DEF AddVerified
    <3>2. post'[r].st = AfterQuestion(r)
      BY <3>1, MovesFacts
    <3>3. QED
      BY <3>2, AfterQuestionForms
  <2>5. QED
    BY <2>1, <2>3, <2>4
<1>4. CASE StoreStarters(r)
  <2>1. post[r].kind = "starters"
    BY <1>4 DEF StoreStarters
  <2>2. verified'[q] = r
    BY <1>1, <1>4 DEF StoreStarters
  <2>3. QED
    BY <2>1, <2>2
<1>5. CASE SeedSample(r)
  <2>1. post[r].kind = "sample"
    BY <1>5 DEF SeedSample, SeedInv
  <2>2. verified'[q] = r
    BY <1>1, <1>5 DEF SeedSample
  <2>3. QED
    BY <2>1, <2>2
<1>6. QED
  BY <1>2, <1>3, <1>4, <1>5, Writers

LEMMA QuestionStep ==
  ASSUME KnowledgeTypes, SeedInv, MeetInv, QuestionInv, NEW r \in Posts, PostStep(r)
  PROVE  QuestionInv'
<1>1. /\ \A s \in Posts \ {r} : post'[s] = post[s]
      /\ \A s \in Posts : post'[s].kind = post[s].kind /\ post'[s].about = post[s].about
  BY PostFacts
<1>2. \A s, u \in Posts : Excused(s, u) => Excused(s, u)' /\ Excused(u, s)'
  BY ExcusedStep
<1>3. \A q \in Known : verified'[q] = verified[q]
  BY KnownGrows
\* A question stored now is excused with whoever was there.
<1>4. ASSUME post[r].kind \in {"starters", "sample"}, NEW s \in Posts
      PROVE  Excused(r, s)' /\ Excused(s, r)'
  <2>1. Excused(r, s)
    BY <1>4 DEF Excused
  <2>2. QED
    BY <1>2, <2>1
<1>5. ASSUME NEW p \in Known', NEW q \in Known', NEW s \in Posts, NEW u \in Posts,
             p # q, Similar(p, q), verified'[p] = s, verified'[q] = u
      PROVE  Excused(s, u)'
  <2>1. CASE p \in Known /\ q \in Known
    <3>1. Excused(s, u)
      BY <1>3, <1>5, <2>1 DEF QuestionInv
    <3>2. QED
      BY <1>2, <3>1
  <2>2. CASE p \in Known /\ q \notin Known
    <3>1. u = r
      BY <1>5, <2>2, Stored
    <3>2. CASE post[r].kind \in {"starters", "sample"}
      BY <1>4, <3>1, <3>2
    <3>3. CASE post[r].st = "adding" /\ post[r].about = q
      <4>1. Excused(s, r)
        BY <1>3, <1>5, <2>2, <3>3 DEF QuestionInv
      <4>2. QED
        BY <1>2, <3>1, <4>1
    <3>4. QED
      BY <2>2, <3>2, <3>3, Stored
  <2>3. CASE p \notin Known /\ q \in Known
    <3>1. s = r /\ Similar(q, p)
      BY <1>5, <2>3, Stored, SimilarSymmetric
    <3>2. CASE post[r].kind \in {"starters", "sample"}
      BY <1>4, <3>1, <3>2
    <3>3. CASE post[r].st = "adding" /\ post[r].about = p
      <4>1. Excused(u, r)
        BY <1>3, <1>5, <2>3, <3>1, <3>3 DEF QuestionInv
      <4>2. QED
        BY <1>2, <3>1, <4>1
    <3>4. QED
      BY <2>3, <3>2, <3>3, Stored
  <2>4. CASE p \notin Known /\ q \notin Known
    <3>1. s = r /\ post[r].kind \in {"starters", "sample"}
      BY <1>5, <2>4, Stored
    <3>2. QED
      BY <1>4, <3>1
  <2>5. QED
    BY <2>1, <2>2, <2>3, <2>4
<1>6. ASSUME NEW p \in Known', NEW s \in Posts, NEW u \in Posts,
             post'[u].st = "adding", Similar(p, post'[u].about), verified'[p] = s
      PROVE  Excused(s, u)'
  <2>1. CASE p \in Known
    <3>1. u # r
      BY <1>1, <1>6, <2>1, SetsOut
    <3>2. Excused(s, u)
      BY <1>1, <1>3, <1>6, <2>1, <3>1 DEF QuestionInv
    <3>3. QED
      BY <1>2, <3>2
  <2>2. CASE p \notin Known
    <3>1. s = r
      BY <1>6, <2>2, Stored
    <3>2. CASE post[r].kind \in {"starters", "sample"}
      BY <1>4, <3>1, <3>2
    <3>3. CASE post[r].st = "adding" /\ post'[r].st # "adding"
      <4>1. u # r /\ post[u].st = "adding"
        BY <1>1, <1>6, <3>3
      <4>2. Excused(r, u)
        BY <3>3, <4>1 DEF MeetInv, Excused, Writing
      <4>3. QED
        BY <1>2, <3>1, <4>2
    <3>4. QED
      BY <2>2, <3>2, <3>3, Stored
  <2>3. QED
    BY <2>1, <2>2
<1>7. QED
  BY <1>5, <1>6 DEF QuestionInv, Similar

AuthorInv == SeedInv /\ MeetInv /\ GlossaryInv /\ CatalogInv /\ QuestionInv

(* A glossary or a catalog has the rows of one save, and no question is    *)
(* verified beside one like it, unless transactions overlapped or the      *)
(* question was generated, for any number of requests and questions.       *)
THEOREM OneAuthor == KnowledgeSpec => []OneAuthorUnlessOverlapping
<1>1. KnowledgeInit => AuthorInv
  BY DEF KnowledgeInit, AuthorInv, SeedInv, SeededOnce, MeetInv, GlossaryInv, CatalogInv,
     QuestionInv, Known, Unsent, Writing
<1>2. KnowledgeTypes /\ AuthorInv /\ [KnowledgeNext]_knowledgeVars => AuthorInv'
  <2>1. ASSUME AuthorInv, UNCHANGED knowledgeVars PROVE AuthorInv'
    BY <2>1 DEF AuthorInv, SeedInv, SeededOnce, MeetInv, GlossaryInv, CatalogInv,
       QuestionInv, Known, Met, Excused, knowledgeVars
  <2>2. ASSUME KnowledgeTypes, AuthorInv, NEW r \in Posts, PostStep(r) PROVE AuthorInv'
    BY <2>2, SeedStep, MeetStep, GlossaryStep, CatalogStep, QuestionStep DEF AuthorInv
  <2>3. QED
    BY <2>1, <2>2 DEF KnowledgeNext, PostStep
<1>3. KnowledgeTypes /\ AuthorInv => OneAuthorUnlessOverlapping
  <2> SUFFICES ASSUME KnowledgeTypes, AuthorInv PROVE OneAuthorUnlessOverlapping
    OBVIOUS
  <2>1. terms \subseteq Posts /\ catalog \subseteq Posts
    BY DEF KnowledgeTypes
  <2>2. \A p \in Known : verified[p] \in Posts
    BY DEF Known, KnowledgeTypes
  <2>3. \A p, q \in Known :
          (p # q /\ Similar(p, q)) => Excused(verified[p], verified[q])
    BY <2>2 DEF AuthorInv, QuestionInv
  <2>4. QED
    BY <2>1, <2>3 DEF AuthorInv, GlossaryInv, CatalogInv, OneAuthorUnlessOverlapping,
       Met, Excused
<1>4. QED
  BY <1>1, <1>2, <1>3, KnowledgeTyped, PTL DEF KnowledgeSpec
===============================================================================
