-------------------------- MODULE ConnectionsProofs --------------------------
(***************************************************************************)
(* Theorems about Connections, for any number of databases, engines and    *)
(* requests.                                                               *)
(***************************************************************************)
EXTENDS Connections, SequenceTheorems, TLAPS

-----------------------------------------------------------------------------
(* Sequences without repetition, as order and stored are.                  *)

NoRepeat(s) == \A i, j \in 1..Len(s) : s[i] = s[j] => i = j

(* RemoveFirst takes the one occurrence of an element away.                *)
LEMMA RemoveOnly ==
  ASSUME NEW S, NEW s \in Seq(S), NoRepeat(s), NEW e \in S
  PROVE  /\ RemoveFirst(s, e) \in Seq(S)
         /\ NoRepeat(RemoveFirst(s, e))
         /\ \A x : Contains(RemoveFirst(s, e), x) <=> Contains(s, x) /\ x # e
<1>1. CASE ~Contains(s, e)
  <2>1. RemoveFirst(s, e) = s
    BY <1>1 DEF RemoveFirst, Contains
  <2>2. QED
    BY <1>1, <2>1 DEF Contains
<1>2. CASE Contains(s, e)
  <2>1. PICK k \in 1..Len(s) : s[k] = e
    BY <1>2 DEF Contains
  <2>2. {i \in 1..Len(s) : s[i] = e} = {k}
    BY <2>1 DEF NoRepeat
  <2>3. SelectInSeq(s, LAMBDA v : v = e) = k
    BY <2>1, <2>2 DEF SelectInSeq, Min
  <2>4. RemoveFirst(s, e) = RemoveAt(s, k)
    BY <2>1, <2>3 DEF RemoveFirst
  <2> DEFINE t == RemoveAt(s, k)
  <2>5. /\ t \in Seq(S)
        /\ Len(t) = Len(s) - 1
        /\ \A i \in 1..Len(t) : t[i] = IF i < k THEN s[i] ELSE s[i + 1]
    <3> DEFINE a == SubSeq(s, 1, k - 1)
               b == SubSeq(s, k + 1, Len(s))
    <3>1. /\ k \in Nat /\ Len(s) \in Nat
          /\ 1 <= k /\ k <= Len(s)
      BY <2>1
    <3>2. /\ a \in Seq(S) /\ Len(a) = k - 1
          /\ \A i \in 1..(k - 1) : a[i] = s[i]
      BY <3>1
    <3>3. /\ b \in Seq(S) /\ Len(b) = Len(s) - k
          /\ \A i \in 1..(Len(s) - k) : b[i] = s[k + i]
      BY <3>1
    <3>4. t = a \o b
      BY DEF RemoveAt
    <3> HIDE DEF a, b, t
    <3>5. /\ t \in Seq(S)
          /\ Len(t) = Len(a) + Len(b)
          /\ \A i \in 1..(Len(a) + Len(b)) :
               t[i] = IF i <= Len(a) THEN a[i] ELSE b[i - Len(a)]
      BY <3>2, <3>3, <3>4, ConcatProperties
    <3>6. Len(t) = Len(s) - 1
      BY <3>1, <3>2, <3>3, <3>5
    <3>7. ASSUME NEW i \in 1..Len(t) PROVE t[i] = IF i < k THEN s[i] ELSE s[i + 1]
      <4>1. i \in 1..(Len(a) + Len(b))
        BY <3>5
      <4>2. CASE i < k
        BY <3>1, <3>2, <3>5, <4>1, <4>2
      <4>3. CASE i >= k
        <5>1. t[i] = b[i - Len(a)]
          BY <3>1, <3>2, <3>5, <4>1, <4>3
        <5>2. i - Len(a) \in 1..(Len(s) - k) /\ k + (i - Len(a)) = i + 1
          BY <3>1, <3>2, <3>3, <4>1, <4>3
        <5>3. b[i - Len(a)] = s[k + (i - Len(a))]
          BY <3>3, <5>2
        <5>4. QED
          BY <3>1, <4>1, <4>3, <5>1, <5>2, <5>3
      <4>4. QED
        BY <3>1, <4>1, <4>2, <4>3, <3>2, <3>3
    <3>8. QED
      BY <3>5, <3>6, <3>7
  <2> HIDE DEF t
  <2>6. NoRepeat(t)
    BY <2>1, <2>5 DEF NoRepeat
  <2>7. ASSUME NEW x, Contains(t, x) PROVE Contains(s, x) /\ x # e
    BY <2>1, <2>5, <2>7 DEF Contains, NoRepeat
  <2>8. ASSUME NEW x, Contains(s, x), x # e PROVE Contains(t, x)
    <3>1. PICK i \in 1..Len(s) : s[i] = x
      BY <2>8 DEF Contains
    <3>2. CASE i < k
      BY <2>1, <2>5, <3>1, <3>2 DEF Contains
    <3>3. CASE i > k
      <4>1. i - 1 \in 1..Len(t) /\ t[i - 1] = x
        BY <2>1, <2>5, <3>1, <3>3
      <4>2. QED
        BY <4>1 DEF Contains
    <3>4. QED
      BY <2>1, <2>8, <3>1, <3>2, <3>3
  <2>9. QED
    BY <2>4, <2>5, <2>6, <2>7, <2>8 DEF t
<1>3. QED
  BY <1>1, <1>2

(* Append puts a new element at the end.                                   *)
LEMMA AppendNew ==
  ASSUME NEW S, NEW s \in Seq(S), NoRepeat(s), NEW e \in S, ~Contains(s, e)
  PROVE  /\ Append(s, e) \in Seq(S)
         /\ NoRepeat(Append(s, e))
         /\ \A x : Contains(Append(s, e), x) <=> Contains(s, x) \/ x = e
<1> DEFINE t == Append(s, e)
<1>1. /\ t \in Seq(S)
      /\ Len(t) = Len(s) + 1
      /\ \A i \in 1..Len(s) : t[i] = s[i]
      /\ t[Len(s) + 1] = e
  OBVIOUS
<1> HIDE DEF t
<1>2. NoRepeat(t)
  BY <1>1 DEF NoRepeat, Contains
<1>3. ASSUME NEW x, Contains(t, x) PROVE Contains(s, x) \/ x = e
  BY <1>1, <1>3 DEF Contains
<1>4. ASSUME NEW x, Contains(s, x) \/ x = e PROVE Contains(t, x)
  BY <1>1, <1>4 DEF Contains
<1>5. QED
  BY <1>1, <1>2, <1>3, <1>4 DEF t


(* TypeOK says the same of order and stored in other words.                *)
LEMMA SequenceWords ==
  ASSUME NEW S, NEW s \in Seq(S)
  PROVE  /\ IsInjective(s) <=> NoRepeat(s)
         /\ \A x : x \in ToSet(s) <=> Contains(s, x)
         /\ \A x : Contains(s, x) => x \in S
         /\ s # <<>> => Contains(s, Last(s)) /\ Contains(s, Head(s))
<1>1. DOMAIN s = 1..Len(s) /\ Len(s) \in Nat
  OBVIOUS
<1>2. IsInjective(s) <=> NoRepeat(s)
  BY <1>1 DEF IsInjective, NoRepeat
<1>3. \A x : x \in ToSet(s) <=> Contains(s, x)
  BY <1>1 DEF ToSet, Contains
<1>4. \A x : Contains(s, x) => x \in S
  BY DEF Contains
<1>5. s # <<>> => Contains(s, Last(s)) /\ Contains(s, Head(s))
  BY DEF Contains, Last
<1>6. QED
  BY <1>2, <1>3, <1>4, <1>5

-----------------------------------------------------------------------------
(* Types.                                                                  *)

(* The fields a request has in each of its states.                         *)
LEMMA RequestFields ==
  ASSUME TypeOK, NEW r \in Request
  PROVE  /\ req[r].st = "looking" => req[r].db \in Db \cup {NoDb}
         /\ req[r].st = "dialing" => /\ req[r].db \in Db
                                     /\ req[r].kind \in {"connect", "sample", "ensure"}
         /\ req[r].st \in {"installing", "disposing", "reporting"} =>
              /\ req[r] \in [st : {"installing", "disposing", "reporting"},
                             kind : {"connect", "sample", "ensure"}, db : Db,
                             eng : Engine, old : Engine \cup {NoEngine}]
              /\ req[r].db \in Db /\ req[r].eng \in Engine
              /\ req[r].old \in Engine \cup {NoEngine}
              /\ req[r].kind \in {"connect", "sample", "ensure"}
         /\ req[r].st = "connected" => req[r].db \in Db /\ req[r].kind = "sample"
         /\ req[r].st = "saving" => req[r].db \in Db
         /\ req[r].st = "seeding" => /\ req[r].db \in Db /\ req[r].target \in Db
                                     /\ req[r].kind = "sample"
<1>1. req[r] \in RequestType
  BY DEF TypeOK
<1>2. QED
  BY <1>1 DEF RequestType, Idle

(* A request's step changes that request only.                             *)
LEMMA RequestStep ==
  ASSUME TypeOK, NEW r \in Request, NEW x \in RequestType,
         req' = [req EXCEPT ![r] = x]
  PROVE  req' \in [Request -> RequestType]
  BY DEF TypeOK

LEMMA IdleType == Idle \in RequestType
  BY DEF Idle, RequestType

LEMMA DialingType ==
  ASSUME NEW kind \in {"connect", "sample", "ensure"}, NEW d \in Db
  PROVE  [st |-> "dialing", kind |-> kind, db |-> d] \in RequestType
  BY DEF RequestType

(* What a disconnect holds: entries that are there, and the one in hand is *)
(* not among those to come.                                                *)
LoopHolds ==
  loop.st \in {"disposing", "deleting"} =>
    /\ \A d \in loop.todo : Connected(d)
    /\ Connected(loop.key)
    /\ loop.key \notin loop.todo

LEMMA LoopFields ==
  ASSUME TypeOK
  PROVE  /\ loop.st \in {"disposing", "deleting"} =>
              /\ loop \in [st : {"disposing", "deleting"}, todo : SUBSET Db,
                           key : Db, eng : Engine]
              /\ loop.todo \subseteq Db /\ loop.key \in Db /\ loop.eng \in Engine
         /\ loop.st = "scanning" => loop.want \in Db \cup {NoDb}
  BY DEF TypeOK, LoopType, Free

(* Types with what a disconnect holds: together they are inductive.        *)
Typed == TypeOK /\ LoopHolds

(* A step that leaves the map and the disconnect alone.                    *)
LEMMA MapKept ==
  ASSUME LoopHolds, UNCHANGED <<dict, loop>> PROVE LoopHolds'
  BY DEF LoopHolds, dict, Connected

LEMMA DialType ==
  ASSUME Typed, NEW r \in Request, Dial(r) PROVE Typed'
<1>1. PICK e \in Engine : /\ open' = open \cup {e}
                          /\ displaced' = displaced \ {e}
                          /\ req' = [req EXCEPT ![r] =
                               [st |-> "installing", kind |-> req[r].kind,
                                db |-> req[r].db, eng |-> e, old |-> eng[req[r].db]]]
  BY DEF Dial
<1>2. /\ req[r].kind \in {"connect", "sample", "ensure"} /\ req[r].db \in Db
      /\ eng[req[r].db] \in Engine \cup {NoEngine}
  BY RequestFields DEF Typed, Dial, TypeOK
<1>3. [st |-> "installing", kind |-> req[r].kind, db |-> req[r].db,
       eng |-> e, old |-> eng[req[r].db]] \in RequestType
  BY <1>2 DEF RequestType
<1>4. req' \in [Request -> RequestType]
  BY <1>1, <1>3, RequestStep DEF Typed
<1>5. TypeOK'
  BY <1>1, <1>4 DEF Typed, Dial, TypeOK, dict, Connected
<1>6. QED
  BY <1>5, MapKept DEF Typed, Dial

LEMMA DialFailedType ==
  ASSUME Typed, NEW r \in Request, DialFailed(r) PROVE Typed'
<1>1. req' \in [Request -> RequestType]
  BY IdleType, RequestStep DEF Typed, DialFailed
<1>2. QED
  BY <1>1, MapKept DEF Typed, DialFailed, TypeOK, dict, Connected

LEMMA InstallType ==
  ASSUME Typed, NEW r \in Request, Install(r) PROVE Typed'
<1> DEFINE d == req[r].db
<1>1. /\ d \in Db /\ req[r].eng \in Engine /\ req[r].eng # NoEngine
      /\ req[r] \in [st : {"installing", "disposing", "reporting"},
                     kind : {"connect", "sample", "ensure"}, db : Db,
                     eng : Engine, old : Engine \cup {NoEngine}]
  BY RequestFields, ConnectionsAssumption DEF Typed, Install
<1>2. /\ eng' \in [Db -> Engine \cup {NoEngine}]
      /\ \A c \in Db : Connected(c)' <=> Connected(c) \/ c = d
  BY <1>1 DEF Typed, Install, TypeOK, Connected
<1>3. /\ order' \in Seq(Db) /\ IsInjective(order')
      /\ ToSet(order') = {c \in Db : Connected(c)'}
  <2>1. /\ order \in Seq(Db) /\ NoRepeat(order)
        /\ \A x : Contains(order, x) <=> x \in Db /\ Connected(x)
    BY SequenceWords DEF Typed, TypeOK
  <2>2. /\ order' \in Seq(Db) /\ NoRepeat(order')
        /\ \A x : Contains(order', x) <=> x \in Db /\ (Connected(x) \/ x = d)
    <3>1. CASE Connected(d)
      BY <1>1, <2>1, <3>1 DEF Install
    <3>2. CASE ~Connected(d)
      <4>1. order' = Append(order, d)
        BY <3>2 DEF Install
      <4>2. QED
        BY <1>1, <2>1, <3>2, <4>1, AppendNew
    <3>3. QED
      BY <3>1, <3>2
  <2>3. ToSet(order') = {c \in Db : Connected(c)'}
    BY <1>2, <2>2, SequenceWords
  <2>4. QED
    BY <2>2, <2>3, SequenceWords
<1>4. PICK st \in {"reporting", "disposing"} : req' = [req EXCEPT ![r].st = st]
  BY DEF Install
<1>5. [req[r] EXCEPT !.st = st] \in RequestType
  BY <1>1 DEF RequestType
<1>6. req' \in [Request -> RequestType]
  <2>1. req' = [req EXCEPT ![r] = [req[r] EXCEPT !.st = st]]
    BY <1>4
  <2>2. QED
    BY <1>5, <2>1, RequestStep DEF Typed
<1>7. displaced' \subseteq Engine
  BY <1>1 DEF Typed, Install, TypeOK
<1>8. TypeOK'
  BY <1>2, <1>3, <1>6, <1>7 DEF Typed, Install, TypeOK
<1>9. LoopHolds'
  <2>1. /\ loop' = loop
        /\ loop.st \in {"disposing", "deleting"} => loop.todo \subseteq Db /\ loop.key \in Db
    BY LoopFields DEF Typed, Install
  <2>2. QED
    BY <1>2, <2>1 DEF Typed, LoopHolds
<1>10. QED
  BY <1>8, <1>9 DEF Typed

LEMMA DisposeOldType ==
  ASSUME Typed, NEW r \in Request, DisposeOld(r) PROVE Typed'
<1>1. req[r] \in [st : {"installing", "disposing", "reporting"},
                  kind : {"connect", "sample", "ensure"}, db : Db,
                  eng : Engine, old : Engine \cup {NoEngine}]
  BY RequestFields DEF Typed, DisposeOld
<1>2. [req[r] EXCEPT !.st = "reporting", !.old = NoEngine] \in RequestType
  BY <1>1 DEF RequestType
<1>3. req' \in [Request -> RequestType]
  <2>1. req' = [req EXCEPT ![r] = [req[r] EXCEPT !.st = "reporting", !.old = NoEngine]]
    BY DEF DisposeOld
  <2>2. QED
    BY <1>2, <2>1, RequestStep DEF Typed
<1>4. TypeOK'
  BY <1>3 DEF Typed, DisposeOld, TypeOK, dict, Connected
<1>5. QED
  BY <1>4, MapKept DEF Typed, DisposeOld

LEMMA ReportType ==
  ASSUME Typed, NEW r \in Request, Report(r) PROVE Typed'
<1>1. req[r].db \in Db /\ req[r].kind \in {"connect", "sample", "ensure"}
  BY RequestFields DEF Typed, Report
<1>2. PICK x : /\ req' = [req EXCEPT ![r] = x]
               /\ \/ x = Idle
                  \/ x = [st |-> "saving", kind |-> "connect", db |-> req[r].db]
                  \/ x = [st |-> "connected", kind |-> "sample", db |-> req[r].db]
  BY <1>1 DEF Report
<1>3. x \in RequestType
  BY <1>1, <1>2, IdleType DEF RequestType
<1>4. req' \in [Request -> RequestType]
  BY <1>2, <1>3, RequestStep DEF Typed
<1>5. open' \subseteq Engine
  BY DEF Typed, Report, TypeOK
<1>6. TypeOK'
  BY <1>4, <1>5 DEF Typed, Report, TypeOK, dict, Connected
<1>7. QED
  BY <1>6, MapKept DEF Typed, Report

(* The keys a disconnect has listed, or has left, are all entries.         *)
LEMMA ClosingType ==
  ASSUME NEW todo \in SUBSET Db, \A d \in todo : eng'[d] \in Engine /\ eng'[d] = eng[d],
         Closing(todo)
  PROVE  /\ loop' \in LoopType
         /\ loop'.st \in {"disposing", "deleting"} =>
              /\ loop'.st = "disposing"
              /\ loop'.key \in todo /\ loop'.key \notin loop'.todo
              /\ loop'.todo \subseteq todo
              /\ loop'.eng = eng[loop'.key]
<1>1. CASE todo = {}
  BY <1>1 DEF Closing, Free, LoopType
<1>2. CASE todo # {}
  <2>1. PICK d \in todo :
          loop' = [st |-> "disposing", todo |-> todo \ {d}, key |-> d, eng |-> eng[d]]
    BY <1>2 DEF Closing
  <2>2. QED
    BY <2>1 DEF LoopType
<1>3. QED
  BY <1>1, <1>2

LEMMA BeginDisconnectType ==
  ASSUME Typed, NEW want \in Db \cup {NoDb}, BeginDisconnect(want) PROVE Typed'
<1>1. Len(order) \in Nat
  BY DEF Typed, TypeOK
<1>2. loop' \in LoopType /\ loop'.st = "scanning"
  BY <1>1 DEF BeginDisconnect, LoopType
<1>3. TypeOK'
  BY <1>2 DEF Typed, BeginDisconnect, TypeOK, dict, Connected
<1>4. QED
  BY <1>2, <1>3 DEF Typed, LoopHolds

LEMMA ScanType ==
  ASSUME Typed, Scan PROVE Typed'
<1>1. eng' = eng /\ eng \in [Db -> Engine \cup {NoEngine}]
  BY DEF Typed, Scan, TypeOK, dict
<1>2. CASE loop' = Free
  BY <1>2 DEF Typed, Scan, TypeOK, LoopHolds, dict, Connected, LoopType, Free
<1>3. CASE Closing({d \in Db : Connected(d) /\ loop.want \in {NoDb, d}})
  <2> DEFINE todo == {d \in Db : Connected(d) /\ loop.want \in {NoDb, d}}
  <2>1. todo \in SUBSET Db /\ \A d \in todo : eng'[d] \in Engine /\ eng'[d] = eng[d]
    BY <1>1 DEF Connected
  <2>2. \A d \in todo : Connected(d)'
    BY <1>1 DEF Connected
  <2>3. Closing(todo)
    BY <1>3
  <2> HIDE DEF todo
  <2>4. loop' \in LoopType /\ LoopHolds'
    BY <2>1, <2>2, <2>3, ClosingType DEF LoopHolds
  <2>5. QED
    BY <2>4 DEF Typed, Scan, TypeOK, dict, Connected
<1>4. QED
  BY <1>2, <1>3 DEF Scan

LEMMA DisposeEntryType ==
  ASSUME Typed, DisposeEntry PROVE Typed'
<1>1. loop \in [st : {"disposing", "deleting"}, todo : SUBSET Db, key : Db, eng : Engine]
  BY LoopFields DEF Typed, DisposeEntry
<1>2. /\ loop' \in LoopType
      /\ loop'.todo = loop.todo /\ loop'.key = loop.key
  BY <1>1 DEF DisposeEntry, LoopType
<1>3. TypeOK'
  BY <1>2 DEF Typed, DisposeEntry, TypeOK, dict, Connected
<1>4. LoopHolds'
  BY <1>2 DEF Typed, DisposeEntry, LoopHolds, dict, Connected
<1>5. QED
  BY <1>3, <1>4 DEF Typed

LEMMA DeleteEntryType ==
  ASSUME Typed, DeleteEntry PROVE Typed'
<1> DEFINE k == loop.key
<1>1. /\ loop.todo \in SUBSET Db /\ k \in Db
      /\ k \notin loop.todo
      /\ \A d \in loop.todo : Connected(d)
  BY LoopFields DEF Typed, DeleteEntry, LoopHolds
<1>2. /\ eng' \in [Db -> Engine \cup {NoEngine}]
      /\ \A d \in Db : Connected(d)' <=> Connected(d) /\ d # k
      /\ \A d \in Db : d # k => eng'[d] = eng[d]
  BY <1>1, ConnectionsAssumption DEF Typed, DeleteEntry, TypeOK, Connected
<1>3. /\ order' \in Seq(Db) /\ IsInjective(order')
      /\ ToSet(order') = {d \in Db : Connected(d)'}
  <2>1. /\ order \in Seq(Db) /\ NoRepeat(order)
        /\ \A x : Contains(order, x) <=> x \in Db /\ Connected(x)
    BY SequenceWords DEF Typed, TypeOK
  <2>2. /\ order' \in Seq(Db) /\ NoRepeat(order')
        /\ \A x : Contains(order', x) <=> x \in Db /\ Connected(x) /\ x # k
    <3>1. order' = RemoveFirst(order, k)
      BY DEF DeleteEntry
    <3>2. QED
      BY <1>1, <2>1, <3>1, RemoveOnly
  <2>3. ToSet(order') = {d \in Db : Connected(d)'}
    BY <1>2, <2>2, SequenceWords
  <2>4. QED
    BY <2>2, <2>3, SequenceWords
<1>4. \A d \in loop.todo : eng'[d] \in Engine /\ eng'[d] = eng[d] /\ Connected(d)'
  BY <1>1, <1>2 DEF Connected
<1>5. loop' \in LoopType /\ LoopHolds'
  <2>1. Closing(loop.todo)
    BY DEF DeleteEntry
  <2>2. QED
    BY <1>1, <1>4, <2>1, ClosingType DEF LoopHolds
<1>6. displaced' \subseteq Engine
  BY DEF Typed, DeleteEntry, TypeOK
<1>7. TypeOK'
  BY <1>2, <1>3, <1>5, <1>6 DEF Typed, DeleteEntry, TypeOK
<1>8. QED
  BY <1>5, <1>7 DEF Typed

-----------------------------------------------------------------------------
(* The handlers' steps touch neither the map nor a disconnect, only what   *)
(* is stored and the request itself.                                       *)

StoredOK(s) == s \in Seq(Db) /\ IsInjective(s)

LEMMA HandlerStepType ==
  ASSUME Typed, NEW r \in Request, NEW x \in RequestType,
         req' = [req EXCEPT ![r] = x],
         UNCHANGED <<dict, open, loop, displaced>>,
         StoredOK(stored'), seeded' \subseteq Db, asked' \in BOOLEAN
  PROVE  Typed'
<1>1. req' \in [Request -> RequestType]
  BY RequestStep DEF Typed
<1>2. TypeOK'
  BY <1>1 DEF Typed, TypeOK, StoredOK, dict, Connected
<1>3. QED
  BY <1>2, MapKept DEF Typed

LEMMA StoredIs == ASSUME TypeOK PROVE StoredOK(stored) /\ seeded \subseteq Db /\ asked \in BOOLEAN
  BY DEF TypeOK, StoredOK

(* What is stored when a connection has just been used, or is forgotten.   *)
LEMMA StoredMoves ==
  ASSUME StoredOK(stored), NEW d \in Db
  PROVE  /\ StoredOK(RemoveFirst(stored, d))
         /\ StoredOK(Append(RemoveFirst(stored, d), d))
         /\ \A c : Contains(RemoveFirst(stored, d), c) => Contains(stored, c)
         /\ \A c : Contains(Append(RemoveFirst(stored, d), d), c) =>
                     Contains(stored, c) \/ c = d
<1>1. stored \in Seq(Db) /\ NoRepeat(stored)
  BY SequenceWords DEF StoredOK
<1>2. /\ RemoveFirst(stored, d) \in Seq(Db) /\ NoRepeat(RemoveFirst(stored, d))
      /\ \A c : Contains(RemoveFirst(stored, d), c) <=> Contains(stored, c) /\ c # d
  BY <1>1, RemoveOnly
<1>3. /\ Append(RemoveFirst(stored, d), d) \in Seq(Db)
      /\ NoRepeat(Append(RemoveFirst(stored, d), d))
      /\ \A c : Contains(Append(RemoveFirst(stored, d), d), c) <=>
                  Contains(RemoveFirst(stored, d), c) \/ c = d
  BY <1>2, AppendNew
<1>4. QED
  BY <1>2, <1>3, SequenceWords DEF StoredOK

(* The states in which a request holds an engine.                          *)
Holding == {"installing", "disposing", "reporting"}

(* What every handler step has in common.                                  *)
Handled(r) ==
  /\ UNCHANGED <<dict, open, loop, displaced>>
  /\ StoredOK(stored') /\ seeded' \subseteq Db /\ asked' \in BOOLEAN
  /\ req[r].st \notin Holding
  /\ \E x \in RequestType : x.st \notin Holding /\ req' = [req EXCEPT ![r] = x]

LEMMA StartHandled ==
  ASSUME NEW r \in Request, NEW d \in Db, NEW kind \in {"connect", "sample", "ensure"},
         Start(r, kind, d)
  PROVE  \E x \in RequestType : x.st \notin Holding /\ req' = [req EXCEPT ![r] = x]
<1> DEFINE x == [st |-> "dialing", kind |-> kind, db |-> d]
<1>1. x \in RequestType /\ x.st \notin Holding
  BY DialingType DEF Holding
<1>2. QED
  BY <1>1 DEF Start

LEMMA EndHandled ==
  ASSUME NEW r \in Request, req' = [req EXCEPT ![r] = Idle]
  PROVE  \E x \in RequestType : x.st \notin Holding /\ req' = [req EXCEPT ![r] = x]
<1>1. Idle \in RequestType /\ Idle.st \notin Holding
  BY IdleType DEF Holding, Idle
<1>2. QED
  BY <1>1

LEMMA HandlerStepHandled ==
  ASSUME Typed, NEW r \in Request, HandlerStep(r) PROVE Handled(r)
<1>1. StoredOK(stored) /\ seeded \subseteq Db /\ asked \in BOOLEAN
  BY StoredIs DEF Typed
<1>2. Idle.st \notin Holding
  BY DEF Idle, Holding
<1>3. ASSUME NEW d \in Db, Connect(r, d) \/ Reconnect(r, d) PROVE Handled(r)
  <2>1. /\ Start(r, "connect", d) /\ req[r] = Idle /\ asked' \in BOOLEAN
        /\ UNCHANGED <<dict, open, loop, displaced, stored, seeded>>
    BY <1>1, <1>3 DEF Connect, Reconnect
  <2>2. QED
    BY <1>1, <1>2, <2>1, StartHandled DEF Handled
<1>4. CASE ConnectSample(r)
  <2>1. /\ Start(r, "sample", Sample) /\ req[r] = Idle /\ asked' \in BOOLEAN
        /\ UNCHANGED <<dict, open, loop, displaced, stored, seeded>>
    BY <1>4 DEF ConnectSample
  <2>2. QED
    BY <1>1, <1>2, <2>1, StartHandled, ConnectionsAssumption DEF Handled
<1>5. ASSUME NEW d \in Db \cup {NoDb}, Ensure(r, d) PROVE Handled(r)
  <2> DEFINE x == [st |-> "looking", db |-> d]
  <2>1. x \in RequestType /\ x.st \notin Holding
    BY DEF RequestType, Holding
  <2>2. /\ req' = [req EXCEPT ![r] = x] /\ req[r] = Idle /\ asked' \in BOOLEAN
        /\ UNCHANGED <<dict, open, loop, displaced, stored, seeded>>
    BY <1>1, <1>5 DEF Ensure
  <2> HIDE DEF x
  <2>3. QED
    BY <1>1, <1>2, <2>1, <2>2 DEF Handled
<1>6. CASE Lookup(r)
  <2>1. /\ req[r].st \notin Holding
        /\ UNCHANGED <<dict, open, loop, displaced, stored, seeded, asked>>
    BY <1>6 DEF Lookup, Holding
  <2>2. stored # <<>> => Last(stored) \in Db
    BY <1>1, SequenceWords DEF StoredOK
  <2>3. \A d : Contains(stored, d) => d \in Db
    BY <1>1, SequenceWords DEF StoredOK
  <2>4. \/ \E d \in Db : Start(r, "ensure", d)
        \/ req' = [req EXCEPT ![r] = Idle]
    BY <1>6, <2>2, <2>3, ConnectionsAssumption DEF Lookup
  <2>5. QED
    BY <1>1, <2>1, <2>4, StartHandled, EndHandled DEF Handled
<1>7. CASE PickTarget(r)
  <2>1. /\ req[r].st \notin Holding
        /\ UNCHANGED <<dict, open, loop, displaced, stored, seeded, asked>>
    BY <1>7 DEF PickTarget, Holding
  <2>2. order # <<>> => Head(order) \in Db
    BY SequenceWords DEF Typed, TypeOK
  <2>3. CASE order = <<>>
    BY <1>1, <1>7, <2>1, <2>3, EndHandled DEF PickTarget, Handled
  <2>4. CASE order # <<>>
    <3> DEFINE x == [st |-> "seeding", kind |-> "sample", db |-> Sample,
                     target |-> Head(order)]
    <3>1. x \in RequestType /\ x.st \notin Holding
      BY <2>2, <2>4, ConnectionsAssumption DEF RequestType, Holding
    <3>2. req' = [req EXCEPT ![r] = x]
      BY <1>7, <2>4 DEF PickTarget
    <3> HIDE DEF x
    <3>3. QED
      BY <1>1, <2>1, <3>1, <3>2 DEF Handled
  <2>5. QED
    BY <2>3, <2>4
<1>8. CASE Seed(r)
  <2> DEFINE x == [st |-> "saving", kind |-> "sample", db |-> Sample]
  <2>1. x \in RequestType /\ x.st \notin Holding
    BY ConnectionsAssumption DEF RequestType, Holding
  <2>2. /\ req' = [req EXCEPT ![r] = x] /\ req[r].st \notin Holding
        /\ UNCHANGED <<dict, open, loop, displaced, stored, asked>>
    BY <1>8 DEF Seed, Holding
  <2>3. seeded' \subseteq Db
    BY <1>1, <1>8, RequestFields DEF Seed, Typed
  <2> HIDE DEF x
  <2>4. QED
    BY <1>1, <2>1, <2>2, <2>3 DEF Handled
<1>9. CASE Save(r)
  <2>1. /\ req' = [req EXCEPT ![r] = Idle] /\ req[r].st \notin Holding
        /\ UNCHANGED <<dict, open, loop, displaced, seeded, asked>>
    BY <1>9 DEF Save, Holding
  <2>2. StoredOK(stored')
    <3>1. req[r].db \in Db
      BY <1>9, RequestFields DEF Save, Typed
    <3>2. stored' \in {stored, Append(RemoveFirst(stored, req[r].db), req[r].db)}
      BY <1>9 DEF Save
    <3>3. QED
      BY <1>1, <3>1, <3>2, StoredMoves
  <2>3. QED
    BY <1>1, <2>1, <2>2, EndHandled DEF Handled
<1>10. QED
  BY <1>3, <1>4, <1>5, <1>6, <1>7, <1>8, <1>9 DEF HandlerStep

LEMMA ForgetType ==
  ASSUME Typed, NEW d \in Db, Forget(d) PROVE Typed'
<1>1. StoredOK(stored')
  BY StoredIs, StoredMoves DEF Typed, Forget
<1>2. TypeOK'
  BY <1>1 DEF Typed, Forget, TypeOK, StoredOK, dict, Connected
<1>3. QED
  BY <1>2, MapKept DEF Typed, Forget

(* An empty map and nothing in progress, at the start and after a restart. *)
LEMMA EmptyTypes ==
  /\ <<>> \in Seq(Db) /\ IsInjective(<<>>) /\ ToSet(<<>>) = {}
  /\ {d \in Db : [c \in Db |-> NoEngine][d] # NoEngine} = {}
  /\ [r \in Request |-> Idle] \in [Request -> RequestType]
  /\ Free \in LoopType /\ Free.st = "free"
<1>1. <<>> \in Seq(Db) /\ IsInjective(<<>>) /\ ToSet(<<>>) = {}
  BY DEF IsInjective, ToSet
<1>2. [r \in Request |-> Idle] \in [Request -> RequestType]
  BY IdleType
<1>3. Free \in LoopType /\ Free.st = "free"
  BY DEF LoopType, Free
<1>4. QED
  BY <1>1, <1>2, <1>3

LEMMA TypedInitially == ASSUME Init PROVE Typed
  BY EmptyTypes DEF Init, Typed, TypeOK, LoopHolds, Connected

LEMMA RestartType == ASSUME Typed, Restart PROVE Typed'
  BY EmptyTypes DEF Restart, Typed, TypeOK, LoopHolds, Connected

LEMMA TypedInductive ==
  ASSUME Typed, [Next]_vars PROVE Typed'
<1>1. ASSUME NEW r \in Request, ThreadStep(r) PROVE Typed'
  BY <1>1, DialType, DialFailedType, InstallType, DisposeOldType, ReportType DEF ThreadStep
<1>2. ASSUME NEW r \in Request, HandlerStep(r) PROVE Typed'
  BY <1>2, HandlerStepHandled, HandlerStepType DEF Handled
<1>3. CASE DisconnectStep
  BY <1>3, BeginDisconnectType, ScanType, DisposeEntryType, DeleteEntryType
     DEF DisconnectStep
<1>4. CASE Restart
  BY <1>4, RestartType
<1>5. CASE UNCHANGED vars
  BY <1>5 DEF Typed, TypeOK, LoopHolds, Connected, vars, dict
<1>6. QED
  BY <1>1, <1>2, <1>3, <1>4, <1>5, ForgetType DEF Next

(* The map and its order agree, what is stored names no database twice,    *)
(* and everything has its type.                                            *)
THEOREM TypeCorrect == Spec => []TypeOK
<1>1. Init => Typed
  BY TypedInitially
<1>2. Typed /\ [Next]_vars => Typed'
  BY TypedInductive
<1>3. Typed => TypeOK
  BY DEF Typed
<1>4. QED
  BY <1>1, <1>2, <1>3, PTL DEF Spec

-----------------------------------------------------------------------------
(* No engine is lost.                                                      *)

(* EnginesAccounted of one engine.                                         *)
Accounted(e) ==
  \/ \E d \in Db : eng[d] = e
  \/ e \in displaced
  \/ \E r \in Request : req[r].st = "installing" /\ req[r].eng = e
  \/ \E r \in Request : req[r].st = "disposing" /\ req[r].old = e
  \/ loop.st = "disposing" /\ e = loop.eng

LEMMA AccountedIs ==
  ASSUME TypeOK PROVE EnginesAccounted <=> \A e \in open : Accounted(e)
<1>1. ASSUME NEW e \in open
      PROVE  /\ e \in Mapped <=> \E d \in Db : eng[d] = e
             /\ \A r \in Request :
                  e \in InHand(r) <=> req[r].st = "installing" /\ req[r].eng = e
  BY ConnectionsAssumption DEF TypeOK, Mapped, InHand
<1>2. QED
  BY <1>1 DEF EnginesAccounted, Accounted

LEMMA InstallAccounts ==
  ASSUME Typed, NEW r \in Request, Install(r), NEW e \in open, Accounted(e)
  PROVE  Accounted(e)'
<1> DEFINE d == req[r].db
<1>1. d \in Db /\ req[r].eng \in Engine /\ req[r].old \in Engine \cup {NoEngine}
  BY RequestFields DEF Typed, Install
<1>2. /\ req' = [req EXCEPT ![r].st =
                   IF req[r].old = NoEngine THEN "reporting" ELSE "disposing"]
      /\ loop' = loop /\ eng'[d] = req[r].eng
      /\ \A c \in Db : c # d => eng'[c] = eng[c]
      /\ displaced \subseteq displaced'
  BY <1>1 DEF Typed, Install, TypeOK
<1>3. e \in Engine /\ e # NoEngine /\ req \in [Request -> RequestType]
  BY ConnectionsAssumption DEF Typed, TypeOK
<1>4. CASE e = eng[d] /\ e # req[r].old
  <2>1. e \in displaced'
    BY <1>3, <1>4 DEF Install
  <2>2. QED
    BY <2>1 DEF Accounted
<1>5. CASE e = req[r].old
  <2>1. req'[r].st = "disposing" /\ req'[r].old = e
    BY <1>2, <1>3, <1>5
  <2>2. QED
    BY <2>1 DEF Accounted
<1>6. CASE e = req[r].eng
  BY <1>1, <1>2, <1>6 DEF Accounted
<1>7. CASE e # eng[d] /\ e # req[r].old /\ e # req[r].eng
  <2>1. \A q \in Request : q # r => req'[q] = req[q]
    BY <1>2, <1>3
  <2>2. req[r].st = "installing"
    BY DEF Install
  <2>3. QED
    BY <1>2, <1>7, <2>1, <2>2 DEF Accounted
<1>8. QED
  BY <1>4, <1>5, <1>6, <1>7

LEMMA AccountedInductive ==
  ASSUME Typed, \A e \in open : Accounted(e), [Next]_vars, NEW e \in open'
  PROVE  Accounted(e)'
<1>1. req \in [Request -> RequestType]
  BY DEF Typed, TypeOK
<1>2. ASSUME NEW r \in Request, Dial(r) PROVE Accounted(e)'
  <2>1. PICK n \in Engine : /\ open' = open \cup {n}
                            /\ displaced' = displaced \ {n}
                            /\ req' = [req EXCEPT ![r] =
                                 [st |-> "installing", kind |-> req[r].kind,
                                  db |-> req[r].db, eng |-> n, old |-> eng[req[r].db]]]
    BY <1>2 DEF Dial
  <2>2. req'[r].st = "installing" /\ req'[r].eng = n
    BY <1>1, <2>1
  <2>3. \A q \in Request : q # r => req'[q] = req[q]
    BY <1>1, <2>1
  <2>4. eng' = eng /\ loop' = loop /\ req[r].st = "dialing"
    BY <1>2 DEF Dial, dict
  <2>5. QED
    BY <2>1, <2>2, <2>3, <2>4 DEF Accounted
<1>3. ASSUME NEW r \in Request, Install(r) PROVE Accounted(e)'
  BY <1>3, InstallAccounts DEF Install
<1>4. ASSUME NEW r \in Request, DialFailed(r) \/ Report(r) \/ HandlerStep(r)
      PROVE  Accounted(e)'
  <2>1. /\ e \in open
        /\ eng' = eng /\ loop' = loop /\ displaced' = displaced
        /\ req[r].st \notin {"installing", "disposing"}
        /\ \E x : req' = [req EXCEPT ![r] = x]
    BY <1>4, HandlerStepHandled DEF DialFailed, Report, Handled, Holding, dict
  <2>2. \A q \in Request : q # r => req'[q] = req[q]
    BY <1>1, <2>1
  <2>3. QED
    BY <2>1, <2>2 DEF Accounted
<1>5. ASSUME NEW r \in Request, DisposeOld(r) PROVE Accounted(e)'
  <2>1. /\ e \in open /\ e # req[r].old
        /\ eng' = eng /\ loop' = loop /\ displaced' = displaced
        /\ req[r].st = "disposing"
    BY <1>5 DEF DisposeOld, dict
  <2>2. \A q \in Request : q # r => req'[q] = req[q]
    BY <1>1, <1>5 DEF DisposeOld
  <2>3. QED
    BY <2>1, <2>2 DEF Accounted
<1>6. CASE DisconnectStep
  <2>1. req' = req
    BY <1>6 DEF DisconnectStep, BeginDisconnect, Scan, DisposeEntry, DeleteEntry
  <2>2. CASE Scan \/ \E want \in Db \cup {NoDb} : BeginDisconnect(want)
    BY <2>1, <2>2 DEF Scan, BeginDisconnect, Free, Accounted, dict
  <2>3. CASE DisposeEntry
    BY <2>1, <2>3 DEF DisposeEntry, Accounted, dict
  <2>4. CASE DeleteEntry
    <3>1. loop.key \in Db /\ eng \in [Db -> Engine \cup {NoEngine}]
      BY <2>4, LoopFields DEF DeleteEntry, Typed, TypeOK
    <3>2. /\ \A d \in Db : d # loop.key => eng'[d] = eng[d]
          /\ e \in open /\ loop.st = "deleting"
          /\ displaced \subseteq displaced'
      BY <2>4, <3>1 DEF DeleteEntry
    <3>3. CASE e = eng[loop.key]
      BY <2>4, <3>2, <3>3 DEF DeleteEntry, Accounted
    <3>4. CASE e # eng[loop.key]
      BY <2>1, <3>1, <3>2, <3>4 DEF Accounted
    <3>5. QED
      BY <3>3, <3>4
  <2>5. QED
    BY <1>6, <2>2, <2>3, <2>4 DEF DisconnectStep
<1>7. ASSUME NEW d \in Db, Forget(d) PROVE Accounted(e)'
  BY <1>7 DEF Forget, Accounted, dict
<1>8. CASE Restart
  BY <1>8 DEF Restart
<1>9. CASE UNCHANGED vars
  BY <1>9 DEF vars, Accounted, dict
<1>10. QED
  BY <1>2, <1>3, <1>4, <1>5, <1>6, <1>7, <1>8, <1>9 DEF Next, ThreadStep

(* Every engine that is open is in the map, or about to be put there or    *)
(* disposed, or was taken out by two changes of one entry that raced.      *)
THEOREM NoEngineLost == Spec => []EnginesAccounted
<1> DEFINE All == \A e \in open : Accounted(e)
<1>1. Init => Typed /\ All
  BY TypedInitially DEF Init
<1>2. Typed /\ All /\ [Next]_vars => (Typed /\ All)'
  BY TypedInductive, AccountedInductive
<1>3. Typed /\ All => EnginesAccounted
  BY AccountedIs DEF Typed
<1>4. QED
  BY <1>1, <1>2, <1>3, PTL DEF Spec

-----------------------------------------------------------------------------
(* No disposed engine is in the map.  The property is not inductive: it    *)
(* takes that a new engine is known to nobody but its request, that nobody *)
(* will dispose an engine of another database's entry, and that the engine *)
(* a connect disposes has left the map by then.                            *)

Closes == {"disposing", "deleting"}

OneEntry == \A c, d \in Db : Connected(c) /\ eng[c] = eng[d] => c = d

NewApart ==
  \A r \in Request : req[r].st = "installing" =>
    /\ req[r].eng \in open
    /\ \A d \in Db : eng[d] # req[r].eng
    /\ \A q \in Request : req[q].st \in Holding =>
         /\ q # r => req[q].eng # req[r].eng
         /\ req[q].old # req[r].eng
    /\ loop.st \in Closes => loop.eng # req[r].eng

AtHome ==
  \A r \in Request : req[r].st \in Holding =>
    \A d \in Db : Connected(d) /\ d # req[r].db => eng[d] \notin {req[r].eng, req[r].old}

OldGone ==
  \A r \in Request : req[r].st = "disposing" =>
    \A d \in Db : Connected(d) => eng[d] # req[r].old

LoopAtHome ==
  loop.st = "disposing" => \A d \in Db : d # loop.key => eng[d] # loop.eng

OpenInv == /\ OneEntry /\ NewApart /\ AtHome /\ OldGone /\ LoopAtHome
           /\ MappedIsOpen

(* Engines in use: a new one is none of them.                              *)
LEMMA ReferencedBy ==
  /\ \A q \in Request : req[q].st \in Holding =>
       req[q].eng \in Referenced /\ req[q].old \in Referenced
  /\ loop.st \in Closes => loop.eng \in Referenced
<1> DEFINE Part(q) == IF req[q].st \in {"installing", "disposing", "reporting"}
                        THEN {req[q].eng, req[q].old} ELSE {}
           Parts == {Part(q) : q \in Request}
           Closed == IF loop.st \in {"disposing", "deleting"} THEN {loop.eng} ELSE {}
<1>1. Referenced = (UNION Parts) \cup Closed
  BY DEF Referenced
<1>2. ASSUME NEW q \in Request, req[q].st \in Holding
      PROVE  req[q].eng \in UNION Parts /\ req[q].old \in UNION Parts
  <2>1. Part(q) = {req[q].eng, req[q].old}
    BY <1>2 DEF Holding
  <2>2. Part(q) \in Parts
    OBVIOUS
  <2> HIDE DEF Part, Parts
  <2>3. QED
    BY <2>1, <2>2
<1>3. loop.st \in Closes => loop.eng \in Closed
  BY DEF Closes
<1> HIDE DEF Parts, Closed
<1>4. QED
  BY <1>1, <1>2, <1>3

(* Steps that neither make nor dispose an engine nor change the map.       *)
LEMMA QuietStep ==
  ASSUME Typed, OpenInv, UNCHANGED <<dict, open, loop>>,
         \A q \in Request : req'[q].st \in Holding => req'[q] = req[q]
  PROVE  OpenInv'
<1>1. eng' = eng /\ open' = open /\ loop' = loop
  BY DEF dict
<1>2. OneEntry' /\ LoopAtHome' /\ MappedIsOpen'
  BY <1>1 DEF OpenInv, OneEntry, LoopAtHome, MappedIsOpen, Connected, Leaving
<1>3. NewApart'
  BY <1>1 DEF OpenInv, NewApart, Holding
<1>4. AtHome' /\ OldGone'
  BY <1>1 DEF OpenInv, AtHome, OldGone, Connected, Holding
<1>5. QED
  BY <1>2, <1>3, <1>4 DEF OpenInv

LEMMA DialOpen ==
  ASSUME Typed, OpenInv, NEW r \in Request, Dial(r) PROVE OpenInv'
<1> DEFINE b == req[r].db
<1>1. PICK e \in Engine \ (open \cup Mapped \cup Referenced) :
        /\ open' = open \cup {e}
        /\ req' = [req EXCEPT ![r] = [st |-> "installing", kind |-> req[r].kind,
                     db |-> b, eng |-> e, old |-> eng[b]]]
  BY DEF Dial
<1>2. eng' = eng /\ loop' = loop /\ b \in Db /\ eng \in [Db -> Engine \cup {NoEngine}]
  BY RequestFields DEF Dial, dict, Typed, TypeOK
<1>3. /\ e # NoEngine
      /\ \A d \in Db : eng[d] # e
      /\ \A q \in Request : req[q].st \in Holding => req[q].eng # e /\ req[q].old # e
      /\ loop.st \in Closes => loop.eng # e
  <2>1. e # NoEngine
    BY <1>1, ConnectionsAssumption
  <2>2. \A d \in Db : eng[d] # e
    BY <1>1, <2>1 DEF Mapped
  <2>3. \A q \in Request : req[q].st \in Holding => req[q].eng # e /\ req[q].old # e
    BY <1>1, ReferencedBy
  <2>4. loop.st \in Closes => loop.eng # e
    BY <1>1, ReferencedBy
  <2>5. QED
    BY <2>1, <2>2, <2>3, <2>4
<1>4. /\ req'[r].st = "installing" /\ req'[r].db = b
      /\ req'[r].eng = e /\ req'[r].old = eng[b]
      /\ \A q \in Request : q # r => req'[q] = req[q]
  BY <1>1 DEF Typed, TypeOK
<1>5. OneEntry' /\ LoopAtHome' /\ MappedIsOpen'
  BY <1>1, <1>2 DEF OpenInv, OneEntry, LoopAtHome, MappedIsOpen, Connected, Leaving
<1>6. NewApart'
  <2>1. ASSUME NEW p \in Request, req'[p].st = "installing"
        PROVE  /\ req'[p].eng \in open'
               /\ \A d \in Db : eng'[d] # req'[p].eng
               /\ \A q \in Request : req'[q].st \in Holding =>
                    /\ q # p => req'[q].eng # req'[p].eng
                    /\ req'[q].old # req'[p].eng
               /\ loop'.st \in Closes => loop'.eng # req'[p].eng
    <3>1. CASE p = r
      BY <1>1, <1>2, <1>3, <1>4, <3>1
    <3>2. CASE p # r
      <4>1. req'[p] = req[p]
        BY <1>4, <3>2
      <4>2. req[p].eng # e
        BY <1>3, <2>1, <4>1 DEF Holding
      <4>3. QED
        BY <1>1, <1>2, <1>4, <2>1, <3>2, <4>1, <4>2 DEF OpenInv, NewApart
    <3>3. QED
      BY <3>1, <3>2
  <2>2. QED
    BY <2>1 DEF NewApart
<1>7. AtHome'
  <2>1. ASSUME NEW d \in Db, eng[d] # NoEngine, d # b PROVE eng[d] \notin {e, eng[b]}
    BY <1>2, <1>3, <2>1 DEF OpenInv, OneEntry, Connected
  <2>2. QED
    BY <1>2, <1>4, <2>1 DEF OpenInv, AtHome, Connected
<1>8. OldGone'
  BY <1>2, <1>4 DEF OpenInv, OldGone, Connected
<1>9. QED
  BY <1>5, <1>6, <1>7, <1>8 DEF OpenInv

LEMMA InstallOpen ==
  ASSUME Typed, OpenInv, NEW r \in Request, Install(r) PROVE OpenInv'
<1> DEFINE b == req[r].db
           e == req[r].eng
<1>1. /\ b \in Db /\ e \in Engine /\ e # NoEngine
      /\ req[r] \in [st : {"installing", "disposing", "reporting"},
                     kind : {"connect", "sample", "ensure"}, db : Db,
                     eng : Engine, old : Engine \cup {NoEngine}]
  BY RequestFields, ConnectionsAssumption DEF Typed, Install
<1>2. /\ eng'[b] = e /\ \A c \in Db : c # b => eng'[c] = eng[c]
      /\ loop' = loop /\ open' = open
  BY <1>1 DEF Install, Typed, TypeOK
<1>3. /\ \A q \in Request : q # r => req'[q] = req[q]
      /\ req'[r].st \in {"reporting", "disposing"}
      /\ req'[r].db = b /\ req'[r].eng = e /\ req'[r].old = req[r].old
  BY <1>1 DEF Install, Typed, TypeOK
<1>4. /\ e \in open
      /\ \A d \in Db : eng[d] # e
      /\ \A q \in Request : req[q].st \in Holding =>
           (q # r => req[q].eng # e) /\ req[q].old # e
      /\ loop.st \in Closes => loop.eng # e
  BY DEF OpenInv, NewApart, Install
<1>5. req[r].st = "installing"
  BY DEF Install
<1>6. OneEntry'
  BY <1>1, <1>2, <1>4 DEF OpenInv, OneEntry, Connected
<1>7. NewApart'
  <2>1. ASSUME NEW p \in Request, req'[p].st = "installing"
        PROVE  /\ req'[p].eng \in open'
               /\ \A d \in Db : eng'[d] # req'[p].eng
               /\ \A q \in Request : req'[q].st \in Holding =>
                    /\ q # p => req'[q].eng # req'[p].eng
                    /\ req'[q].old # req'[p].eng
               /\ loop'.st \in Closes => loop'.eng # req'[p].eng
    <3>1. p # r /\ req'[p] = req[p]
      BY <1>3, <2>1
    <3>2. req[p].eng # e
      BY <1>4, <2>1, <3>1 DEF Holding
    <3>3. req[r].eng # req[p].eng /\ req[r].old # req[p].eng
      BY <1>5, <2>1, <3>1 DEF OpenInv, NewApart, Holding
    <3>4. QED
      BY <1>2, <1>3, <2>1, <3>1, <3>2, <3>3 DEF OpenInv, NewApart
  <2>2. QED
    BY <2>1 DEF NewApart
<1>8. AtHome'
  <2>1. ASSUME NEW q \in Request, req'[q].st \in Holding,
               NEW d \in Db, eng'[d] # NoEngine, d # req'[q].db
        PROVE  eng'[d] \notin {req'[q].eng, req'[q].old}
    <3>1. /\ req[q].st \in Holding /\ req'[q].db = req[q].db
          /\ req'[q].eng = req[q].eng /\ req'[q].old = req[q].old
      BY <1>3, <1>5, <2>1 DEF Holding
    <3>2. CASE d # b
      BY <1>2, <2>1, <3>1, <3>2 DEF OpenInv, AtHome, Connected
    <3>3. CASE d = b
      BY <1>2, <1>3, <1>4, <2>1, <3>1, <3>3
    <3>4. QED
      BY <3>2, <3>3
  <2>2. QED
    BY <2>1 DEF AtHome, Connected
<1>9. OldGone'
  <2>1. ASSUME NEW q \in Request, req'[q].st = "disposing", NEW d \in Db, eng'[d] # NoEngine
        PROVE  eng'[d] # req'[q].old
    <3>1. req[q].st \in Holding /\ req'[q].old = req[q].old /\ req'[q].db = req[q].db
      BY <1>3, <1>5, <2>1 DEF Holding
    <3>2. CASE d = b
      BY <1>2, <1>4, <3>1, <3>2
    <3>3. CASE d # b /\ q = r
      BY <1>2, <1>5, <2>1, <3>1, <3>3 DEF OpenInv, AtHome, Connected, Holding
    <3>4. CASE d # b /\ q # r
      BY <1>2, <1>3, <2>1, <3>1, <3>4 DEF OpenInv, OldGone, Connected
    <3>5. QED
      BY <3>2, <3>3, <3>4
  <2>2. QED
    BY <2>1 DEF OldGone, Connected
<1>10. LoopAtHome' /\ MappedIsOpen'
  BY <1>1, <1>2, <1>4 DEF OpenInv, LoopAtHome, MappedIsOpen, Connected, Leaving, Closes
<1>11. QED
  BY <1>6, <1>7, <1>8, <1>9, <1>10 DEF OpenInv

(* Some engine is disposed that neither an entry, but for one being        *)
(* deleted, nor an installing request refers to.                           *)
LEMMA OnlyOpenChanges ==
  ASSUME Typed, OpenInv, NEW gone, open' = open \ {gone}, UNCHANGED <<dict, loop>>,
         \A d \in Db : Connected(d) => eng[d] # gone,
         \A p \in Request : req[p].st = "installing" => req[p].eng # gone,
         \A q \in Request : req'[q].st \in Holding =>
           /\ req[q].st \in Holding /\ req'[q].db = req[q].db /\ req'[q].eng = req[q].eng
           /\ req'[q].old \in {req[q].old, NoEngine}
           /\ req'[q].st \in {"installing", "disposing"} => req'[q] = req[q]
  PROVE  OpenInv'
<1>1. eng' = eng /\ loop' = loop
  BY DEF dict
<1>2. OneEntry' /\ LoopAtHome'
  BY <1>1 DEF OpenInv, OneEntry, LoopAtHome, Connected
<1>3. MappedIsOpen'
  BY <1>1 DEF OpenInv, MappedIsOpen, Connected, Leaving
<1>4. NewApart'
  <2>1. ASSUME NEW p \in Request, req'[p].st = "installing"
        PROVE  /\ req'[p].eng \in open'
               /\ \A d \in Db : eng'[d] # req'[p].eng
               /\ \A q \in Request : req'[q].st \in Holding =>
                    /\ q # p => req'[q].eng # req'[p].eng
                    /\ req'[q].old # req'[p].eng
               /\ loop'.st \in Closes => loop'.eng # req'[p].eng
    <3>1. req'[p] = req[p] /\ req[p].st = "installing"
      BY <2>1 DEF Holding
    <3>2. req[p].eng # NoEngine
      BY <3>1, RequestFields, ConnectionsAssumption DEF Typed
    <3>3. QED
      BY <1>1, <3>1, <3>2 DEF OpenInv, NewApart
  <2>2. QED
    BY <2>1 DEF NewApart
<1>5. AtHome'
  BY <1>1 DEF OpenInv, AtHome, Connected
<1>6. OldGone'
  <2>1. \A q \in Request : req'[q].st = "disposing" => req'[q] = req[q]
    BY DEF Holding
  <2>2. QED
    BY <1>1, <2>1 DEF OpenInv, OldGone, Connected
<1>7. QED
  BY <1>2, <1>3, <1>4, <1>5, <1>6 DEF OpenInv

LEMMA DisposeOldOpen ==
  ASSUME Typed, OpenInv, NEW r \in Request, DisposeOld(r) PROVE OpenInv'
<1>1. /\ req[r].st = "disposing"
      /\ open' = open \ {req[r].old}
      /\ UNCHANGED <<dict, loop>>
  BY DEF DisposeOld
<1>2. /\ req'[r].st = "reporting" /\ req'[r].db = req[r].db
      /\ req'[r].eng = req[r].eng /\ req'[r].old = NoEngine
      /\ \A q \in Request : q # r => req'[q] = req[q]
  BY RequestFields DEF Typed, TypeOK, DisposeOld
<1>3. \A d \in Db : Connected(d) => eng[d] # req[r].old
  BY <1>1 DEF OpenInv, OldGone
<1>4. \A p \in Request : req[p].st = "installing" => req[p].eng # req[r].old
  BY <1>1 DEF OpenInv, NewApart, Holding
<1>5. \A q \in Request : req'[q].st \in Holding =>
        /\ req[q].st \in Holding /\ req'[q].db = req[q].db /\ req'[q].eng = req[q].eng
        /\ req'[q].old \in {req[q].old, NoEngine}
        /\ req'[q].st \in {"installing", "disposing"} => req'[q] = req[q]
  BY <1>1, <1>2 DEF Holding
<1>6. QED
  BY <1>1, <1>3, <1>4, <1>5, OnlyOpenChanges

LEMMA ReportOpen ==
  ASSUME Typed, OpenInv, NEW r \in Request, Report(r) PROVE OpenInv'
<1>1. /\ req[r].st = "reporting"
      /\ req[r].kind \in {"connect", "sample", "ensure"} /\ req[r].db \in Db
      /\ UNCHANGED <<dict, loop>>
  BY RequestFields DEF Typed, Report
<1>2. \E x : req' = [req EXCEPT ![r] = x] /\ x.st \notin Holding
  <2>1. PICK x : /\ req' = [req EXCEPT ![r] = x]
                 /\ \/ x = Idle
                    \/ x = [st |-> "saving", kind |-> "connect", db |-> req[r].db]
                    \/ x = [st |-> "connected", kind |-> "sample", db |-> req[r].db]
    BY <1>1 DEF Report
  <2>2. x.st \notin Holding
    BY <2>1 DEF Holding, Idle
  <2>3. QED
    BY <2>1, <2>2
<1>3. req'[r].st \notin Holding /\ \A q \in Request : q # r => req'[q] = req[q]
  BY <1>2 DEF Typed, TypeOK
<1>4. CASE open' = open
  BY <1>1, <1>3, <1>4, QuietStep
<1>5. CASE open' = open \ {req[r].eng} /\ ~Connected(req[r].db)
  <2>1. \A d \in Db : Connected(d) => eng[d] # req[r].eng
    BY <1>1, <1>5 DEF OpenInv, AtHome, Holding
  <2>2. \A p \in Request : req[p].st = "installing" => req[p].eng # req[r].eng
    BY <1>1 DEF OpenInv, NewApart, Holding
  <2>3. \A q \in Request : req'[q].st \in Holding => req'[q] = req[q]
    BY <1>3
  <2>4. QED
    BY <1>1, <1>5, <2>1, <2>2, <2>3, OnlyOpenChanges
<1>6. QED
  BY <1>4, <1>5 DEF Report

(* Another entry for a disconnect to close, or none.                       *)
LEMMA ClosingOpen ==
  ASSUME OneEntry, NewApart, NEW todo \in SUBSET Db,
         \A d \in todo : eng'[d] = eng[d] /\ Connected(d),
         \A c \in Db : eng'[c] \in {eng[c], NoEngine},
         Closing(todo)
  PROVE  /\ loop' = Free \/ loop'.st = "disposing"
         /\ LoopAtHome'
         /\ \A p \in Request : req[p].st = "installing" /\ loop'.st \in Closes =>
              loop'.eng # req[p].eng
<1>1. CASE todo = {}
  BY <1>1 DEF Closing, Free, LoopAtHome, Closes
<1>2. CASE todo # {}
  <2>1. PICK d \in todo :
          loop' = [st |-> "disposing", todo |-> todo \ {d}, key |-> d, eng |-> eng[d]]
    BY <1>2 DEF Closing
  <2>2. /\ loop'.st = "disposing" /\ loop'.key = d /\ loop'.eng = eng[d]
        /\ d \in Db /\ Connected(d)
    BY <2>1
  <2>3. LoopAtHome'
    BY <2>2 DEF LoopAtHome, OneEntry, Connected
  <2>4. \A p \in Request : req[p].st = "installing" => eng[d] # req[p].eng
    BY <2>2 DEF NewApart
  <2>5. QED
    BY <2>2, <2>3, <2>4
<1>3. QED
  BY <1>1, <1>2

LEMMA DisconnectOpen ==
  ASSUME Typed, OpenInv, DisconnectStep PROVE OpenInv'
<1>1. req' = req /\ eng \in [Db -> Engine \cup {NoEngine}]
  BY DEF Typed, TypeOK, DisconnectStep, BeginDisconnect, Scan, DisposeEntry, DeleteEntry
<1>2. ASSUME eng' = eng, open' = open, loop.st # "deleting", loop'.st # "deleting",
             LoopAtHome',
             \A p \in Request : req[p].st = "installing" /\ loop'.st \in Closes =>
               loop'.eng # req[p].eng
      PROVE  OpenInv'
  <2>1. OneEntry' /\ AtHome' /\ OldGone' /\ MappedIsOpen'
    BY <1>1, <1>2 DEF OpenInv, OneEntry, AtHome, OldGone, MappedIsOpen, Connected, Leaving
  <2>2. NewApart'
    BY <1>1, <1>2 DEF OpenInv, NewApart
  <2>3. QED
    BY <1>2, <2>1, <2>2 DEF OpenInv
<1>3. CASE \E want \in Db \cup {NoDb} : BeginDisconnect(want)
  <2>1. /\ eng' = eng /\ open' = open /\ loop.st = "free" /\ loop'.st = "scanning"
    BY <1>3 DEF BeginDisconnect, dict, Free
  <2>2. QED
    BY <1>2, <2>1 DEF LoopAtHome, Closes
<1>4. CASE Scan
  <2>1. eng' = eng /\ open' = open /\ loop.st = "scanning"
    BY <1>4 DEF Scan, dict
  <2>2. CASE loop' = Free
    BY <1>2, <2>1, <2>2 DEF LoopAtHome, Closes, Free
  <2>3. CASE Closing({d \in Db : Connected(d) /\ loop.want \in {NoDb, d}})
    <3> DEFINE todo == {d \in Db : Connected(d) /\ loop.want \in {NoDb, d}}
    <3>1. /\ todo \in SUBSET Db
          /\ \A d \in todo : eng'[d] = eng[d] /\ Connected(d)
          /\ Closing(todo)
      BY <2>1, <2>3
    <3> HIDE DEF todo
    <3>2. /\ loop' = Free \/ loop'.st = "disposing"
          /\ LoopAtHome'
          /\ \A p \in Request : req[p].st = "installing" /\ loop'.st \in Closes =>
               loop'.eng # req[p].eng
      BY <2>1, <3>1, ClosingOpen DEF OpenInv
    <3>3. QED
      BY <1>2, <2>1, <3>2 DEF Free
  <2>4. QED
    BY <1>4, <2>2, <2>3 DEF Scan
<1>5. CASE DisposeEntry
  <2>1. /\ eng' = eng /\ open' = open \ {loop.eng}
        /\ loop.st = "disposing" /\ loop'.st = "deleting"
        /\ loop'.key = loop.key /\ loop'.eng = loop.eng
    BY <1>5, LoopFields DEF Typed, DisposeEntry, dict
  <2>2. \A d \in Db : d # loop.key => eng[d] # loop.eng
    BY <2>1 DEF OpenInv, LoopAtHome
  <2>3. MappedIsOpen'
    BY <2>1, <2>2 DEF OpenInv, MappedIsOpen, Connected, Leaving
  <2>4. OneEntry' /\ AtHome' /\ OldGone' /\ LoopAtHome'
    BY <1>1, <2>1 DEF OpenInv, OneEntry, AtHome, OldGone, LoopAtHome, Connected
  <2>5. NewApart'
    BY <1>1, <2>1 DEF OpenInv, NewApart, Closes
  <2>6. QED
    BY <2>3, <2>4, <2>5 DEF OpenInv
<1>6. CASE DeleteEntry
  <2>1. /\ loop.key \in Db /\ loop.todo \in SUBSET Db
        /\ loop.key \notin loop.todo /\ \A d \in loop.todo : Connected(d)
    BY <1>6, LoopFields DEF Typed, DeleteEntry, LoopHolds
  <2>2. /\ open' = open /\ loop.st = "deleting" /\ Closing(loop.todo)
        /\ eng'[loop.key] = NoEngine
        /\ \A d \in Db : d # loop.key => eng'[d] = eng[d]
    BY <1>1, <1>6, <2>1 DEF DeleteEntry
  <2>3. /\ loop' = Free \/ loop'.st = "disposing"
        /\ LoopAtHome'
        /\ \A p \in Request : req[p].st = "installing" /\ loop'.st \in Closes =>
             loop'.eng # req[p].eng
    BY <2>1, <2>2, ClosingOpen DEF OpenInv
  <2>4. OneEntry' /\ AtHome' /\ OldGone'
    BY <1>1, <2>2 DEF OpenInv, OneEntry, AtHome, OldGone, Connected
  <2>5. MappedIsOpen'
    BY <2>2 DEF OpenInv, MappedIsOpen, Connected, Leaving
  <2>6. NewApart'
    <3>1. \A p \in Request : req[p].st = "installing" => req[p].eng # NoEngine
      BY RequestFields, ConnectionsAssumption DEF Typed
    <3>2. \A p \in Request : req[p].st = "installing" =>
            \A d \in Db : eng'[d] # req[p].eng
      BY <2>2, <3>1 DEF OpenInv, NewApart
    <3>3. QED
      BY <1>1, <2>2, <2>3, <3>2 DEF OpenInv, NewApart
  <2>7. QED
    BY <2>3, <2>4, <2>5, <2>6 DEF OpenInv
<1>7. QED
  BY <1>3, <1>4, <1>5, <1>6 DEF DisconnectStep

LEMMA OpenInductive ==
  ASSUME Typed, OpenInv, [Next]_vars PROVE OpenInv'
<1>1. ASSUME NEW r \in Request, DialFailed(r) \/ HandlerStep(r) PROVE OpenInv'
  <2>1. /\ UNCHANGED <<dict, open, loop>>
        /\ \E x : x.st \notin Holding /\ req' = [req EXCEPT ![r] = x]
    <3>1. CASE DialFailed(r)
      BY <3>1, EndHandled DEF DialFailed
    <3>2. CASE HandlerStep(r)
      BY <3>2, HandlerStepHandled DEF Handled
    <3>3. QED
      BY <1>1, <3>1, <3>2
  <2>2. req'[r].st \notin Holding /\ \A q \in Request : q # r => req'[q] = req[q]
    BY <2>1 DEF Typed, TypeOK
  <2>3. QED
    BY <2>1, <2>2, QuietStep
<1>2. ASSUME NEW d \in Db, Forget(d) PROVE OpenInv'
  BY <1>2, QuietStep DEF Forget
<1>3. CASE Restart
  <2>1. /\ \A d \in Db : eng'[d] = NoEngine
        /\ \A r \in Request : req'[r].st = "idle"
        /\ loop'.st = "free"
    BY <1>3 DEF Restart, Idle, Free
  <2>2. QED
    BY <2>1 DEF OpenInv, OneEntry, NewApart, AtHome, OldGone, LoopAtHome, MappedIsOpen,
       Connected, Holding
<1>4. CASE UNCHANGED vars
  BY <1>4, QuietStep DEF vars
<1>5. ASSUME NEW r \in Request, ThreadStep(r) PROVE OpenInv'
  BY <1>1, <1>5, DialOpen, InstallOpen, DisposeOldOpen, ReportOpen DEF ThreadStep
<1>6. QED
  BY <1>1, <1>2, <1>3, <1>4, <1>5, DisconnectOpen DEF Next

LEMMA OpenInitially == ASSUME Init PROVE OpenInv
<1>1. /\ \A d \in Db : eng[d] = NoEngine
      /\ \A r \in Request : req[r].st = "idle"
      /\ loop.st = "free"
  BY DEF Init, Idle, Free
<1>2. QED
  BY <1>1 DEF OpenInv, OneEntry, NewApart, AtHome, OldGone, LoopAtHome, MappedIsOpen,
     Connected, Holding

(* A query never finds a disposed engine in the map, but for the entry a   *)
(* disconnect is between disposing and deleting.                           *)
THEOREM MappedStaysOpen == Spec => []MappedIsOpen
<1>1. Init => Typed /\ OpenInv
  BY TypedInitially, OpenInitially
<1>2. Typed /\ OpenInv /\ [Next]_vars => (Typed /\ OpenInv)'
  BY TypedInductive, OpenInductive
<1>3. Typed /\ OpenInv => MappedIsOpen
  BY DEF OpenInv
<1>4. QED
  BY <1>1, <1>2, <1>3, PTL DEF Spec

-----------------------------------------------------------------------------
(* Nothing connects the sample of its own accord.                          *)


(* Until somebody asks for the sample it is not connected, not stored, and *)
(* no request is about it; one that connects the sample is about it.       *)
AboutSample(x) ==
  x.st \notin {"idle", "looking"} /\ x.kind = "sample" => x.db = Sample

NotSample(x) == x.st # "idle" => x.db # Sample

SampleInv ==
  /\ \A r \in Request : AboutSample(req[r])
  /\ ~asked => /\ ~Connected(Sample)
               /\ ~Contains(stored, Sample)
               /\ \A r \in Request : NotSample(req[r])

LEMMA SampleStep ==
  ASSUME Typed, SampleInv, NEW r \in Request, NEW x, req' = [req EXCEPT ![r] = x],
         AboutSample(x),
         ~asked' => /\ ~asked /\ NotSample(x)
                    /\ ~Connected(Sample)' /\ ~Contains(stored', Sample)
  PROVE  SampleInv'
<1>1. \A q \in Request : req'[q] = IF q = r THEN x ELSE req[q]
  BY DEF Typed, TypeOK
<1>2. QED
  BY <1>1 DEF SampleInv

LEMMA IdleSample == AboutSample(Idle) /\ NotSample(Idle)
  BY DEF AboutSample, NotSample, Idle

(* A step that keeps what a request is about, and the map and what is      *)
(* stored but for that.                                                    *)
LEMMA SampleThread ==
  ASSUME Typed, SampleInv, NEW r \in Request, ThreadStep(r) PROVE SampleInv'
<1>1. req[r] \in RequestType /\ asked' = asked /\ stored' = stored
  BY DEF Typed, TypeOK, ThreadStep, Dial, DialFailed, Install, DisposeOld, Report
<1>2. AboutSample(req[r]) /\ (~asked => NotSample(req[r]) /\ ~Connected(Sample))
  BY DEF SampleInv
<1>3. CASE DialFailed(r)
  BY <1>1, <1>2, <1>3, IdleSample, SampleStep DEF DialFailed, SampleInv, dict, Connected
<1>4. CASE Dial(r)
  <2>1. PICK e : req' = [req EXCEPT ![r] = [st |-> "installing", kind |-> req[r].kind,
                           db |-> req[r].db, eng |-> e, old |-> eng[req[r].db]]]
    BY <1>4 DEF Dial
  <2> DEFINE x == [st |-> "installing", kind |-> req[r].kind,
                   db |-> req[r].db, eng |-> e, old |-> eng[req[r].db]]
  <2>2. /\ x.st = "installing" /\ x.kind = req[r].kind /\ x.db = req[r].db
        /\ req' = [req EXCEPT ![r] = x]
    BY <2>1
  <2>3. req[r].st = "dialing" /\ eng' = eng
    BY <1>4 DEF Dial, dict
  <2> HIDE DEF x
  <2>4. AboutSample(x) /\ (~asked => NotSample(x))
    BY <1>2, <2>2, <2>3 DEF AboutSample, NotSample
  <2>5. QED
    BY <1>1, <2>2, <2>3, <2>4, SampleStep DEF SampleInv, Connected
<1>5. CASE Install(r)
  <2>1. PICK st \in {"reporting", "disposing"} :
          req' = [req EXCEPT ![r] = [req[r] EXCEPT !.st = st]]
    BY <1>5 DEF Install
  <2> DEFINE x == [req[r] EXCEPT !.st = st]
  <2>2. /\ x.st = st /\ x.kind = req[r].kind /\ x.db = req[r].db
        /\ req' = [req EXCEPT ![r] = x]
    BY <1>5, <2>1, RequestFields DEF Typed, Install
  <2>3. req[r].st = "installing" /\ \A c \in Db : c # req[r].db => eng'[c] = eng[c]
    BY <1>5 DEF Install, Typed, TypeOK
  <2> HIDE DEF x
  <2>4. AboutSample(x) /\ (~asked => NotSample(x))
    BY <1>2, <2>1, <2>2, <2>3 DEF AboutSample, NotSample
  <2>5. ~asked => ~Connected(Sample)'
    BY <1>2, <2>3, ConnectionsAssumption DEF NotSample, Connected
  <2>6. QED
    BY <1>1, <2>2, <2>4, <2>5, SampleStep DEF SampleInv
<1>6. CASE DisposeOld(r)
  <2> DEFINE x == [req[r] EXCEPT !.st = "reporting", !.old = NoEngine]
  <2>1. /\ x.st = "reporting" /\ x.kind = req[r].kind /\ x.db = req[r].db
        /\ req' = [req EXCEPT ![r] = x]
    BY <1>6, RequestFields DEF Typed, DisposeOld
  <2>2. req[r].st = "disposing" /\ eng' = eng
    BY <1>6 DEF DisposeOld, dict
  <2> HIDE DEF x
  <2>3. AboutSample(x) /\ (~asked => NotSample(x))
    BY <1>2, <2>1, <2>2 DEF AboutSample, NotSample
  <2>4. QED
    BY <1>1, <2>1, <2>2, <2>3, SampleStep DEF SampleInv, Connected
<1>7. CASE Report(r)
  <2>1. /\ req[r].kind \in {"connect", "sample", "ensure"} /\ eng' = eng
        /\ req[r].st = "reporting"
    BY <1>7, RequestFields DEF Typed, Report, dict
  <2>2. PICK x : /\ req' = [req EXCEPT ![r] = x]
                 /\ \/ x = Idle
                    \/ x = [st |-> "saving", kind |-> "connect", db |-> req[r].db]
                    \/ /\ x = [st |-> "connected", kind |-> "sample", db |-> req[r].db]
                       /\ req[r].kind = "sample"
    BY <1>7, <2>1 DEF Report
  <2>3. AboutSample(x) /\ (~asked => NotSample(x))
    BY <1>2, <2>1, <2>2, IdleSample DEF AboutSample, NotSample
  <2>4. QED
    BY <1>1, <2>1, <2>2, <2>3, SampleStep DEF SampleInv, Connected
<1>8. QED
  BY <1>3, <1>4, <1>5, <1>6, <1>7 DEF ThreadStep

LEMMA SampleHandler ==
  ASSUME Typed, SampleInv, NEW r \in Request, HandlerStep(r) PROVE SampleInv'
<1>1. eng' = eng /\ StoredOK(stored)
  BY HandlerStepHandled, StoredIs DEF Handled, dict, Typed
<1>2. /\ AboutSample(req[r])
      /\ ~asked => NotSample(req[r]) /\ ~Connected(Sample)' /\ ~Contains(stored, Sample)
  BY <1>1 DEF SampleInv, Connected
<1>3. ASSUME NEW kind \in {"connect", "ensure"}, NEW d, Start(r, kind, d), stored' = stored,
             ~asked' => ~asked /\ d # Sample
      PROVE  SampleInv'
  <2> DEFINE x == [st |-> "dialing", kind |-> kind, db |-> d]
  <2>1. AboutSample(x) /\ (~asked' => NotSample(x))
    BY <1>3 DEF AboutSample, NotSample
  <2>2. req' = [req EXCEPT ![r] = x]
    BY <1>3 DEF Start
  <2> HIDE DEF x
  <2>3. QED
    BY <1>2, <1>3, <2>1, <2>2, SampleStep
<1>4. ASSUME req' = [req EXCEPT ![r] = Idle], asked' = asked,
             ~asked => ~Contains(stored', Sample)
      PROVE  SampleInv'
  BY <1>2, <1>4, IdleSample, SampleStep
<1>5. ASSUME NEW d \in Db, Connect(r, d) \/ Reconnect(r, d) PROVE SampleInv'
  BY <1>3, <1>5 DEF Connect, Reconnect
<1>6. CASE ConnectSample(r)
  <2> DEFINE x == [st |-> "dialing", kind |-> "sample", db |-> Sample]
  <2>1. AboutSample(x) /\ req' = [req EXCEPT ![r] = x] /\ asked'
    BY <1>6 DEF AboutSample, ConnectSample, Start
  <2> HIDE DEF x
  <2>2. QED
    BY <2>1, SampleStep
<1>7. ASSUME NEW d \in Db \cup {NoDb}, Ensure(r, d) PROVE SampleInv'
  <2> DEFINE x == [st |-> "looking", db |-> d]
  <2>1. AboutSample(x) /\ req' = [req EXCEPT ![r] = x] /\ stored' = stored
    BY <1>7 DEF AboutSample, Ensure
  <2>2. ~asked' => ~asked /\ NotSample(x)
    BY <1>7 DEF NotSample, Ensure
  <2> HIDE DEF x
  <2>3. QED
    BY <1>2, <2>1, <2>2, SampleStep
<1>8. CASE Lookup(r)
  <2>1. stored' = stored /\ asked' = asked /\ req[r].st = "looking"
    BY <1>8 DEF Lookup
  <2>2. stored # <<>> => Contains(stored, Last(stored))
    BY <1>1, SequenceWords DEF StoredOK
  <2>3. ~asked => req[r].db # Sample
    BY <1>2, <2>1 DEF NotSample
  <2>4. CASE stored # <<>> /\ Start(r, "ensure", Last(stored))
    BY <1>2, <1>3, <2>1, <2>2, <2>4
  <2>5. CASE Contains(stored, req[r].db) /\ Start(r, "ensure", req[r].db)
    BY <1>3, <2>1, <2>3, <2>5
  <2>6. CASE req[r].db = Sample /\ Start(r, "ensure", Sample)
    BY <1>3, <2>1, <2>3, <2>6
  <2>7. CASE req' = [req EXCEPT ![r] = Idle]
    BY <1>2, <1>4, <2>1, <2>7
  <2>8. QED
    BY <1>8, <2>4, <2>5, <2>6, <2>7 DEF Lookup
<1>9. CASE PickTarget(r)
  <2>1. /\ req[r].st = "connected" /\ req[r].kind = "sample"
        /\ asked' = asked /\ stored' = stored
    BY <1>9, RequestFields DEF PickTarget, Typed
  <2>2. asked
    BY <1>2, <2>1, StoredIs DEF AboutSample, NotSample, Typed
  <2>3. PICK x : /\ req' = [req EXCEPT ![r] = x]
                 /\ x = Idle \/ x = [st |-> "seeding", kind |-> "sample", db |-> Sample,
                                     target |-> Head(order)]
    BY <1>9 DEF PickTarget
  <2>4. AboutSample(x)
    BY <2>3, IdleSample DEF AboutSample
  <2>5. QED
    BY <2>1, <2>2, <2>3, <2>4, SampleStep
<1>10. CASE Seed(r)
  <2>1. req[r].st = "seeding" /\ req[r].kind = "sample" /\ asked' = asked
    BY <1>10, RequestFields DEF Seed, Typed
  <2>2. asked
    BY <1>2, <2>1 DEF AboutSample, NotSample
  <2> DEFINE x == [st |-> "saving", kind |-> "sample", db |-> Sample]
  <2>3. AboutSample(x) /\ req' = [req EXCEPT ![r] = x]
    BY <1>10 DEF AboutSample, Seed
  <2> HIDE DEF x
  <2>4. QED
    BY <2>1, <2>2, <2>3, SampleStep
<1>11. CASE Save(r)
  <2>1. req[r].st = "saving" /\ req[r].db \in Db /\ asked' = asked
    BY <1>11, RequestFields DEF Save, Typed
  <2>2. stored' \in {stored, Append(RemoveFirst(stored, req[r].db), req[r].db)}
    BY <1>11 DEF Save
  <2>3. ~asked => ~Contains(stored', Sample)
    <3>1. \A c : Contains(stored', c) => Contains(stored, c) \/ c = req[r].db
      BY <1>1, <2>1, <2>2, StoredMoves
    <3>2. QED
      BY <1>2, <2>1, <3>1 DEF NotSample
  <2>4. QED
    BY <1>4, <1>11, <2>1, <2>3 DEF Save
<1>12. QED
  BY <1>5, <1>6, <1>7, <1>8, <1>9, <1>10, <1>11 DEF HandlerStep

LEMMA SampleInductive ==
  ASSUME Typed, SampleInv, [Next]_vars PROVE SampleInv'
<1>1. CASE DisconnectStep
  <2>1. req' = req /\ asked' = asked /\ stored' = stored
    BY <1>1 DEF DisconnectStep, BeginDisconnect, Scan, DisposeEntry, DeleteEntry
  <2>2. \A d \in Db : eng'[d] \in {eng[d], NoEngine}
    BY <1>1 DEF DisconnectStep, BeginDisconnect, Scan, DisposeEntry, DeleteEntry, dict,
       Typed, TypeOK
  <2>3. ~Connected(Sample) => ~Connected(Sample)'
    BY <2>2, ConnectionsAssumption DEF Connected
  <2>4. QED
    BY <2>1, <2>3 DEF SampleInv
<1>2. ASSUME NEW d \in Db, Forget(d) PROVE SampleInv'
  <2>1. \A c : Contains(stored', c) => Contains(stored, c)
    BY <1>2, StoredIs, StoredMoves DEF Typed, Forget
  <2>2. eng' = eng /\ req' = req /\ asked' = asked
    BY <1>2 DEF Forget, dict
  <2>3. QED
    BY <2>1, <2>2 DEF SampleInv, Connected
<1>3. CASE Restart
  <2>1. /\ eng' = [d \in Db |-> NoEngine] /\ stored' = stored /\ asked' = asked
        /\ \A r \in Request : req'[r] = Idle
    BY <1>3 DEF Restart
  <2>2. QED
    BY <2>1, IdleSample, ConnectionsAssumption DEF SampleInv, Connected
<1>4. CASE UNCHANGED vars
  BY <1>4 DEF vars, dict, SampleInv, Connected
<1>5. QED
  BY <1>1, <1>2, <1>3, <1>4, SampleThread, SampleHandler DEF Next

(* The sample is connected, or stored to be, only if it was asked for:     *)
(* over restarts, lost entries and forgotten connections.                  *)
THEOREM SampleOnlyAsked == Spec => []NothingUnasked
<1>1. Init => Typed /\ SampleInv
  <2>1. ASSUME Init PROVE SampleInv
    <3>1. /\ eng = [d \in Db |-> NoEngine] /\ stored = <<>>
          /\ \A r \in Request : req[r] = Idle
      BY <2>1 DEF Init
    <3>2. QED
      BY <3>1, IdleSample, ConnectionsAssumption DEF SampleInv, Connected, Contains
  <2>2. QED
    BY <2>1, TypedInitially
<1>2. Typed /\ SampleInv /\ [Next]_vars => (Typed /\ SampleInv)'
  BY TypedInductive, SampleInductive
<1>3. Typed /\ SampleInv => NothingUnasked
  BY DEF SampleInv, NothingUnasked
<1>4. QED
  BY <1>1, <1>2, <1>3, PTL DEF Spec
=============================================================================
