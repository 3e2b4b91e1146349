----------------------------- MODULE Connections -----------------------------
(***************************************************************************)
(* The live database connections of one workspace (DatabaseManager,        *)
(* database.py), the connections stored for it (pgdatabase/connections.py) *)
(* and the handlers over both (controllers/database.py).                   *)
(*                                                                         *)
(* Handlers are coroutines of one event loop: each runs alone up to its    *)
(* next await.  connect() runs on a worker thread and interleaves with     *)
(* anything, with the middle of a disconnect() too.  One process; the      *)
(* dictionary is keyed by workspace and every access filters by it.        *)
(***************************************************************************)
EXTENDS Naturals, SequencesExt

CONSTANTS
  Db,        \* databases, by db_id
  Sample,    \* the sample database
  NoDb,      \* no database named
  Engine,    \* engines that may exist at a time (a bound)
  NoEngine,
  Request    \* requests that may be in progress at a time (a bound)

ASSUME ConnectionsAssumption ==
  /\ Sample \in Db
  /\ NoDb \notin Db
  /\ NoEngine \notin Engine

VARIABLES
  eng,        \* _connections: the engine of each database, or NoEngine
  order,      \* the keys of _connections in the order they were inserted
  open,       \* engines that may hold connections: made and not disposed
  stored,     \* recent_connections, the latest one last
  seeded,     \* databases whose glossary and answers are the sample's
  req,        \* requests in progress
  loop,       \* what the event loop is in the middle of
  displaced,  \* history: engines a race took out of the map still open
  asked       \* history: somebody asked for the sample

dict == <<eng, order>>
vars == <<dict, open, stored, seeded, req, loop, displaced, asked>>

Idle == [st |-> "idle"]
Free == [st |-> "free"]

RequestType == {Idle}
  \cup [st : {"looking"}, db : Db \cup {NoDb}]
  \cup [st : {"dialing"}, kind : {"connect", "sample", "ensure"}, db : Db]
  \cup [st : {"installing", "disposing", "reporting"},
        kind : {"connect", "sample", "ensure"}, db : Db,
        eng : Engine, old : Engine \cup {NoEngine}]
  \cup [st : {"connected"}, kind : {"sample"}, db : Db]
  \cup [st : {"saving"}, kind : {"connect", "sample"}, db : Db]
  \cup [st : {"seeding"}, kind : {"sample"}, db : Db, target : Db]

LoopType == {Free}
  \cup [st : {"scanning"}, want : Db \cup {NoDb}, size : Nat]
  \cup [st : {"disposing", "deleting"}, todo : SUBSET Db, key : Db, eng : Engine]

Connected(d) == eng[d] # NoEngine

\* The engine a request has made and not put in the map yet.
InHand(r) == IF req[r].st = "installing" THEN {req[r].eng} ELSE {}

\* Engines a request or a disconnect still refers to: a new one is none of them.
Referenced ==
  (UNION {IF req[r].st \in {"installing", "disposing", "reporting"}
            THEN {req[r].eng, req[r].old} ELSE {} : r \in Request})
  \cup (IF loop.st \in {"disposing", "deleting"} THEN {loop.eng} ELSE {})

Mapped == {eng[d] : d \in Db} \ {NoEngine}

-----------------------------------------------------------------------------
(* connect(), on a worker thread.                                          *)

Start(r, kind, d) ==
  req' = [req EXCEPT ![r] = [st |-> "dialing", kind |-> kind, db |-> d]]

\* Variant: the entry's engine is disposed before the new one is in its place.
DialDisposing(r) == \E e \in Engine \ (open \cup Mapped \cup Referenced) :
  /\ req[r].st = "dialing"
  /\ open' = (open \cup {e}) \ {eng[req[r].db]}
  /\ req' = [req EXCEPT ![r] = [st |-> "installing", kind |-> req[r].kind,
       db |-> req[r].db, eng |-> e, old |-> eng[req[r].db]]]
  /\ displaced' = displaced \ {e}
  /\ UNCHANGED <<dict, stored, seeded, loop, asked>>

\* The engine is made and its database answers; then the entry it will
\* replace is read.
Dial(r) == \E e \in Engine \ (open \cup Mapped \cup Referenced) :
  /\ req[r].st = "dialing"
  /\ open' = open \cup {e}
  /\ req' = [req EXCEPT ![r] = [st |-> "installing", kind |-> req[r].kind,
       db |-> req[r].db, eng |-> e, old |-> eng[req[r].db]]]
  /\ displaced' = displaced \ {e}
  /\ UNCHANGED <<dict, stored, seeded, loop, asked>>

\* It cannot be reached, its driver is missing or its URL is not valid: any
\* engine made is disposed and the request ends with the error.
DialFailed(r) ==
  /\ req[r].st = "dialing"
  /\ req' = [req EXCEPT ![r] = Idle]
  /\ UNCHANGED <<dict, open, stored, seeded, loop, displaced, asked>>

\* self._connections[(workspace_id, db_id)] = ...: a key that is there keeps
\* its place.
Install(r) ==
  LET d == req[r].db
  IN  /\ req[r].st = "installing"
      /\ eng' = [eng EXCEPT ![d] = req[r].eng]
      /\ order' = IF Connected(d) THEN order ELSE Append(order, d)
      /\ displaced' = IF eng[d] \in {NoEngine, req[r].old} \/ eng[d] \notin open
                        THEN displaced ELSE displaced \cup {eng[d]}
      /\ req' = [req EXCEPT ![r].st =
                   IF req[r].old = NoEngine THEN "reporting" ELSE "disposing"]
      /\ UNCHANGED <<open, stored, seeded, loop, asked>>

\* Variant: the engine that was replaced is not disposed.
KeepOld(r) ==
  /\ req[r].st = "disposing"
  /\ req' = [req EXCEPT ![r].st = "reporting", ![r].old = NoEngine]
  /\ UNCHANGED <<dict, open, stored, seeded, loop, displaced, asked>>

DisposeOld(r) ==
  /\ req[r].st = "disposing"
  /\ open' = open \ {req[r].old}
  /\ req' = [req EXCEPT ![r].st = "reporting", ![r].old = NoEngine]
  /\ UNCHANGED <<dict, stored, seeded, loop, displaced, asked>>

\* The answer is read back from the map.  If a disconnect has taken the entry
\* away, the KeyError disposes the new engine and the request fails.
Report(r) ==
  LET d == req[r].db
      kind == req[r].kind
  IN  /\ req[r].st = "reporting"
      /\ IF Connected(d)
           THEN /\ req' = [req EXCEPT ![r] =
                     IF kind = "ensure" THEN Idle
                     ELSE [st |-> IF kind = "connect" THEN "saving" ELSE "connected",
                           kind |-> kind, db |-> d]]
                /\ UNCHANGED open
           ELSE /\ req' = [req EXCEPT ![r] = Idle]
                /\ open' = open \ {req[r].eng}
      /\ UNCHANGED <<dict, stored, seeded, loop, displaced, asked>>

-----------------------------------------------------------------------------
(* disconnect(), on the event loop: it lists the keys, then closes each.   *)

BeginDisconnect(want) ==
  /\ loop = Free
  /\ loop' = [st |-> "scanning", want |-> want, size |-> Len(order)]
  /\ UNCHANGED <<dict, open, stored, seeded, req, displaced, asked>>

\* Another key to close, its engine looked up, or the end.
Closing(todo) ==
  IF todo = {} THEN loop' = Free
  ELSE \E d \in todo :
    loop' = [st |-> "disposing", todo |-> todo \ {d}, key |-> d, eng |-> eng[d]]

\* The walk over the keys is over.  A key inserted meanwhile raises a
\* RuntimeError, and nothing is closed.
Scan ==
  /\ loop.st = "scanning"
  /\ IF Len(order) # loop.size THEN loop' = Free
     ELSE Closing({d \in Db : Connected(d) /\ loop.want \in {NoDb, d}})
  /\ UNCHANGED <<dict, open, stored, seeded, req, displaced, asked>>

DisposeEntry ==
  /\ loop.st = "disposing"
  /\ open' = open \ {loop.eng}
  /\ loop' = [loop EXCEPT !.st = "deleting"]
  /\ UNCHANGED <<dict, stored, seeded, req, displaced, asked>>

\* del self._connections[k], whatever engine is there by now.
DeleteEntry ==
  /\ loop.st = "deleting"
  /\ eng' = [eng EXCEPT ![loop.key] = NoEngine]
  /\ order' = RemoveFirst(order, loop.key)
  /\ displaced' = IF eng[loop.key] \in open THEN displaced \cup {eng[loop.key]}
                                            ELSE displaced
  /\ Closing(loop.todo)
  /\ UNCHANGED <<open, stored, seeded, req, asked>>

-----------------------------------------------------------------------------
(* The handlers, on the event loop: each of these steps runs from one      *)
(* await to the next.                                                      *)

\* /api/connect, with the URL of a database.
Connect(r, d) ==
  /\ loop = Free /\ req[r] = Idle
  /\ Start(r, "connect", d)
  /\ asked' = (asked \/ d = Sample)
  /\ UNCHANGED <<dict, open, stored, seeded, loop, displaced>>

\* /api/reconnect: the stored connection is read, then connected to as above.
Reconnect(r, d) ==
  /\ loop = Free /\ req[r] = Idle
  /\ Contains(stored, d)
  /\ Start(r, "connect", d)
  /\ asked' = (asked \/ d = Sample)
  /\ UNCHANGED <<dict, open, stored, seeded, loop, displaced>>

\* /api/connect-sample.
ConnectSample(r) ==
  /\ loop = Free /\ req[r] = Idle
  /\ Start(r, "sample", Sample)
  /\ asked' = TRUE
  /\ UNCHANGED <<dict, open, stored, seeded, loop, displaced>>

\* ensure_connection for a question, a schema or a scheduled run, about the
\* database named or about the workspace's own, when it is not connected.
Ensure(r, d) ==
  /\ loop = Free /\ req[r] = Idle
  /\ IF d = NoDb THEN order = <<>> ELSE ~Connected(d)
  /\ req' = [req EXCEPT ![r] = [st |-> "looking", db |-> d]]
  /\ asked' = (asked \/ d = Sample)
  /\ UNCHANGED <<dict, open, stored, seeded, loop, displaced>>

\* Variant: with nothing stored, the sample will do.
LookupOrSample(r) ==
  /\ loop = Free /\ req[r].st = "looking"
  /\ \/ req[r].db # NoDb /\ Start(r, "ensure", req[r].db)
     \/ req[r].db = NoDb /\ Start(r, "ensure", IF stored = <<>> THEN Sample ELSE Last(stored))
  /\ UNCHANGED <<dict, open, stored, seeded, loop, displaced, asked>>

\* The stored connection is read: of that database, or the latest.  Without
\* one there is no database to speak of, unless it is the sample, which needs
\* none; a URL that cannot be decrypted any more is as good as none.
Lookup(r) ==
  LET d == req[r].db
  IN  /\ loop = Free /\ req[r].st = "looking"
      /\ \/ d = NoDb /\ stored # <<>> /\ Start(r, "ensure", Last(stored))
         \/ Contains(stored, d) /\ Start(r, "ensure", d)
         \/ d = Sample /\ Start(r, "ensure", Sample)
         \/ d # Sample /\ req' = [req EXCEPT ![r] = Idle]
      /\ UNCHANGED <<dict, open, stored, seeded, loop, displaced, asked>>

\* connect_sample asks the manager which database the workspace is connected
\* to: the first one in the map.  There may be none by now, which is a 409.
PickTarget(r) ==
  /\ loop = Free
  /\ req[r].st = "connected"
  /\ req' = [req EXCEPT ![r] =
       IF order = <<>> THEN Idle
       ELSE [st |-> "seeding", kind |-> "sample", db |-> Sample, target |-> Head(order)]]
  /\ UNCHANGED <<dict, open, stored, seeded, loop, displaced, asked>>

\* seed_sample, in one transaction: a database with verified answers is left
\* as it is, any other has its glossary replaced by the sample's.
Seed(r) ==
  /\ req[r].st = "seeding"
  /\ \/ UNCHANGED seeded
     \/ seeded' = seeded \cup {req[r].target}
  /\ req' = [req EXCEPT ![r] = [st |-> "saving", kind |-> "sample", db |-> Sample]]
  /\ UNCHANGED <<dict, open, stored, loop, displaced, asked>>

\* Variant: a row is added although there is one for that database.
SaveAgain(r) ==
  /\ req[r].st = "saving"
  /\ \/ stored' = Append(stored, req[r].db)
     \/ UNCHANGED stored
  /\ req' = [req EXCEPT ![r] = Idle]
  /\ UNCHANGED <<dict, open, seeded, loop, displaced, asked>>

\* save_recent_connection: inserted, or its connected_at brought up to date.
\* An error is reported beside the answer.
Save(r) ==
  LET d == req[r].db
  IN  /\ req[r].st = "saving"
      /\ \/ stored' = Append(RemoveFirst(stored, d), d)
         \/ UNCHANGED stored
      /\ req' = [req EXCEPT ![r] = Idle]
      /\ UNCHANGED <<dict, open, seeded, loop, displaced, asked>>

\* DELETE /api/connections: the stored connection only.
Forget(d) ==
  /\ loop = Free
  /\ Contains(stored, d)
  /\ stored' = RemoveFirst(stored, d)
  /\ UNCHANGED <<dict, open, seeded, req, loop, displaced, asked>>

\* The process ends and starts anew: nothing in memory is left.
Restart ==
  /\ eng' = [d \in Db |-> NoEngine] /\ order' = <<>>
  /\ open' = {} /\ displaced' = {}
  /\ req' = [r \in Request |-> Idle]
  /\ loop' = Free
  /\ UNCHANGED <<stored, seeded, asked>>

-----------------------------------------------------------------------------

Init ==
  /\ eng = [d \in Db |-> NoEngine] /\ order = <<>>
  /\ open = {} /\ displaced = {}
  /\ stored = <<>>
  /\ seeded = {}
  /\ req = [r \in Request |-> Idle]
  /\ loop = Free
  /\ asked = FALSE

ThreadStep(r) ==
  Dial(r) \/ DialFailed(r) \/ Install(r) \/ DisposeOld(r) \/ Report(r)

HandlerStep(r) ==
  \/ \E d \in Db : Connect(r, d) \/ Reconnect(r, d)
  \/ ConnectSample(r)
  \/ \E d \in Db \cup {NoDb} : Ensure(r, d)
  \/ Lookup(r) \/ PickTarget(r) \/ Seed(r) \/ Save(r)

DisconnectStep ==
  \/ \E want \in Db \cup {NoDb} : BeginDisconnect(want)
  \/ Scan \/ DisposeEntry \/ DeleteEntry

Next ==
  \/ \E r \in Request : ThreadStep(r) \/ HandlerStep(r)
  \/ DisconnectStep
  \/ \E d \in Db : Forget(d)
  \/ Restart

Spec == Init /\ [][Next]_vars

-----------------------------------------------------------------------------

TypeOK ==
  /\ eng \in [Db -> Engine \cup {NoEngine}]
  /\ order \in Seq(Db) /\ IsInjective(order)
  /\ ToSet(order) = {d \in Db : Connected(d)}
  /\ open \subseteq Engine /\ displaced \subseteq Engine
  /\ stored \in Seq(Db) /\ IsInjective(stored)
  /\ seeded \subseteq Db
  /\ req \in [Request -> RequestType]
  /\ loop \in LoopType
  /\ asked \in BOOLEAN

\* d's entry is one a disconnect has disposed and is about to delete.
Leaving(d) == loop.st = "deleting" /\ loop.key = d

\* A query finds an engine that nobody has disposed, whatever connects and
\* disconnects of the same database race with one another: connect() puts the
\* new engine in place before it disposes the old one, which by then no entry
\* refers to.  The one exception is the entry a disconnect is deleting.
MappedIsOpen ==
  \A d \in Db : Connected(d) => eng[d] \in open \/ Leaving(d)

\* No engine is left open out of reach: it is in the map, or a request is about
\* to put it there or to dispose it, or two changes of one entry raced and the
\* later one took it out unseen.
EnginesAccounted ==
  \A e \in open :
    \/ e \in Mapped
    \/ e \in displaced
    \/ \E r \in Request : e \in InHand(r)
    \/ \E r \in Request : req[r].st = "disposing" /\ e = req[r].old
    \/ loop.st = "disposing" /\ e = loop.eng

\* "Nothing silently auto-connects the sample" (ensure_connection): the sample
\* is connected, or stored to be, only if somebody asked for it at some time.
NothingUnasked ==
  Connected(Sample) \/ Contains(stored, Sample) => asked

\* seed_sample's "Seed sample knowledge for a new sample-database connection":
\* the sample's glossary and answers stay with the sample.
SampleKnowledgeAtHome ==
  seeded \subseteq {Sample}
=============================================================================
