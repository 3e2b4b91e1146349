-------------------------------- MODULE MCAsking --------------------------------
(***************************************************************************)
(* Five parts that share no state, each explored by itself in one run:     *)
(* questions asked in the application, the tables they are linked to,      *)
(* questions asked in Slack, what is known of a database, and dashboards   *)
(* with the activity log.                                                  *)
(***************************************************************************)
EXTENDS Asking, Linking, SlackBot, Knowledge, Records

CONSTANTS
  SecondInstall,             \* one of two installations in progress
  HomeTeam,                  \* the team that asks
  Fixed,                     \* a workspace that keeps its connections
  Reader,                    \* one of the members
  First,                     \* one of the questions that may be verified
  OwnDashboard, OwnQuery, Own, Foreign

VARIABLE side

HomeOfDashboard == [d \in Dashboard |-> IF d = OwnDashboard THEN Own ELSE Foreign]
HomeOfQuery == [q \in Query |-> IF q = OwnQuery THEN Own ELSE Foreign]
AllAlike == {Asked}

\* Any two foreign keys, a chain, a ring and two bridges.
ManySchemas ==
  LET of(pairs) == [t \in Table |-> {p[2] : p \in {x \in pairs : x[1] = t}}]
      Key == {k \in Table \X Table : k[1] # k[2]}
  IN  {of({k, l}) : k \in Key, l \in Key}
        \cup {of(x) : x \in {{}, {<<1, 1>>}, {<<1, 2>>, <<2, 3>>, <<3, 4>>},
                             {<<1, 2>>, <<2, 3>>, <<3, 4>>, <<4, 1>>},
                             {<<4, 1>>, <<4, 2>>, <<4, 3>>},
                             {<<4, 1>>, <<4, 2>>, <<1, 3>>}}}
\* Nothing matches; two tables alike; one wide; one used by the query before.
SomeSignals ==
  {[name |-> [t \in Table |-> IF t \in s[1] THEN 1 ELSE 0],
    keys |-> [t \in Table |-> 0],
    columns |-> [t \in Table |-> IF t = 3 THEN s[2] ELSE 0],
    values |-> [t \in Table |-> 0],
    verified |-> {}, context |-> s[3], catalog |-> {},
    rows |-> [t \in Table |-> t]] :
     s \in {<<{}, 0, {}>>, <<{1, 2}, 0, {}>>, <<{1, 2}, 9, {4}>>}}

\* One question is asked: those of other kinds take no part.
OneQuestion == Cardinality({q \in Question : turn'[q].st # "unasked"}) <= 1

\* The team that asks may be installed anew, by one request at a time.
OneInstall == \A i \in Install :
  saving'[i].on => i # SecondInstall /\ saving'[i].team = HomeTeam

\* Requests are told apart only by what they do, so they come in an order.
Rank(p) ==
  CASE p.kind = "verify" -> 0 [] p.kind = "onboard" -> 2 [] p.kind = "catalog" -> 4
    [] p.kind = "starters" -> 6 [] p.kind = "sample" -> 8
Mixed ==
  /\ \A r, s \in Posts : r < s =>
       Rank(post[r]) + (IF post[r].about = First THEN 0 ELSE 1)
         <= Rank(post[s]) + (IF post[s].about = First THEN 0 ELSE 1)
  /\ \A r \in Posts : Rank(post[r]) > 2 => post[r].about = First

OneSchema == CHOOSE s \in Schemas : TRUE
OneSignal == CHOOSE s \in Signals : TRUE

Init ==
  /\ side \in {"asking", "linking", "slack", "installs", "knowledge", "records", "log"}
  /\ AskingInit
  /\ \A q \in Question, r \in Question : turn[q] = turn[r]
  /\ side # "asking" => \A q \in Question, c \in Conversation :
       /\ turn[q].within = NoConversation
       /\ turn[q].by = Reader /\ talk[c].owner = Reader
  /\ LinkingInit
  /\ side # "linking" => refers = OneSchema /\ signal = OneSignal
  /\ SlackInit
  /\ \A k \in Command : command[k].team = HomeTeam
  /\ KnowledgeInit
  /\ IF side = "knowledge" THEN Mixed
     ELSE \A r \in Posts : post[r] = Unsent("verify", First)
  /\ RecordsInit
  /\ side # "log" => log = {}

Asks == side = "asking" /\ AskingNext /\ OneQuestion
          /\ UNCHANGED <<side, linkingVars, slackVars, knowledgeVars, recordVars>>
Links == side = "linking" /\ LinkingNext
          /\ UNCHANGED <<side, askingVars, slackVars, knowledgeVars, recordVars>>
AsksInSlack == side = "slack" /\ SlackNext /\ OneInstall /\ Fixed \in connected'
          /\ UNCHANGED <<side, askingVars, linkingVars, knowledgeVars, recordVars>>
Installs == side = "installs" /\ SlackNext
          /\ UNCHANGED <<side, command, askingVars, linkingVars, knowledgeVars, recordVars>>
Learns == side = "knowledge" /\ KnowledgeNext
          /\ UNCHANGED <<side, askingVars, linkingVars, slackVars, recordVars>>
Draws == side = "records" /\ PanelsNext
          /\ UNCHANGED <<side, askingVars, linkingVars, slackVars, knowledgeVars>>
Exports == side = "log" /\ LogNext
          /\ UNCHANGED <<side, askingVars, linkingVars, slackVars, knowledgeVars>>

Next == Asks \/ Links \/ AsksInSlack \/ Installs \/ Learns \/ Draws \/ Exports

vars == <<side, askingVars, linkingVars, slackVars, knowledgeVars, recordVars>>

\* AskingFairness and SlackFairness, each where its part is explored.
Fairness ==
  /\ \A q \in Question :
       /\ WF_askingVars(side = "asking" /\ Serve(q))
       /\ WF_askingVars(side = "asking" /\ GetLate(q))
  /\ \A q \in Plain : WF_askingVars(side = "asking" /\ ModelReplies(q))
  /\ \A k \in Command :
       /\ WF_slackVars(side = "slack" /\ TimeOutQuery(k))
       /\ WF_slackVars(side = "slack" /\ PostResponse(k))

\* Every part's variables keep their types.
TypesKept ==
  AskingTypes /\ LinkingTypes /\ SlackTypes /\ KnowledgeTypes /\ RecordTypes

Spec ==
  Init /\ [][Next]_vars /\ Fairness
=============================================================================
