------------------------------- MODULE Knowledge -------------------------------
(***************************************************************************)
(* What a workspace knows of one database: verified questions, a glossary  *)
(* and a semantic catalog (pgdatabase/knowledge.py, controllers/onboard.py,*)
(* controllers/catalog.py, and feedback and verify of controllers/query.py)*)
(*                                                                         *)
(* Glossary and catalog are replaced whole: a transaction deletes the rows *)
(* its statement sees and inserts its own.  No constraint covers them, and *)
(* under READ COMMITTED two replacements that overlap do not see each      *)
(* other's rows.  A verified question is unique only by its exact text.    *)
(*                                                                         *)
(* The rows a request wrote stand for what it wrote.                       *)
(***************************************************************************)
EXTENDS Naturals, FiniteSets

CONSTANTS
  Asked,           \* questions that may be verified
  Alike,           \* pairs of them with a _similarity above DUPLICATE_THRESHOLD
  SampleQuestions, \* those seed_sample brings
  Posts, NoPost     \* requests served in all (a bound); NoPost: nobody

ASSUME KnowledgeAssumption ==
  /\ NoPost \notin Posts
  /\ SampleQuestions \subseteq Asked /\ SampleQuestions # {}

VARIABLES
  verified,  \* verified_qas: the request that stored each question
  terms,     \* glossary_terms: the requests whose rows are there
  catalog,   \* the catalog's tables: likewise
  post,      \* each request and how far it is
  met        \* history: pairs of transactions that overlapped

knowledgeVars == <<verified, terms, catalog, post, met>>

Kind == {"verify", "onboard", "catalog", "starters", "sample"}
Writing == {"defining", "adding", "finding", "describing", "seeding"}
Posted == [st : {"unsent", "teaching", "looking", "over"} \cup Writing,
           kind : Kind,
           about : Asked,
           old : SUBSET Posts]   \* the rows its DELETE has seen

Unsent(kind, q) == [st |-> "unsent", kind |-> kind, about |-> q, old |-> {}]

KnowledgeInit ==
  /\ verified = [q \in Asked |-> NoPost]
  /\ terms = {}
  /\ catalog = {}
  /\ post \in [Posts -> {Unsent(k, q) : k \in Kind, q \in Asked}]
  /\ met = {}

-----------------------------------------------------------------------------
Similar(p, q) == p = q \/ {p, q} \in Alike

Moves(r, st, old) == post' = [post EXCEPT ![r].st = st, ![r].old = old]

\* r begins what others must not cut into while they are at theirs.
Meets(r) ==
  LET others == {s \in Posts \ {r} : post[s].st \in Writing}
  IN  met' = met \cup {{r, s} : s \in others}

Known == {q \in Asked : verified[q] # NoPost}

\* onboard.save: the glossary, if the request has one; then its starters; then
\* a catalog, unless there is one.
OnboardGlossary(r) ==
  /\ post[r].kind = "onboard" /\ post[r].st = "unsent"
  /\ \/ Moves(r, "defining", terms) /\ Meets(r)
     \/ Moves(r, "teaching", {}) /\ UNCHANGED met
  /\ UNCHANGED <<verified, terms, catalog>>

\* set_glossary, its commit; what it was given may be empty.
SetGlossary(r) ==
  /\ post[r].st = "defining"
  /\ \E rows \in SUBSET {r} : terms' = (terms \ post[r].old) \cup rows
  /\ Moves(r, "teaching", {})
  /\ UNCHANGED <<verified, catalog, met>>

AfterQuestion(r) == IF post[r].kind = "onboard" THEN "looking" ELSE "over"

\* Requests that verify a question: feedback that an answer is correct, and
\* verify itself.
Verifies(r) == post[r].kind = "verify" /\ post[r].st = "unsent"

\* Variant: only the same words are the same question.
ReadVerifiedExactly(r) ==
  /\ Verifies(r) \/ post[r].st = "teaching"
  /\ IF post[r].about \in Known
       THEN Moves(r, AfterQuestion(r), {}) /\ UNCHANGED met
       ELSE Moves(r, "adding", {}) /\ Meets(r)
  /\ UNCHANGED <<verified, terms, catalog>>

\* add_verified reads what is stored and stops at a question like this one.
ReadVerified(r) ==
  /\ Verifies(r) \/ post[r].st = "teaching"
  /\ IF \E q \in Known : Similar(q, post[r].about)
       THEN Moves(r, AfterQuestion(r), {}) /\ UNCHANGED met
       ELSE Moves(r, "adding", {}) /\ Meets(r)
  /\ UNCHANGED <<verified, terms, catalog>>

\* ... and commits, unless the constraint finds the same question.
AddVerified(r) ==
  /\ post[r].st = "adding"
  /\ verified' = [verified EXCEPT ![post[r].about] = IF @ = NoPost THEN r ELSE @]
  /\ Moves(r, AfterQuestion(r), {})
  /\ UNCHANGED <<terms, catalog, met>>

\* catalog_is_empty is read in a session of its own ...
LookAtCatalog(r) ==
  /\ post[r].st = "looking"
  /\ Moves(r, IF catalog = {} THEN "finding" ELSE "over", {})
  /\ IF catalog = {} THEN Meets(r) ELSE UNCHANGED met
  /\ UNCHANGED <<verified, terms, catalog>>

\* ... before set_catalog deletes what is there by then.
DescribeSchema(r) ==
  /\ post[r].st = "finding"
  /\ Moves(r, "describing", catalog)
  /\ UNCHANGED <<verified, terms, catalog, met>>

SaveCatalog(r) ==
  /\ post[r].kind = "catalog" /\ post[r].st = "unsent"
  /\ Moves(r, "describing", catalog)
  /\ Meets(r)
  /\ UNCHANGED <<verified, terms, catalog>>

\* set_catalog, its commit.
SetCatalog(r) ==
  /\ post[r].st = "describing"
  /\ \E rows \in SUBSET {r} : catalog' = (catalog \ post[r].old) \cup rows
  /\ Moves(r, "over", {})
  /\ UNCHANGED <<verified, terms, met>>

\* generate_starters_async: questions that ran, stored ON CONFLICT DO NOTHING.
StoreStarters(r) ==
  /\ post[r].kind = "starters" /\ post[r].st = "unsent"
  /\ \E qs \in SUBSET Asked :
       verified' = [q \in Asked |->
         IF q \in qs /\ verified[q] = NoPost THEN r ELSE verified[q]]
  /\ Moves(r, "over", {})
  /\ UNCHANGED <<terms, catalog, met>>

\* seed_sample counts the verified questions and deletes the glossary ...
BeginSeed(r) ==
  /\ post[r].kind = "sample" /\ post[r].st = "unsent"
  /\ IF Known # {}
       THEN Moves(r, "over", {}) /\ UNCHANGED met
       ELSE Moves(r, "seeding", terms) /\ Meets(r)
  /\ UNCHANGED <<verified, terms, catalog>>

\* Variant: questions that are there are skipped, and the rest goes in.
SeedSampleAnyway(r) ==
  /\ post[r].st = "seeding"
  /\ verified' = [q \in Asked |->
       IF q \in SampleQuestions \ Known THEN r ELSE verified[q]]
  /\ terms' = (terms \ post[r].old) \cup {r}
  /\ Moves(r, "over", {})
  /\ UNCHANGED <<catalog, met>>

\* ... and inserts questions and glossary in the same transaction, which a
\* question stored in the meantime rolls back.
SeedSample(r) ==
  /\ post[r].st = "seeding"
  /\ IF SampleQuestions \cap Known = {}
       THEN /\ verified' = [q \in Asked |->
                 IF q \in SampleQuestions THEN r ELSE verified[q]]
            /\ terms' = (terms \ post[r].old) \cup {r}
       ELSE UNCHANGED <<verified, terms>>
  /\ Moves(r, "over", {})
  /\ UNCHANGED <<catalog, met>>

\* Any of the transactions may fail: the request ends where it is.
FailPost(r) ==
  /\ post[r].st \in Writing
  /\ Moves(r, "over", {})
  /\ UNCHANGED <<verified, terms, catalog, met>>

KnowledgeNext ==
  \E r \in Posts :
    \/ OnboardGlossary(r) \/ SetGlossary(r) \/ ReadVerified(r) \/ AddVerified(r)
    \/ LookAtCatalog(r) \/ DescribeSchema(r) \/ SaveCatalog(r) \/ SetCatalog(r)
    \/ StoreStarters(r) \/ BeginSeed(r) \/ SeedSample(r) \/ FailPost(r)

KnowledgeSpec == KnowledgeInit /\ [][KnowledgeNext]_knowledgeVars

\* trust_level, by the questions verified.
Trust == LET n == Cardinality(Known) IN
  IF n >= 7 THEN "Trusted" ELSE IF n >= 3 THEN "Assisted" ELSE "Supervised"

-----------------------------------------------------------------------------
(* What should hold.                                                       *)

\* Every variable keeps its type.
KnowledgeTypes ==
  /\ verified \in [Asked -> Posts \cup {NoPost}]
  /\ terms \subseteq Posts
  /\ catalog \subseteq Posts
  /\ post \in [Posts -> Posted]
  /\ met \subseteq SUBSET Posts

\* The sample's glossary is never there twice, however many connect it at a
\* time: nothing but the constraint on its questions keeps the second out.
SeededOnce ==
  \A r, s \in terms :
    post[r].kind = "sample" /\ post[s].kind = "sample" => r = s

\* Whatever the tables hold came from one request after the other, but for
\* transactions that overlapped: a glossary or a catalog has the rows of one
\* save, and no question is verified beside one like it, unless it came with
\* the sample or the generated starters, which are not compared.  Onboarding
\* deletes no catalog but one that was being saved while it went from looking
\* for one to writing its own.
OneAuthorUnlessOverlapping ==
  /\ \A r, s \in terms : r # s => {r, s} \in met
  /\ \A r, s \in catalog : r # s => {r, s} \in met
  /\ \A r \in Posts : post[r].kind = "onboard" /\ post[r].st = "describing" =>
       \A s \in post[r].old : {r, s} \in met
  /\ \A p, q \in Known :
       (p # q /\ Similar(p, q)) =>
         \/ {verified[p], verified[q]} \in met
         \/ {post[verified[p]].kind, post[verified[q]].kind}
              \cap {"starters", "sample"} # {}
=============================================================================
