SPECIFICATION Spec
CONSTANTS
  Plain = {p}
  Streamed = {s}
  Typed = {t}
  Member = {ann, bob}
  Reader = ann
  Conversation = {c}
  NoConversation = NoConversation
  MaxAttempts = 3
  Tables = 4
  Schemas <- ManySchemas
  Signals <- SomeSignals
  MaxTables = 2
  ExtraSlots = 1
  ShortlistMin = 3
  Rounds = 2
  Command = {k1, k2}
  Team = {t1, t2}
  HomeTeam = t1
  Workspace = {w1, w2}
  NoWorkspace = NoWorkspace
  Install = {i1, i2}
  SecondInstall = i2
  Fixed = w2
  Slots = 1
  Asked = {q1, q2}
  First = q1
  Alike <- AllAlike
  SampleQuestions = {q2}
  Posts = {1, 2, 3}
  NoPost = 0
  Tenant = {own, foreign}
  Own = own
  Foreign = foreign
  Dashboard = {d1, d2}
  OwnDashboard = d1
  DashboardOf <- HomeOfDashboard
  Query = {v1, v2}
  OwnQuery = v1
  NoQuery = NoQuery
  QueryOf <- HomeOfQuery
  Panel = {n1, n2}
  Edit = {e1}
  Time = {1, 2, 3, 4, 5}
  PageSize = 2
  MaxRows = 4
INVARIANTS
  TypesKept NoCallForNobody AnswerOfItsSql TurnsOfTheirOwner LinkedTogether
  NobodyLeftWaiting
  SeededOnce OneAuthorUnlessOverlapping
  PanelsPointHome ExportComplete
PROPERTIES EveryQuestionEnds InstallationsHeld EveryCommandEnds
CHECK_DEADLOCK FALSE
