SPECIFICATION Spec
CONSTANTS
  UserId = {u1, u2}
  First = u1
  Address = {a1, a2}
  Password = {p1, p2}
  NoPassword = NoPassword
  Identity = {g1, g2}
  NoIdentity = NoIdentity
  Link = {l1}
  Session = {s1, s2}
  MaxAttempts = 2
  MaxVersion = 2
  MaxServed = 4
  User = {ann, bob, cid}
  Founder = ann
  Colleague = bob
  Staff <- OneAdmin
  Invited = {cid}
  Request = {r1, r2}
  Tunable = {"members.remove"}
  MaxStarted = 3
  NoPatch = NoPatch
INVARIANTS
  TypesKept SessionsEndWithPassword CodeSpentOnce LinkSpentOnce
  OneOwnerUnlessLostUpdate DeletedLeavesNothing OverridesKept
PROPERTIES GoogleOpensItsOwn RevokedAdmitsNobody KeepsRoster
SYMMETRY Interchangeable
CHECK_DEADLOCK FALSE
