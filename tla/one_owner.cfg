SPECIFICATION WorkspacesSpec
CONSTANTS
  User = {ann, bob, cid}
  Founder = ann
  Colleague = bob
  Staff <- OneAdmin
  Invited = {}
  Request = {r1, r2}
  Tunable = {"members.remove"}
  MaxStarted = 3
  NoPatch = NoPatch
INVARIANT OneOwner
SYMMETRY AnyRequest
CHECK_DEADLOCK FALSE
