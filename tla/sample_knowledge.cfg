SPECIFICATION Spec
CONSTANTS
  Db = {shop, webshop}
  Sample = webshop
  NoDb = NoDb
  Engine = {g1, g2, g3}
  NoEngine = NoEngine
  Request = {r1, r2}
INVARIANT SampleKnowledgeAtHome
SYMMETRY Interchangeable
