\* No two POSTs of one promotion in the receiver at once.
SPECIFICATION Spec
CONSTANTS
  b1 = b1
  s1 = s1
  Promotions = {p1, p2}
  SkillPromotions = {p1, p2}
  Sources = {s1}
  SourceOf <- MCSourceOf
  Tenants = {t1, t2}
  BaseNames = {b1}
  NameOf <- MCNameOf
  Requests = {r1, r2, r3}
  None = None
  Overlap = FALSE
  MAX_COLLISION_SUFFIX_ATTEMPTS = 1
  RETRY_ATTEMPTS = 2
  MaxStops = 1
  MaxOperator = 2
SYMMETRY ModelSymmetry
INVARIANTS
  TypeOK
  SerialInv
  OneSkillPerPromotion
  AnswersCanonical
  AcksAgree
PROPERTIES
  ImplementsLedger
CHECK_DEADLOCK FALSE
