\* Two overlapping POSTs of one promotion.
SPECIFICATION Spec
CONSTANTS
  b1 = b1
  s1 = s1
  Promotions = {p1}
  SkillPromotions = {p1}
  Sources = {s1}
  SourceOf <- MCSourceOf
  Tenants = {t1, t2}
  BaseNames = {b1}
  NameOf <- MCNameOf
  Requests = {r1, r2}
  None = None
  Overlap = TRUE
  MAX_COLLISION_SUFFIX_ATTEMPTS = 1
  RETRY_ATTEMPTS = 2
  MaxStops = 1
  MaxOperator = 2
SYMMETRY ModelSymmetry
INVARIANTS
  OneSkillPerPromotion
CHECK_DEADLOCK FALSE
