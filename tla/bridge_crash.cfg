\* One coroutine may stop half-way, the retry comes after it.
SPECIFICATION FairSpec
CONSTANTS
  b1 = b1
  s1 = s1
  Promotions = {p1}
  SkillPromotions = {p1}
  Sources = {s1}
  SourceOf <- MCSourceOf
  Tenants = {t1}
  BaseNames = {b1}
  NameOf <- MCNameOf
  Requests = {r1, r2}
  None = None
  Overlap = FALSE
  MAX_COLLISION_SUFFIX_ATTEMPTS = 3
  RETRY_ATTEMPTS = 1
  MaxStops = 1
  MaxOperator = 0
PROPERTIES
  RetriesRecover
CHECK_DEADLOCK FALSE
