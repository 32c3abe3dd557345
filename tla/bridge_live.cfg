\* No coroutine stops half-way; three POSTs, and a name without suffixes.
SPECIFICATION FairSpec
CONSTANTS
  b1 = b1
  s1 = s1
  Promotions = {p1}
  SkillPromotions = {p1}
  Sources = {s1}
  SourceOf <- MCSourceOf
  Tenants = {t1, t2}
  BaseNames = {b1}
  NameOf <- MCNameOf
  Requests = {r1, r2, r3}
  None = None
  Overlap = TRUE
  MAX_COLLISION_SUFFIX_ATTEMPTS = 0
  RETRY_ATTEMPTS = 1
  MaxStops = 0
  MaxOperator = 3
PROPERTIES
  QueuedGetsPublished
CHECK_DEADLOCK FALSE
