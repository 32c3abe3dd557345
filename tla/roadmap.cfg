\* Two endpoint calls and a tool; one edit, one failed write or restart.
SPECIFICATION Spec
CONSTANTS
  Calls = {c1, c2, c3}
  EndpointCalls = {c1, c2}
  Titles <- MCTitles
  Contains <- MCContains
  Statuses = {"partial", "shipped"}
  Sections = {"build"}
  Texts <- MCTexts
  Requests <- MCRequests
  None = None
  MaxEdits = 1
  MaxFaults = 1
INVARIANTS
  RoadmapInv
  NoChangeLost
  EndpointsDoNotOverlap
  UpdateIsSurgical
PROPERTIES
  CallsEnd
CHECK_DEADLOCK FALSE
