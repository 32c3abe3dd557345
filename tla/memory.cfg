\* One machine with its shim, two sessions, three edits or requests.
SPECIFICATION Spec
CONSTANTS
  Machines = {m1}
  Sessions = {s1, s2}
  None = None
  MaxTime = 3
  MaxStarts = 2
  Words = {"a", "b"}
  MaxLines = 6
  MaxFaults = 1
INVARIANTS
  MemoryInv
  OneRowUnlessOverlap
  RecordKept
  TextSurvives
PROPERTIES
  ImplementsStore
  FileAndStoreAgree
CHECK_DEADLOCK FALSE
