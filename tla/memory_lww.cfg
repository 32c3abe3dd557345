\* The same instance without faults.
SPECIFICATION Spec
CONSTANTS
  Machines = {m1}
  Sessions = {s1, s2}
  None = None
  MaxTime = 3
  MaxStarts = 1
  Words = {"a", "b"}
  MaxLines = 1
  MaxFaults = 0
INVARIANTS
  LastWriteWins
CHECK_DEADLOCK FALSE
