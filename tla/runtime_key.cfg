\* A key is replaced or deleted between two chats with one agent.
SPECIFICATION Spec
CONSTANTS
  Tenants = {t1, t2}
  Agents = {a1}
  Default = Default
  Threads = {th1, th2}
  Requests = {r1, r2, r3}
  None = None
  MaxWrites = 2
  MaxRestarts = 1
SYMMETRY RuntimeSymmetry
INVARIANTS
  KeyReadWhenNeeded
CHECK_DEADLOCK FALSE
