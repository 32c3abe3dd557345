\* Two tenants, an agent that one of them owns or will create, two threads.
SPECIFICATION Spec
CONSTANTS
  Tenants = {t1, t2}
  Agents = {a1}
  Default = Default
  Threads = {th1, th2}
  Requests = {r1, r2, r3}
  None = None
  MaxWrites = 2
  MaxRestarts = 1
SYMMETRY RuntimeSymmetry
INVARIANTS
  RuntimeInv
  AgentServesOwnTenant
  ThreadsStayInTenant
  KeyFromThisWorker
CHECK_DEADLOCK FALSE
