SPECIFICATION Spec
CONSTANTS
  Threads = {t1}
  Tasks = {k1, k2, k3}
  Messages = {m1}
  NoTask = NoTask
  LOCK_TTL = 40
  INFLIGHT_TTL = 40
  Faults <- NoFaults
INVARIANTS FanIn
