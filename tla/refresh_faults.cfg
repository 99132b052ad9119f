SPECIFICATION Spec
CONSTANTS
  Threads = {t1}
  Tasks = {k1, k2, k3}
  Messages = {m1, m2}
  NoTask = NoTask
  LOCK_TTL = 1
  INFLIGHT_TTL = 1
  Faults <- CrashesAndOutages
SYMMETRY Symmetric
INVARIANTS OneRefreshPerThread OwnRefreshIsCurrent IInv
PROPERTIES NoRegression ImplementsSerialRefresh
