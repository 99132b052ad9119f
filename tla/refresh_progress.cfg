SPECIFICATION FairSpec
CONSTANTS
  Threads = {t1, t2}
  Tasks = {k1, k2}
  Messages = {m1}
  NoTask = NoTask
  LOCK_TTL = 2
  INFLIGHT_TTL = 2
  Faults <- AllButOutage
PROPERTIES PollHangsOnlyIfLost KeysSelfClear SkipJustified
