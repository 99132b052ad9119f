SPECIFICATION FairSpec
CONSTANTS
  Threads = {t1, t2}
  NoThread = NoThread
  Loads = {l1, l2}
  Refreshes = {r1, r2}
  PollCap = 1
INVARIANTS TypeOK OnePoll PanelBelongsToThread
PROPERTIES ButtonsComeBack
