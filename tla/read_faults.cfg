SPECIFICATION FairSpec
CONSTANTS
  Readers = {r1, r2}
  Writers = {w1, w2}
  SentAt = {1, 2}
  SUMMARY_TTL = 2
  Faults <- CrashAndOutage
INVARIANTS TypeOK NoFalseAlarm
PROPERTIES StaleEntriesExpire OnlyOutdatedFillsGoStale
