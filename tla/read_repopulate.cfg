SPECIFICATION Spec
CONSTANTS
  Readers = {r1}
  Writers = {w1}
  SentAt = {1, 2}
  SUMMARY_TTL = 2
  Faults <- NoFaults
INVARIANTS Coherent
