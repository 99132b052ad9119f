--------------------------- MODULE MCSummaryRefresh ---------------------------
(***************************************************************************)
(* Small instances of SummaryRefresh for TLC.                              *)
(***************************************************************************)
EXTENDS SummaryRefresh, TLC

NoFaults == {}
CrashesAndOutages == {"crash", "outage"}
AllButOutage == {"crash", "publish", "loss"}

\* Task ids and messages are interchangeable; liveness runs do not use this.
Symmetric == Permutations(Tasks) \cup Permutations(Messages)
==============================================================================
