---------------------------- MODULE MCSummaryRead ----------------------------
(***************************************************************************)
(* Small instances of SummaryRead for TLC.                                 *)
(***************************************************************************)
EXTENDS SummaryRead

NoFaults == {}
CrashAndOutage == {"crash", "outage"}
==============================================================================
