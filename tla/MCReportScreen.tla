---------------------------- MODULE MCReportScreen ----------------------------
(***************************************************************************)
(* A firm's admin and a superuser share a browser.                         *)
(***************************************************************************)
EXTENDS ReportScreen, TLC

CONSTANTS ann, sue
RoleOfUsers == ann :> "admin" @@ sue :> "superuser"
==============================================================================
