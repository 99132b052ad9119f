------------------------------- MODULE MCReports -------------------------------
(***************************************************************************)
(* A firm of two clients, one with two threads, and a firm of one.         *)
(***************************************************************************)
EXTENDS Reports

CONSTANTS f1, f2, c1, c2, c3, t1, t2, t3, t4, t5

FirmOf == c1 :> f1 @@ c2 :> f1 @@ c3 :> f2
ClientOf == t1 :> c1 @@ t2 :> c1 @@ t3 :> c2 @@ t4 :> c3 @@ t5 :> c3
LengthOf == t1 :> 2 @@ t2 :> 2 @@ t3 :> 1 @@ t4 :> 3 @@ t5 :> 0

Account(role, is_superuser, firm_id) ==
  [role |-> role, is_superuser |-> is_superuser, firm_id |-> firm_id]
AccountsOfEachKind ==
  {Account("member", FALSE, f1), Account("admin", FALSE, f1), Account("admin", FALSE, NoFirm),
   Account("superuser", TRUE, NoFirm), Account("member", TRUE, f1)}

ThreadsOfAClient == Permutations({t1, t2})
==============================================================================
