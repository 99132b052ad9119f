----------------------------- MODULE MCLogContext -----------------------------
(***************************************************************************)
(* A user of a firm and one without, as a superuser may be, and clients    *)
(* that send no baggage or some that names a user and a firm.              *)
(***************************************************************************)
EXTENDS LogContext, TLC

CONSTANTS ann, bob, firm1, firm2

FirmOfUsers == ann :> firm1 @@ bob :> None
SomeHeaders == {Empty, [id |-> None, user |-> ann, firm |-> firm2]}
Symmetric == Permutations(WebThreads) \cup Permutations(Workers)
               \cup Permutations(Tasks) \cup Permutations(Ids)
==============================================================================
