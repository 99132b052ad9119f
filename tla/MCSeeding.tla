------------------------------- MODULE MCSeeding -------------------------------
(***************************************************************************)
(* Command lines that grow, shrink and repeat; clients that several runs   *)
(* add to a firm that is there; a name that repeats; another Faker, with   *)
(* other names or the same in another order; no clients.                   *)
(***************************************************************************)
EXTENDS Seeding

Run(names, firms, clients, threads) ==
  [names |-> names,
   size |-> [firms |-> firms, clients_per_firm |-> clients, threads_per_firm |-> threads]]
AB(firms, clients, threads) == Run(<<"A", "B">>, firms, clients, threads)
AAB(firms, clients, threads) == Run(<<"A", "A", "B">>, firms, clients, threads)

SomeScenarios ==
  {<<AB(1, 1, 1), AB(2, 1, 2), AB(1, 2, 1)>>,
   <<AB(1, 0, 0), AB(1, 1, 0), AB(1, 1, 1), AB(1, 1, 1)>>,
   <<AB(0, 0, 0), AB(2, 1, 0), AB(2, 1, 0)>>,
   <<AAB(2, 1, 1), AAB(3, 1, 1)>>,
   <<AB(1, 1, 1), Run(<<"C">>, 1, 1, 2), AB(1, 1, 1)>>,
   <<AB(0, 0, 0), AB(2, 1, 0), Run(<<"B", "A">>, 2, 1, 0)>>,
   <<AB(1, 1, 1), AB(1, 0, 1)>>}
==============================================================================
