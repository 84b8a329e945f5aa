---------------------------- MODULE MCDeliveries ----------------------------
(* A broadcast to two customers and a message to one.                       *)
EXTENDS Deliveries, TLC

Home == 1 :> 1 @@ 2 :> 1 @@ 3 :> 2
World(workers, rows, does) == [workers |-> workers, rows |-> rows, does |-> does]
Chosen ==
    { World({1}, {1, 2, 3}, {"prune"}),
      World({1}, {1, 3}, {"crash", "unclear"}),
      World({1}, {1, 2}, {"cancel", "prune"}),
      World({1}, {1}, {"crash", "cancel"}),
      World({1}, {1}, {"token", "crash", "blocked"}),
      World({1}, {1}, {"legacy", "cancel"}),
      World({1, 2}, {1}, {"unclear"}),
      World({1, 2}, {1, 2}, {}) }

=============================================================================
