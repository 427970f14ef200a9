--------------------------- MODULE MCJobScheduler ---------------------------
(* JobScheduler on small sets: the run-now threads are interchangeable.    *)
EXTENDS JobScheduler, TLC

Symmetry == Permutations(Requests)

=============================================================================
