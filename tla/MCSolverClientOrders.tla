----------------------- MODULE MCSolverClientOrders -----------------------
(* Small instances of SolverClientOrders for TLC. *)
EXTENDS SolverClientOrders, TLC

Symmetry == Permutations(Clients) \cup Permutations(OrderIds) \cup Permutations(Arcs)
===========================================================================
