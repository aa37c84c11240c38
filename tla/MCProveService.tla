--------------------------- MODULE MCProveService ---------------------------
(* Instances of ProveService for TLC.                                      *)
EXTENDS ProveService, TLC

\* Every class of request.
EveryRequest == AllRequests
\* The connections are interchangeable (used where no liveness is checked).
Symmetry == Permutations(Conns)
=============================================================================
