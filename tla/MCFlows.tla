------------------------------ MODULE MCFlows ------------------------------
(* TLC instances of Flows. *)
EXTENDS Flows, TLC

\* Requests, names, jobs and ids are told apart by identity only.
Symmetry ==
  Permutations(Requests) \cup Permutations(Names)
    \cup Permutations(Jobs) \cup Permutations(Ids)
=============================================================================
