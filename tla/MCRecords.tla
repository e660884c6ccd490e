----------------------------- MODULE MCRecords -----------------------------
(* TLC instances of Records; the .cfg of a run picks Kind. *)
EXTENDS Records, TLC

\* Nothing tells requests, ids or keys apart but their identity.
Symmetry == Permutations(Requests) \cup Permutations(Ids) \cup Permutations(Keys)
=============================================================================
