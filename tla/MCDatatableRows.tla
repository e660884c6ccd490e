-------------------------- MODULE MCDatatableRows --------------------------
(* TLC instances of DatatableRows. *)
EXTENDS DatatableRows, TLC

\* Requests, datatables and bodies are told apart by identity only; keys are
\* ordered.
Symmetry == Permutations(Requests) \cup Permutations(Tables) \cup Permutations(Bodies)
=============================================================================
