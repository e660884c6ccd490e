----------------------------- MODULE MCSideMaps -----------------------------
(* TLC instances of SideMaps. *)
EXTENDS SideMaps, TLC

\* Each single id and two different ids in either order.
MCBatches == {b \in UNION {[1..n -> Items] : n \in 1..2} : Len(b) = 2 => b[1] # b[2]}

\* All ids are told apart by identity only.
Symmetry == Permutations(Requests) \cup Permutations(Items)
=============================================================================
