---------------------------- MODULE MCLifecycle ----------------------------
(* TLC instances of Lifecycle. *)
EXTENDS Lifecycle, TLC

\* Rows, tokens and requests are told apart by identity only.
Symmetry == Permutations(Requests) \cup Permutations(Ids) \cup Permutations(Tokens)

\* Once two Restores have overlapped, no property reads owed, exposed or cleared
\* any more, and they never decide what another variable does next: states that
\* differ in nothing else are one.
View ==
  <<files, handle, late, tokens, req, used, faults, crashed, revoked, raced,
    IF raced THEN {} ELSE <<owed, exposed, cleared>>>>
=============================================================================
