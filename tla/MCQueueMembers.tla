--------------------------- MODULE MCQueueMembers ---------------------------
(* TLC instances of QueueMembers. *)
EXTENDS QueueMembers

\* A body without members, with one, with two in either order (one of them
\* without a ring number), and with one user listed twice.
MCBodies ==
  {<<>>} \cup {<<[user |-> u, ring |-> 2]>> : u \in Users}
  \cup {<<[user |-> u, ring |-> 2], [user |-> v, ring |-> None]>> :
         u \in Users, v \in Users}
=============================================================================
