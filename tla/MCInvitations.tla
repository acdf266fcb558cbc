--------------------------- MODULE MCInvitations ---------------------------
(* Invitations on a small instance for TLC. *)
EXTENDS Invitations, TLC

\* Inviters, links and requests are interchangeable.
Symmetry ==
  Permutations(Inviters) \cup Permutations(Links) \cup Permutations(Requests)
=============================================================================
