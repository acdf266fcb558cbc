------------------------- MODULE MCRefreshSessions -------------------------
(* RefreshSessions on a small instance for TLC. *)
EXTENDS RefreshSessions, TLC

\* Users, tokens and requests are interchangeable.
Symmetry ==
  Permutations(Users) \cup Permutations(Tokens) \cup Permutations(Requests)
=============================================================================
