--------------------------- MODULE MCFindLoveChat ---------------------------
(* FindLoveChat on a small instance for TLC. *)
EXTENDS FindLoveChat, TLC

\* Requests are interchangeable, and so are the two people until one of them has
\* asked the other.
Symmetry == Permutations(Requests) \cup Permutations(Parties)
=============================================================================
