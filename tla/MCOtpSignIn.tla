---------------------------- MODULE MCOtpSignIn ----------------------------
(* OtpSignIn on a small instance for TLC. *)
EXTENDS OtpSignIn, TLC

\* Requests are interchangeable; not used where liveness is checked.
Symmetry == Permutations(Requests)
=============================================================================
