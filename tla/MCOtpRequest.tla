---------------------------- MODULE MCOtpRequest ----------------------------
(* OtpRequest on a small instance for TLC. *)
EXTENDS OtpRequest, TLC

\* Requests are interchangeable, and so are the details of two sign-ups.
Symmetry == Permutations(CodeRequests) \cup Permutations(Details)
=============================================================================
