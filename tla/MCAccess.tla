------------------------------ MODULE MCAccess ------------------------------
(* Access on a small instance for TLC: an administrator and another user.  *)
EXTENDS Access
=============================================================================
