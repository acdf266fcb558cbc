----------------------------- MODULE MCCallNews -----------------------------
(* CallNews on a small instance for TLC: calls do not touch each other, so  *)
(* one of them is enough.                                                  *)
EXTENDS CallNews
=============================================================================
