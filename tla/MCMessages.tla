----------------------------- MODULE MCMessages -----------------------------
(* Receipts and ChatSync, what one participant is shown of a conversation, on   *)
(* small instances for TLC.  They share no variable, so nothing is lost by      *)
(* following one at a time, while the other has not begun.                      *)
EXTENDS Receipts, ChatSync, TLC

MessagesInit == Init /\ SyncInit

MessagesNext ==
  \/ SyncInit /\ Next /\ UNCHANGED syncVars
  \/ Init /\ SyncNext /\ UNCHANGED vars

MessagesSpec == MessagesInit /\ [][MessagesNext]_<<vars, syncVars>>

\* Messages with receipts are interchangeable, and so are the requests on them.
Symmetry == Permutations(Messages) \cup Permutations(Requests)
=============================================================================
