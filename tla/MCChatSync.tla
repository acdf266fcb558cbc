----------------------------- MODULE MCChatSync -----------------------------
(* ChatSync on a small instance for TLC: a device, a text, an attachment, and   *)
(* pages of one message.                                                        *)
EXTENDS ChatSync
=============================================================================
