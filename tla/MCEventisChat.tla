---------------------------- MODULE MCEventisChat ----------------------------
(* EventisChat on a small instance for TLC: an organizer, and two people who may *)
(* attend the event; each pair and all three.                                    *)
EXTENDS EventisChat, TLC

CONSTANTS p, a, b, e1

MCPoster == (e1 :> p)
MCBlocks == {<<a, p>>}
MCConversations == {{p, a}, {a, b}, {p, a, b}}
=============================================================================
