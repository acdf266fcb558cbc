--------------------------- MODULE CallLifecycle ---------------------------
(***************************************************************************)
(* What the chat module promises of a call: it rings once, is answered,    *)
(* declined, cancelled or, after the whole ring period, missed, and ends   *)
(* once, after it was answered.                                            *)
(***************************************************************************)
CONSTANTS
  Calls, \* rows of calls
  None   \* no row

VARIABLES
  state, \* the state of each call
  due    \* calls that have rung for the whole of the ring period

vars == <<state, due>>

Init == state = [c \in Calls |-> None] /\ due = {}

\* Step of a call from one state to another.
Move(c, from, to) ==
  /\ state[c] = from
  /\ state' = [state EXCEPT ![c] = to]
  /\ UNCHANGED due

Ring(c) == Move(c, None, "RINGING")
PickUp(c) == Move(c, "RINGING", "ACCEPTED")
Decline(c) == Move(c, "RINGING", "REJECTED")
Cancel(c) == Move(c, "RINGING", "CANCELLED")
HangUp(c) == Move(c, "ACCEPTED", "ENDED")
Miss(c) == c \in due /\ Move(c, "RINGING", "MISSED")

RingPeriodsPass ==
  /\ due' \in SUBSET {c \in Calls : state[c] # None}
  /\ due \subseteq due'
  /\ UNCHANGED state

Next ==
  \/ \E c \in Calls :
       Ring(c) \/ PickUp(c) \/ Decline(c) \/ Cancel(c) \/ HangUp(c) \/ Miss(c)
  \/ RingPeriodsPass

Spec == Init /\ [][Next]_vars
=============================================================================
