------------------------------ MODULE CallNews ------------------------------
(***************************************************************************)
(* What the participants of a call hear of it: the handlers of Calls, with *)
(* the events they publish.                                                *)
(*                                                                         *)
(* createCall publishes the call once its row is committed, to the callee. *)
(* After its update transitionCall reads the row again, and publishes what *)
(* it then finds, to both; other transitions go on between the three.  An  *)
(* event is lost when the process stops, or the row cannot be read again.  *)
(* The participants are connected all along.                               *)
(***************************************************************************)
EXTENDS Calls

VARIABLES
  incoming,  \* calls whose chat:call:incoming is still to be published
  tail,      \* what is left of a transition after its update: the call, and the
             \* status that was read again
  heard,     \* the status in the last event a participant has had of a call
  told,      \* the statuses that chat:call:updated has published
  overtaken, \* calls updated while another event of theirs was owed, and
  lost       \* calls of which an event was lost;
             \* histories, read by properties only

news == <<incoming, tail, heard, told, overtaken, lost>>
newsVars == <<vars, news>>

Done == [call |-> None, status |-> None]

NewsInit ==
  /\ Init
  /\ incoming = {}
  /\ tail = [r \in Requests |-> Done]
  /\ heard = [c \in Calls |-> [p \in Parties |-> None]]
  /\ told = [c \in Calls |-> {}]
  /\ overtaken = {}
  /\ lost = {}

Owed(c) == c \in incoming \/ \E r \in Requests : tail[r].call = c

\* createCall, up to its publication.
Dial(c, p) ==
  /\ CreateCall(c, p)
  /\ incoming' = incoming \cup {c}
  /\ UNCHANGED <<tail, heard, told, overtaken, lost>>

Hear(c, P, s) ==
  heard' = [heard EXCEPT ![c] = [p \in Parties |-> IF p \in P THEN s ELSE @[p]]]

EmitIncoming_ToCaller(c) ==
  /\ c \in incoming
  /\ incoming' = incoming \ {c}
  /\ Hear(c, {caller[c]}, "RINGING")
  /\ UNCHANGED <<vars, tail, told, overtaken, lost>>

EmitIncoming(c) ==
  /\ c \in incoming
  /\ incoming' = incoming \ {c}
  /\ Hear(c, Parties \ {caller[c]}, "RINGING")
  /\ UNCHANGED <<vars, tail, told, overtaken, lost>>

Ask(r, p, c, to) ==
  /\ tail[r] = Done
  /\ ReadCall(r, p, c, to)
  /\ UNCHANGED news

AskMissed(r, p, c) ==
  status[c] = "RINGING" /\ Rung(c) /\ Ask(r, p, c, "MISSED")

Check(r) == CheckCall(r) /\ UNCHANGED news

\* Whether the update of r will find its row: whoever lost a race stops here.
Finds(r) == status[req[r].call] = req[r].seen

Transition_TellsWhatItSaw(r) ==
  /\ UpdateCall(r)
  /\ IF Finds(r)
       THEN /\ tail' = [tail EXCEPT
                 ![r] = [call |-> req[r].call, status |-> req[r].seen]]
            /\ overtaken' = overtaken \cup {c \in {req[r].call} : Owed(c)}
       ELSE UNCHANGED <<tail, overtaken>>
  /\ UNCHANGED <<incoming, heard, told, lost>>

Transition(r) ==
  /\ UpdateCall(r)
  /\ IF Finds(r)
       THEN /\ tail' = [tail EXCEPT ![r].call = req[r].call]
            /\ overtaken' = overtaken \cup {c \in {req[r].call} : Owed(c)}
       ELSE UNCHANGED <<tail, overtaken>>
  /\ UNCHANGED <<incoming, heard, told, lost>>

ReadAgain(r) ==
  /\ tail[r].call # None /\ tail[r].status = None
  /\ tail' = [tail EXCEPT ![r].status = status[tail[r].call]]
  /\ UNCHANGED <<vars, incoming, heard, told, overtaken, lost>>

EmitUpdated(r) ==
  LET c == tail[r].call  s == tail[r].status IN
  /\ s # None
  /\ Hear(c, Parties, s)
  /\ told' = [told EXCEPT ![c] = @ \cup {s}]
  /\ tail' = [tail EXCEPT ![r] = Done]
  /\ UNCHANGED <<vars, incoming, overtaken, lost>>

\* The process stops: the requests in flight end, and their events are lost.
Crash ==
  /\ req' = [r \in Requests |-> Idle]
  /\ tail' = [r \in Requests |-> Done]
  /\ incoming' = {}
  /\ lost' = lost \cup {c \in Calls : Owed(c)}
  /\ UNCHANGED <<clock, row, heard, told, overtaken>>

\* The row cannot be read again: the request fails, though the call has moved.
ReadAgainFails(r) ==
  /\ tail[r].call # None /\ tail[r].status = None
  /\ tail' = [tail EXCEPT ![r] = Done]
  /\ lost' = lost \cup {tail[r].call}
  /\ UNCHANGED <<vars, incoming, heard, told, overtaken>>

NewsNext ==
  \/ \E c \in Calls :
       \/ EmitIncoming(c)
       \/ \E p \in Parties :
            Dial(c, p) \/ \E r \in Requests, to \in Targets : Ask(r, p, c, to)
  \/ \E r \in Requests :
       \/ Check(r) \/ Transition(r) \/ ReadAgain(r) \/ EmitUpdated(r)
       \/ ReadAgainFails(r) \/ (RequestDies(r) /\ UNCHANGED news)
  \/ Crash
  \/ Tick /\ UNCHANGED news

\* Time passes, handlers go on and are not for ever stopped at the same point, and
\* the callee's client asks for MISSED until it is answered: nobody else can, and
\* no job does.
Fairness ==
  /\ WF_newsVars(Tick /\ UNCHANGED news)
  /\ \A r \in Requests :
       /\ WF_newsVars(Check(r) \/ Transition(r) \/ ReadAgain(r) \/ EmitUpdated(r))
       /\ SF_newsVars(req[r].to = "MISSED" /\ Check(r))
       /\ SF_newsVars(req[r].to = "MISSED" /\ Transition(r))
  /\ \A c \in Calls :
       SF_newsVars(\E r \in Requests, p \in Parties : AskMissed(r, p, c))

NewsSpec == NewsInit /\ [][NewsNext]_newsVars /\ Fairness

-----------------------------------------------------------------------------
(* Properties.                                                             *)

NewsTypeOK ==
  /\ TypeOK
  /\ incoming \subseteq Calls
  /\ tail \in [Requests -> [call : Calls \cup {None},
                            status : CallStatus \cup {None}]]
  /\ \A r \in Requests :
       /\ tail[r].status # None => tail[r].call # None
       /\ tail[r] # Done => req[r] = Idle
  /\ heard \in [Calls -> [Parties -> CallStatus \cup {None}]]
  /\ told \in [Calls -> SUBSET CallStatus]
  /\ overtaken \cup lost \subseteq Calls

Over == {"REJECTED", "MISSED", "ENDED", "CANCELLED"}

\* Once its events are out, everybody has been told that a call is over: however
\* transitions race, the last of them reads the row after its update
\* (chat.service.ts:764-786, chat.repository.ts:482-484).
EndIsTold ==
  \A c \in Calls :
    status[c] \in Over /\ ~ Owed(c) /\ c \notin lost => status[c] \in told[c]

\* The last event a participant has had of a call tells its status, unless the call
\* moved on while an event was owed: events carry nothing to order them by, and an
\* overtaken one leaves a call ringing, or open, at somebody's
\* (chat.service.ts:724-731, 774-786).
LastWordIsTrue ==
  \A c \in Calls, p \in Parties :
    ~ Owed(c) /\ c \notin lost \cup overtaken =>
      heard[c][p] = IF status[c] = "RINGING" /\ p = caller[c] THEN None ELSE status[c]

\* A call that has rung for the whole ring period stops ringing, whatever requests
\* it loses races to and however often the process stops, as long as the callee's
\* client asks for it (chat.service.ts:741-752, chat.repository.ts:465-481).
RingingEnds ==
  \A c \in Calls :
    status[c] = "RINGING" /\ Rung(c) ~> status[c] # "RINGING"
=============================================================================
