------------------------------- MODULE Calls -------------------------------
(***************************************************************************)
(* Calls in a direct conversation: the handlers that create a call and     *)
(* move it between its states, against each other and against the clock.   *)
(*                                                                         *)
(* transitionCall reads the row, decides on it after another await, and    *)
(* updates it where the status is still the one it read.  What it reads    *)
(* again after that and publishes is in CallNews; the policy's permission  *)
(* to call, which is that of a message, in EventisChat and FindLoveChat.   *)
(* Stamps of the database and of the process are taken from one clock.     *)
(***************************************************************************)
EXTENDS Naturals

CONSTANTS
  Calls,                \* rows of calls
  Parties,              \* the participants of the conversation
  Requests,             \* requests in flight at the same time
  CALL_RING_TIMEOUT_MS, \* in ticks
  MaxTime,              \* bound: the clock stops here
  None                  \* SQL NULL

ASSUME ConstantsAssumption ==
  /\ CALL_RING_TIMEOUT_MS \in Nat \ {0} /\ MaxTime \in Nat
  /\ None \notin Calls \cup Parties \cup Nat
  /\ None \notin {"INITIATED", "RINGING", "ACCEPTED", "REJECTED", "MISSED",
                  "ENDED", "CANCELLED"}

VARIABLES
  clock,      \* the time
  caller,     \* calls.caller_id
  status,     \* calls.status, None while the row does not exist
  startedAt,  \* calls.started_at
  answeredAt, \* calls.answered_at
  endedAt,    \* calls.ended_at
  req         \* what a handler remembers across its awaits

row == <<caller, status, startedAt, answeredAt, endedAt>>
vars == <<clock, row, req>>

Targets == {"ACCEPTED", "REJECTED", "MISSED", "ENDED", "CANCELLED"}
CallStatus == {"INITIATED", "RINGING"} \cup Targets

\* CALL_TRANSITIONS
CanTransition_NeverMissed(from, to) ==
  CASE from = "INITIATED" -> to \in {"RINGING", "CANCELLED", "MISSED"}
    [] from = "RINGING" -> to \in {"ACCEPTED", "REJECTED", "CANCELLED"}
    [] from = "ACCEPTED" -> to = "ENDED"
    [] OTHER -> FALSE

CanTransition(from, to) ==
  CASE from = "INITIATED" -> to \in {"RINGING", "CANCELLED", "MISSED"}
    [] from = "RINGING" -> to \in {"ACCEPTED", "REJECTED", "MISSED", "CANCELLED"}
    [] from = "ACCEPTED" -> to = "ENDED"
    [] OTHER -> FALSE

\* The transition asked for, the status of the row that was read, and the time
\* at which the request was found legal.
Idle == [call |-> None, to |-> None, seen |-> None, at |-> None]

Init ==
  /\ clock = 0
  /\ caller = [c \in Calls |-> None]
  /\ status = [c \in Calls |-> None]
  /\ startedAt = [c \in Calls |-> None]
  /\ answeredAt = [c \in Calls |-> None]
  /\ endedAt = [c \in Calls |-> None]
  /\ req = [r \in Requests |-> Idle]

CreateCall(c, p) ==
  /\ status[c] = None
  /\ caller' = [caller EXCEPT ![c] = p]
  /\ status' = [status EXCEPT ![c] = "RINGING"]
  /\ startedAt' = [startedAt EXCEPT ![c] = clock]
  /\ UNCHANGED <<clock, answeredAt, endedAt, req>>

\* Only the callee accepts, rejects or marks as missed, both may end, and only
\* the caller cancels.
MayRequest(p, c, to) ==
  CASE to \in {"ACCEPTED", "REJECTED", "MISSED"} -> p # caller[c]
    [] to = "ENDED" -> TRUE
    [] OTHER -> p = caller[c]

Rung(c) == clock >= startedAt[c] + CALL_RING_TIMEOUT_MS

\* findCallById.
ReadCall(r, p, c, to) ==
  /\ req[r] = Idle
  /\ status[c] # None
  /\ MayRequest(p, c, to)
  /\ req' = [req EXCEPT
       ![r] = [call |-> c, to |-> to, seen |-> status[c], at |-> None]]
  /\ UNCHANGED <<clock, row>>

Answer(r) == req' = [req EXCEPT ![r] = Idle]

CheckCall_AtOnce(r) ==
  /\ req[r] # Idle /\ req[r].at = None
  /\ IF CanTransition(req[r].seen, req[r].to)
       THEN req' = [req EXCEPT ![r].at = clock]
       ELSE Answer(r)
  /\ UNCHANGED <<clock, row>>

\* After requireConversation: the ring period and the transition are tested, and
\* the stamp is taken, on the row that was read.
CheckCall(r) ==
  /\ req[r] # Idle /\ req[r].at = None
  /\ IF /\ req[r].to = "MISSED" => Rung(req[r].call)
        /\ CanTransition(req[r].seen, req[r].to)
       THEN req' = [req EXCEPT ![r].at = clock]
       ELSE Answer(r)
  /\ UNCHANGED <<clock, row>>

Stamps(c, to, at) ==
  /\ answeredAt' = IF to = "ACCEPTED" THEN [answeredAt EXCEPT ![c] = at]
                                      ELSE answeredAt
  /\ endedAt' = IF to = "ACCEPTED" THEN endedAt ELSE [endedAt EXCEPT ![c] = at]

UpdateCall_ById(r) ==
  LET c == req[r].call  to == req[r].to IN
  /\ req[r].at # None
  /\ status' = [status EXCEPT ![c] = to]
  /\ Stamps(c, to, req[r].at)
  /\ Answer(r)
  /\ UNCHANGED <<clock, caller, startedAt>>

\* updateMany where the status is the one seen.
UpdateCall(r) ==
  LET c == req[r].call  to == req[r].to IN
  /\ req[r].at # None
  /\ IF status[c] = req[r].seen
       THEN status' = [status EXCEPT ![c] = to] /\ Stamps(c, to, req[r].at)
       ELSE UNCHANGED <<status, answeredAt, endedAt>>
  /\ Answer(r)
  /\ UNCHANGED <<clock, caller, startedAt>>

RequestDies(r) ==
  /\ req[r] # Idle
  /\ Answer(r)
  /\ UNCHANGED <<clock, row>>

Tick ==
  /\ clock < MaxTime
  /\ clock' = clock + 1
  /\ UNCHANGED <<row, req>>

Next ==
  \/ \E c \in Calls, p \in Parties :
       \/ CreateCall(c, p)
       \/ \E r \in Requests, to \in Targets : ReadCall(r, p, c, to)
  \/ \E r \in Requests : CheckCall(r) \/ UpdateCall(r) \/ RequestDies(r)
  \/ Tick

Spec == Init /\ [][Next]_vars

-----------------------------------------------------------------------------
(* Properties.                                                             *)

TypeOK ==
  /\ clock \in Nat
  /\ caller \in [Calls -> Parties \cup {None}]
  /\ status \in [Calls -> CallStatus \cup {None}]
  /\ startedAt \in [Calls -> Nat \cup {None}]
  /\ answeredAt \in [Calls -> Nat \cup {None}]
  /\ endedAt \in [Calls -> Nat \cup {None}]
  /\ req \in [Requests -> [call : Calls \cup {None}, to : Targets \cup {None},
                           seen : CallStatus \cup {None}, at : Nat \cup {None}]]
  /\ \A c \in Calls :
       /\ status[c] = None <=> startedAt[c] = None
       /\ status[c] = None <=> caller[c] = None
  /\ \A r \in Requests :
       /\ req[r] # Idle => /\ req[r].call # None /\ status[req[r].call] # None
                           /\ req[r].to # None
       /\ req[r].at # None => CanTransition(req[r].seen, req[r].to)

\* The stamps of a call tell the truth about its state whatever requests raced: it
\* has an answer exactly if it was picked up, an end exactly if it is over, and
\* they are in order (chat.service.ts:764-779).
StampsAgree ==
  \A c \in Calls :
    /\ answeredAt[c] # None <=> status[c] \in {"ACCEPTED", "ENDED"}
    /\ endedAt[c] # None <=>
         status[c] \in {"ENDED", "REJECTED", "MISSED", "CANCELLED"}
    /\ answeredAt[c] # None =>
         /\ startedAt[c] <= answeredAt[c]
         /\ endedAt[c] # None => answeredAt[c] <= endedAt[c]

Promise == INSTANCE CallLifecycle WITH
  state <- status,
  due <- {c \in Calls : status[c] # None /\ Rung(c)}

\* Accepting, rejecting, cancelling and missing race, and a call still goes through
\* its states as CallLifecycle has it (chat.repository.ts:465-485).
KeepsPromise == Promise!Spec
=============================================================================
